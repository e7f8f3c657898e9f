---------------------------- MODULE AccountsProofs ----------------------------
(***************************************************************************)
(* What holds of accounts for any number of agencies, users, tokens and     *)
(* requests at a time, however long sessions live.                          *)
(***************************************************************************)
EXTENDS MCAccounts, PublishingProofs, TLAPS

\* What a call may hold.
Locals == {IdleCall} \cup SigningUp \cup LoggingIn \cup Inviting \cup Changing

\* What a team change may be asked for.
MayChange(kind, r) ==
  \/ kind = "updateRole" /\ r \in Role
  \/ kind = "remove" /\ r = "none"

\* A call's kind says what else it holds.
LEMMA KindsOfCalls ==
  ASSUME NEW x \in Locals
  PROVE  /\ x.kind = "signup" <=> x \in SigningUp
         /\ x.kind = "login" <=> x \in LoggingIn
         /\ x.kind = "invite" <=> x \in Inviting
         /\ x.kind \in TeamChange <=> x \in Changing
         /\ x.kind = "none" <=> x = IdleCall
  BY DEF Locals, IdleCall, SigningUp, LoggingIn, Inviting, Changing, TeamChange

LEMMA RowsOfUsers ==
  ASSUME AccountsTypeOK, NEW u \in User, Present(u)
  PROVE  user[u] \in UserRow
  BY DEF AccountsTypeOK, Present, Unborn, Removed

LEMMA AccountsInvInit ==
  ASSUME AccountsInit
  PROVE  AccountsInv
<1> USE DEF AccountsInit
<1>1. AccountsTypeOK
  BY AccountsAssumption DEF AccountsTypeOK
<1>2. \A u \in User : ~Present(u)
  BY DEF Present, Unborn
<1>3. \A c \in Call : call[c].kind = "none"
  BY DEF IdleCall
<1> QED
  BY <1>1, <1>2, <1>3 DEF AccountsInv, AgenciesExist, RolesWereHeld, RacesAreKnown,
     OthersRemain, PowerLapses, EmailsAreUnique, AgencyKeepsAdmin, Changes, TeamChange

LEMMA AccountsTypes ==
  ASSUME AccountsInv, AccountsNext
  PROVE  AccountsTypeOK'
<1> USE AccountsAssumption DEF AccountsInv, AccountsTypeOK
<1>0. /\ \A c \in Call : call[c] \in Locals
      /\ \A c \in Call, x \in Locals : Proceed(c, x) =>
           call' \in [Call -> {IdleCall} \cup SigningUp \cup LoggingIn \cup Inviting \cup Changing]
  BY DEF Locals, Proceed
<1>a. ASSUME NEW c \in Call, Answer(c)
      PROVE  call' \in [Call -> {IdleCall} \cup SigningUp \cup LoggingIn \cup Inviting \cup Changing]
  BY <1>0, <1>a DEF Answer, Locals
<1>b. ASSUME NEW u \in User, NEW x \in {Unborn, Removed} \cup UserRow, SetUser(u, x)
      PROVE  /\ user' \in [User -> {Unborn, Removed} \cup UserRow]
             /\ held' \subseteq User \X Agency \X Role
  BY <1>b DEF SetUser, UserRow, Unborn, Removed
<1>d. ASSUME NEW u \in User, NEW a \in Agency, NEW r \in Role, SignSession(u, a, r)
      PROVE  token' \subseteq Token
  BY <1>d DEF SignSession, Token
<1>1. ASSUME NEW c \in Call, NEW e \in Email, Signup(c, e)
      PROVE  AccountsTypeOK'
  <2>1. [kind |-> "signup", pc |-> "insert", email |-> e] \in Locals
    BY DEF Locals, SigningUp
  <2> QED
    BY <1>1, <1>0, <2>1 DEF Signup
<1>2. ASSUME NEW c \in Call, NEW a \in Agency, NEW u \in User, CreateAgencyWithAdmin(c, a, u)
      PROVE  AccountsTypeOK'
  <2>1. call[c].email \in Email
    BY <1>2, <1>0, KindsOfCalls DEF CreateAgencyWithAdmin, CallAt, SigningUp
  <2>2. [state |-> "present", agency |-> a, email |-> call[c].email, role |-> "agency_admin"] \in UserRow
    BY <2>1 DEF UserRow
  <2> QED
    BY <1>2, <1>a, <1>b, <1>d, <2>2 DEF CreateAgencyWithAdmin
<1>3. ASSUME NEW c \in Call, NEW u \in User, Login(c, u)
      PROVE  AccountsTypeOK'
  <2>1. [kind |-> "login", pc |-> "verify", user |-> u,
         agency |-> user[u].agency, role |-> user[u].role] \in Locals
    BY <1>3, RowsOfUsers DEF Login, Locals, LoggingIn, UserRow
  <2> QED
    BY <1>3, <1>0, <2>1 DEF Login
<1>4. ASSUME NEW c \in Call, VerifyPassword(c)
      PROVE  AccountsTypeOK'
  <2>1. call[c] \in LoggingIn
    BY <1>4, <1>0, KindsOfCalls DEF VerifyPassword, CallAt
  <2> QED
    BY <1>4, <1>a, <1>d, <2>1 DEF VerifyPassword, LoggingIn
<1>5. ASSUME NEW c \in Call, NEW t \in token, NEW e \in Email, NEW r \in Role, Invite(c, t, e, r)
      PROVE  AccountsTypeOK'
  <2>1. [kind |-> "invite", pc |-> "insert", agency |-> t.agency,
         actor |-> t.user, email |-> e, role |-> r] \in Locals
    BY DEF Locals, Inviting, Token
  <2> QED
    BY <1>5, <1>0, <2>1 DEF Invite
<1>6. ASSUME NEW c \in Call, NEW u \in User, CreateMember(c, u)
      PROVE  AccountsTypeOK'
  <2>1. call[c] \in Inviting
    BY <1>6, <1>0, KindsOfCalls DEF CreateMember, CallAt
  <2>2. [state |-> "present", agency |-> call[c].agency, email |-> call[c].email,
         role |-> call[c].role] \in UserRow
    BY <2>1 DEF Inviting, UserRow
  <2> QED
    BY <1>6, <1>a, <1>b, <2>2 DEF CreateMember
<1>7. ASSUME NEW c \in Call, NEW t \in token, NEW kind, NEW u \in User, NEW r,
             MayChange(kind, r), StartChange(c, t, kind, u, r)
      PROVE  AccountsTypeOK'
  <2>1. [kind |-> kind, pc |-> "find", agency |-> t.agency,
         actor |-> t.user, target |-> u, role |-> r] \in Locals
    BY <1>7 DEF Locals, Changing, Token, MayChange
  <2> QED
    BY <1>7, <1>0, <2>1 DEF StartChange, Token
<1>8. ASSUME NEW c \in Call, FindTarget(c)
      PROVE  AccountsTypeOK'
  <2>1. call[c] \in Changing
    BY <1>8, <1>0, KindsOfCalls DEF FindTarget, CallAt
  <2>2. \A p \in {"count", "write"} : [call[c] EXCEPT !.pc = p] \in Locals
    BY <2>1 DEF Changing, Locals
  <2> QED
    BY <1>8, <1>0, <1>a, <2>2 DEF FindTarget
<1>9. ASSUME NEW c \in Call, AssertNotLastAdmin(c)
      PROVE  AccountsTypeOK'
  <2>1. call[c] \in Changing
    BY <1>9, <1>0, KindsOfCalls DEF AssertNotLastAdmin, CallAt
  <2>2. [call[c] EXCEPT !.pc = "write"] \in Locals
    BY <2>1 DEF Changing, Locals
  <2> QED
    BY <1>9, <1>0, <1>a, <2>2 DEF AssertNotLastAdmin
<1>10. ASSUME NEW c \in Call, WriteTarget(c)
      PROVE  AccountsTypeOK'
  <2>1. call[c] \in Changing
    BY <1>10, <1>0, KindsOfCalls DEF WriteTarget, CallAt
  <2>2. call[c].target \in User
    BY <2>1 DEF Changing
  <2>3. CASE InAgency(call[c].target, call[c].agency)
    <3> DEFINE x == IF call[c].kind = "remove" THEN Removed
                    ELSE [user[call[c].target] EXCEPT !.role = call[c].role]
    <3>1. x \in {Unborn, Removed} \cup UserRow
      BY <2>1, <2>2, <2>3, RowsOfUsers DEF InAgency, Changing, UserRow
    <3> QED
      BY <1>10, <1>a, <1>b, <2>2, <2>3, <3>1 DEF WriteTarget
  <2> QED
    BY <1>10, <1>a, <2>3 DEF WriteTarget
<1>11. ASSUME NEW c \in Call, CallFails(c)
      PROVE  AccountsTypeOK'
  BY <1>11, <1>a DEF CallFails
<1>12. ASSUME NEW t \in token, Logout(t)
      PROVE  AccountsTypeOK'
  BY <1>12 DEF Logout
<1>13. ASSUME ClockTicks
      PROVE  AccountsTypeOK'
  BY <1>13 DEF ClockTicks
<1>14. ASSUME NEW c \in Call, NEW t \in token, NEW u \in User, NEW r \in Role,
              UpdateRole(c, t, u, r)
      PROVE  AccountsTypeOK'
  BY <1>7, <1>14 DEF UpdateRole, MayChange
<1>15. ASSUME NEW c \in Call, NEW t \in token, NEW u \in User, RemoveUser(c, t, u)
      PROVE  AccountsTypeOK'
  BY <1>7, <1>15 DEF RemoveUser, MayChange
<1> QED
  BY <1>1, <1>2, <1>3, <1>4, <1>5, <1>6, <1>8, <1>9, <1>10, <1>11, <1>12, <1>13, <1>14, <1>15
  DEF AccountsNext, CallStep

\* A change that goes on to its next statement is still of the same people.
LEMMA ChangesGoOn ==
  ASSUME AccountsTypeOK, NEW c \in Call, FindTarget(c) \/ AssertNotLastAdmin(c)
  PROVE  /\ Changes(c)
         /\ UNCHANGED <<seconds, founded, user, token, held, raced>>
         /\ \A d \in Call :
              \/ call'[d] = IdleCall
              \/ /\ call'[d].kind = call[d].kind
                 /\ call'[d].agency = call[d].agency
                 /\ call'[d].actor = call[d].actor
                 /\ call'[d].target = call[d].target
                 /\ d # c => call'[d] = call[d]
<1>1. call[c] \in Changing
  <2>1. call[c] \in Locals /\ call[c].kind \in TeamChange
    BY DEF AccountsTypeOK, Locals, FindTarget, AssertNotLastAdmin, CallAt
  <2> QED
    BY <2>1, KindsOfCalls
<1>2. \/ call' = [call EXCEPT ![c] = IdleCall]
      \/ \E p \in {"count", "write"} : call' = [call EXCEPT ![c] = [call[c] EXCEPT !.pc = p]]
  <2>1. CASE FindTarget(c)
    BY <2>1 DEF FindTarget, Answer, Proceed
  <2>2. CASE AssertNotLastAdmin(c)
    BY <2>2 DEF AssertNotLastAdmin, Answer, Proceed
  <2> QED
    BY <2>1, <2>2
<1>3. Changes(c) /\ UNCHANGED <<seconds, founded, user, token, held, raced>>
  BY DEF FindTarget, AssertNotLastAdmin, CallAt, Changes
<1>4. \A p \in {"count", "write"} : LET x == [call[c] EXCEPT !.pc = p]
                                    IN /\ x.kind = call[c].kind
                                       /\ x.agency = call[c].agency
                                       /\ x.actor = call[c].actor
                                       /\ x.target = call[c].target
  BY <1>1 DEF Changing
<1> QED
  BY <1>2, <1>3, <1>4 DEF AccountsTypeOK

LEMMA AgenciesStay ==
  ASSUME AccountsInv, AccountsNext
  PROVE  AgenciesExist'
<1> USE RowsOfUsers DEF AccountsInv, AccountsTypeOK, AgenciesExist, Changes, Present, IdleCall, TeamChange, Removed, Unborn, InAgency, MayChange
<1>1. ASSUME NEW c \in Call, NEW e \in Email, Signup(c, e)
      PROVE  AgenciesExist'
  BY <1>1 DEF Signup, Proceed
<1>2. ASSUME NEW c \in Call, NEW a \in Agency, NEW u \in User, CreateAgencyWithAdmin(c, a, u)
      PROVE  AgenciesExist'
  BY <1>2 DEF CreateAgencyWithAdmin, Answer, Proceed, SetUser, SignSession, CallAt
<1>3. ASSUME NEW c \in Call, NEW u \in User, Login(c, u)
      PROVE  AgenciesExist'
  BY <1>3 DEF Login, Proceed
<1>4. ASSUME NEW c \in Call, VerifyPassword(c)
      PROVE  AgenciesExist'
  BY <1>4 DEF VerifyPassword, Answer, Proceed, SignSession, CallAt
<1>5. ASSUME NEW c \in Call, NEW t \in token, NEW e \in Email, NEW r \in Role, Invite(c, t, e, r)
      PROVE  AgenciesExist'
  BY <1>5 DEF Invite, Proceed, RequireAdmin
<1>6. ASSUME NEW c \in Call, NEW u \in User, CreateMember(c, u)
      PROVE  AgenciesExist'
  BY <1>6 DEF CreateMember, Answer, Proceed, SetUser, CallAt
<1>7. ASSUME NEW c \in Call, NEW t \in token, NEW kind, NEW u \in User, NEW r,
             MayChange(kind, r), StartChange(c, t, kind, u, r)
      PROVE  AgenciesExist'
  BY <1>7 DEF StartChange, Proceed, RequireAdmin
<1>8. ASSUME NEW c \in Call, FindTarget(c)
      PROVE  AgenciesExist'
  BY <1>8, ChangesGoOn
<1>9. ASSUME NEW c \in Call, AssertNotLastAdmin(c)
      PROVE  AgenciesExist'
  BY <1>9, ChangesGoOn
<1>10. ASSUME NEW c \in Call, WriteTarget(c)
      PROVE  AgenciesExist'
  <2>1. \A u \in User : Present(u)' => Present(u) /\ user'[u].agency = user[u].agency
    BY <1>10 DEF WriteTarget, SetUser, UserRow
  <2> QED
    BY <1>10, <2>1 DEF WriteTarget, Answer, Proceed
<1>11. ASSUME NEW c \in Call, CallFails(c)
      PROVE  AgenciesExist'
  BY <1>11 DEF CallFails, Answer, Proceed
<1>12. ASSUME NEW t \in token, Logout(t)
      PROVE  AgenciesExist'
  BY <1>12 DEF Logout
<1>13. ASSUME ClockTicks
      PROVE  AgenciesExist'
  BY <1>13 DEF ClockTicks
<1>14. ASSUME NEW c \in Call, NEW t \in token, NEW u \in User, NEW r \in Role,
              UpdateRole(c, t, u, r)
      PROVE  AgenciesExist'
  BY <1>7, <1>14 DEF UpdateRole, MayChange
<1>15. ASSUME NEW c \in Call, NEW t \in token, NEW u \in User, RemoveUser(c, t, u)
      PROVE  AgenciesExist'
  BY <1>7, <1>15 DEF RemoveUser, MayChange
<1> QED
  BY <1>1, <1>2, <1>3, <1>4, <1>5, <1>6, <1>8, <1>9, <1>10, <1>11, <1>12, <1>13, <1>14, <1>15
  DEF AccountsNext, CallStep

LEMMA RolesStayHeld ==
  ASSUME AccountsInv, AccountsNext
  PROVE  RolesWereHeld'
<1> USE RowsOfUsers DEF AccountsInv, AccountsTypeOK, RolesWereHeld, PowerLapses, Changes, Present, IdleCall, TeamChange, Removed, Unborn, InAgency, MayChange
<1>1. ASSUME NEW c \in Call, NEW e \in Email, Signup(c, e)
      PROVE  RolesWereHeld'
  BY <1>1 DEF Signup, Proceed
<1>2. ASSUME NEW c \in Call, NEW a \in Agency, NEW u \in User, CreateAgencyWithAdmin(c, a, u)
      PROVE  RolesWereHeld'
  BY <1>2 DEF CreateAgencyWithAdmin, Answer, Proceed, SetUser, SignSession, CallAt
<1>3. ASSUME NEW c \in Call, NEW u \in User, Login(c, u)
      PROVE  RolesWereHeld'
  BY <1>3 DEF Login, Proceed
<1>4. ASSUME NEW c \in Call, VerifyPassword(c)
      PROVE  RolesWereHeld'
  BY <1>4 DEF VerifyPassword, Answer, Proceed, SignSession, CallAt
<1>5. ASSUME NEW c \in Call, NEW t \in token, NEW e \in Email, NEW r \in Role, Invite(c, t, e, r)
      PROVE  RolesWereHeld'
  BY <1>5 DEF Invite, Proceed, RequireAdmin
<1>6. ASSUME NEW c \in Call, NEW u \in User, CreateMember(c, u)
      PROVE  RolesWereHeld'
  BY <1>6 DEF CreateMember, Answer, Proceed, SetUser, CallAt
<1>7. ASSUME NEW c \in Call, NEW t \in token, NEW kind, NEW u \in User, NEW r,
             MayChange(kind, r), StartChange(c, t, kind, u, r)
      PROVE  RolesWereHeld'
  BY <1>7 DEF StartChange, Proceed, RequireAdmin
<1>8. ASSUME NEW c \in Call, FindTarget(c)
      PROVE  RolesWereHeld'
  BY <1>8, ChangesGoOn
<1>9. ASSUME NEW c \in Call, AssertNotLastAdmin(c)
      PROVE  RolesWereHeld'
  BY <1>9, ChangesGoOn
<1>10. ASSUME NEW c \in Call, WriteTarget(c)
      PROVE  RolesWereHeld'
  BY <1>10 DEF WriteTarget, Answer, Proceed, SetUser, CallAt
<1>11. ASSUME NEW c \in Call, CallFails(c)
      PROVE  RolesWereHeld'
  BY <1>11 DEF CallFails, Answer, Proceed
<1>12. ASSUME NEW t \in token, Logout(t)
      PROVE  RolesWereHeld'
  BY <1>12 DEF Logout
<1>13. ASSUME ClockTicks
      PROVE  RolesWereHeld'
  BY <1>13 DEF ClockTicks
<1>14. ASSUME NEW c \in Call, NEW t \in token, NEW u \in User, NEW r \in Role,
              UpdateRole(c, t, u, r)
      PROVE  RolesWereHeld'
  BY <1>7, <1>14 DEF UpdateRole, MayChange
<1>15. ASSUME NEW c \in Call, NEW t \in token, NEW u \in User, RemoveUser(c, t, u)
      PROVE  RolesWereHeld'
  BY <1>7, <1>15 DEF RemoveUser, MayChange
<1> QED
  BY <1>1, <1>2, <1>3, <1>4, <1>5, <1>6, <1>8, <1>9, <1>10, <1>11, <1>12, <1>13, <1>14, <1>15
  DEF AccountsNext, CallStep

LEMMA RacesStayKnown ==
  ASSUME AccountsInv, AccountsNext
  PROVE  RacesAreKnown'
<1> USE DEF AccountsInv, AccountsTypeOK, RacesAreKnown, Changes, ChangingTeam, IdleCall, TeamChange, MayChange
<1>1. ASSUME NEW c \in Call, NEW e \in Email, Signup(c, e)
      PROVE  RacesAreKnown'
  BY <1>1 DEF Signup, Proceed
<1>2. ASSUME NEW c \in Call, NEW a \in Agency, NEW u \in User, CreateAgencyWithAdmin(c, a, u)
      PROVE  RacesAreKnown'
  BY <1>2 DEF CreateAgencyWithAdmin, Answer, Proceed, SetUser, SignSession, CallAt
<1>3. ASSUME NEW c \in Call, NEW u \in User, Login(c, u)
      PROVE  RacesAreKnown'
  BY <1>3 DEF Login, Proceed
<1>4. ASSUME NEW c \in Call, VerifyPassword(c)
      PROVE  RacesAreKnown'
  BY <1>4 DEF VerifyPassword, Answer, Proceed, SignSession, CallAt
<1>5. ASSUME NEW c \in Call, NEW t \in token, NEW e \in Email, NEW r \in Role, Invite(c, t, e, r)
      PROVE  RacesAreKnown'
  BY <1>5 DEF Invite, Proceed, RequireAdmin
<1>6. ASSUME NEW c \in Call, NEW u \in User, CreateMember(c, u)
      PROVE  RacesAreKnown'
  BY <1>6 DEF CreateMember, Answer, Proceed, SetUser, CallAt
<1>7. ASSUME NEW c \in Call, NEW t \in token, NEW kind, NEW u \in User, NEW r,
             MayChange(kind, r), StartChange(c, t, kind, u, r)
      PROVE  RacesAreKnown'
  BY <1>7 DEF StartChange, Proceed, RequireAdmin
<1>8. ASSUME NEW c \in Call, FindTarget(c)
      PROVE  RacesAreKnown'
  BY <1>8, ChangesGoOn
<1>9. ASSUME NEW c \in Call, AssertNotLastAdmin(c)
      PROVE  RacesAreKnown'
  BY <1>9, ChangesGoOn
<1>10. ASSUME NEW c \in Call, WriteTarget(c)
      PROVE  RacesAreKnown'
  BY <1>10 DEF WriteTarget, Answer, Proceed, SetUser, CallAt
<1>11. ASSUME NEW c \in Call, CallFails(c)
      PROVE  RacesAreKnown'
  BY <1>11 DEF CallFails, Answer, Proceed
<1>12. ASSUME NEW t \in token, Logout(t)
      PROVE  RacesAreKnown'
  BY <1>12 DEF Logout
<1>13. ASSUME ClockTicks
      PROVE  RacesAreKnown'
  BY <1>13 DEF ClockTicks
<1>14. ASSUME NEW c \in Call, NEW t \in token, NEW u \in User, NEW r \in Role,
              UpdateRole(c, t, u, r)
      PROVE  RacesAreKnown'
  BY <1>7, <1>14 DEF UpdateRole, MayChange
<1>15. ASSUME NEW c \in Call, NEW t \in token, NEW u \in User, RemoveUser(c, t, u)
      PROVE  RacesAreKnown'
  BY <1>7, <1>15 DEF RemoveUser, MayChange
<1> QED
  BY <1>1, <1>2, <1>3, <1>4, <1>5, <1>6, <1>8, <1>9, <1>10, <1>11, <1>12, <1>13, <1>14, <1>15
  DEF AccountsNext, CallStep

\* A token is an older one, or says what its user is or was.
LEMMA TokensAreGiven ==
  ASSUME AccountsInv, AccountsNext
  PROVE  /\ held \subseteq held'
         /\ seconds' = seconds \/ (seconds' = seconds + 1 /\ token' = token)
         /\ \A t \in token' :
              \/ t \in token
              \/ <<t.user, t.agency, t.role>> \in held' /\ t.exp = seconds' + TTL
<1> DEFINE Given == \A t \in token' :
                      \/ t \in token
                      \/ <<t.user, t.agency, t.role>> \in held' /\ t.exp = seconds' + TTL
<1>0. held \subseteq held' /\ (seconds' = seconds \/ (seconds' = seconds + 1 /\ token' = token))
  <2> USE DEF SetUser
  <2>1. ASSUME NEW c \in Call, CallStep(c)
        PROVE  held \subseteq held' /\ seconds' = seconds
    BY <2>1 DEF CallStep, Signup, CreateAgencyWithAdmin, Login, VerifyPassword, Invite, CreateMember,
       UpdateRole, RemoveUser, StartChange, FindTarget, AssertNotLastAdmin, WriteTarget, CallFails
  <2> QED
    BY <2>1 DEF AccountsNext, Logout, ClockTicks
<1>1. ASSUME NEW u, NEW a, NEW r, SignSession(u, a, r), seconds' = seconds, <<u, a, r>> \in held'
      PROVE  Given
  BY <1>1 DEF SignSession
<1>2. ASSUME NEW c \in Call, NEW a \in Agency, NEW u \in User, CreateAgencyWithAdmin(c, a, u)
      PROVE  Given
  <2> DEFINE fresh == [state |-> "present", agency |-> a, email |-> call[c].email,
                     role |-> "agency_admin"]
  <2>1. CASE token' = token
    BY <2>1
  <2>2. CASE SetUser(u, fresh) /\ SignSession(u, a, "agency_admin")
    <3>1. <<u, a, "agency_admin">> \in held'
      BY <2>2 DEF SetUser
    <3> QED
      BY <1>1, <1>2, <2>2, <3>1 DEF CreateAgencyWithAdmin
  <2> QED
    BY <1>2, <2>1, <2>2 DEF CreateAgencyWithAdmin
<1>3. ASSUME NEW c \in Call, VerifyPassword(c)
      PROVE  Given
  <2>1. <<call[c].user, call[c].agency, call[c].role>> \in held /\ held' = held /\ seconds' = seconds
    BY <1>3 DEF VerifyPassword, CallAt, AccountsInv, RolesWereHeld
  <2> QED
    BY <1>1, <1>3, <2>1 DEF VerifyPassword
<1>4. ASSUME NEW c \in Call, CallStep(c)
      PROVE  Given
  <2>1. CASE token' = token
    BY <2>1
  <2> QED
    BY <1>2, <1>3, <1>4, <2>1 DEF CallStep, Signup, Login, Invite, CreateMember, UpdateRole,
       RemoveUser, StartChange, FindTarget, AssertNotLastAdmin, WriteTarget, CallFails
<1> QED
  BY <1>0, <1>4 DEF AccountsNext, Logout, ClockTicks

LEMMA PowerStillLapses ==
  ASSUME AccountsInv, AccountsNext
  PROVE  PowerLapses'
<1>0. seconds \in Nat /\ TTL \in Nat
  BY AccountsAssumption DEF AccountsInv, AccountsTypeOK
<1>1. \A t \in token : t.exp \in Nat /\ t.exp <= seconds + TTL
  BY DEF AccountsInv, AccountsTypeOK, Token, PowerLapses
<1>2. /\ seconds' \in Nat /\ seconds <= seconds'
      /\ seconds' + TTL \in Nat
  BY <1>0, TokensAreGiven
<1>3. ASSUME NEW t \in token'
      PROVE  t.exp <= seconds' + TTL
  <2>1. CASE t \in token
    BY <1>0, <1>1, <1>2, <2>1
  <2>2. CASE t.exp = seconds' + TTL
    BY <1>2, <2>2
  <2> QED
    BY <2>1, <2>2, TokensAreGiven
<1>4. ASSUME NEW t \in token'
      PROVE  <<t.user, t.agency, t.role>> \in held'
  BY TokensAreGiven DEF AccountsInv, PowerLapses
<1> QED
  BY <1>3, <1>4 DEF PowerLapses

LEMMA EmailsStayUnique ==
  ASSUME AccountsInv, AccountsNext
  PROVE  EmailsAreUnique'
<1> USE DEF AccountsInv, AccountsTypeOK, EmailsAreUnique, EmailTaken, AgenciesExist, Present, Removed, Unborn, InAgency
<1>1. ASSUME NEW c \in Call, NEW e \in Email, Signup(c, e)
      PROVE  EmailsAreUnique'
  BY <1>1 DEF Signup, Proceed
<1>2. ASSUME NEW c \in Call, NEW a \in Agency, NEW u \in User, CreateAgencyWithAdmin(c, a, u)
      PROVE  EmailsAreUnique'
  BY <1>2 DEF CreateAgencyWithAdmin, Answer, Proceed, SetUser, SignSession, CallAt
<1>3. ASSUME NEW c \in Call, NEW u \in User, Login(c, u)
      PROVE  EmailsAreUnique'
  BY <1>3 DEF Login, Proceed
<1>4. ASSUME NEW c \in Call, VerifyPassword(c)
      PROVE  EmailsAreUnique'
  BY <1>4 DEF VerifyPassword, Answer, Proceed, SignSession, CallAt
<1>5. ASSUME NEW c \in Call, NEW t \in token, NEW e \in Email, NEW r \in Role, Invite(c, t, e, r)
      PROVE  EmailsAreUnique'
  BY <1>5 DEF Invite, Proceed, RequireAdmin
<1>6. ASSUME NEW c \in Call, NEW u \in User, CreateMember(c, u)
      PROVE  EmailsAreUnique'
  <2>1. call[c].agency \in founded
    BY <1>6 DEF CreateMember, CallAt
  <2> QED
    BY <1>6, <2>1 DEF CreateMember, SetUser
<1>7. ASSUME NEW c \in Call, NEW t \in token, NEW kind, NEW u \in User, NEW r,
             MayChange(kind, r), StartChange(c, t, kind, u, r)
      PROVE  EmailsAreUnique'
  BY <1>7 DEF StartChange, Proceed, RequireAdmin
<1>8. ASSUME NEW c \in Call, FindTarget(c)
      PROVE  EmailsAreUnique'
  BY <1>8 DEF FindTarget, Answer, Proceed, CallAt, ToChange
<1>9. ASSUME NEW c \in Call, AssertNotLastAdmin(c)
      PROVE  EmailsAreUnique'
  BY <1>9 DEF AssertNotLastAdmin, Answer, Proceed, CallAt
<1>10. ASSUME NEW c \in Call, WriteTarget(c)
      PROVE  EmailsAreUnique'
  <2>1. \A u \in User : Present(u)' =>
          Present(u) /\ user'[u].agency = user[u].agency /\ user'[u].email = user[u].email
    BY <1>10, RowsOfUsers DEF WriteTarget, SetUser, UserRow
  <2> QED
    BY <1>10, <2>1 DEF WriteTarget
<1>11. ASSUME NEW c \in Call, CallFails(c)
      PROVE  EmailsAreUnique'
  BY <1>11 DEF CallFails, Answer, Proceed
<1>12. ASSUME NEW t \in token, Logout(t)
      PROVE  EmailsAreUnique'
  BY <1>12 DEF Logout
<1>13. ASSUME ClockTicks
      PROVE  EmailsAreUnique'
  BY <1>13 DEF ClockTicks
<1>14. ASSUME NEW c \in Call, NEW t \in token, NEW u \in User, NEW r \in Role,
              UpdateRole(c, t, u, r)
      PROVE  EmailsAreUnique'
  BY <1>7, <1>14 DEF UpdateRole, MayChange
<1>15. ASSUME NEW c \in Call, NEW t \in token, NEW u \in User, RemoveUser(c, t, u)
      PROVE  EmailsAreUnique'
  BY <1>7, <1>15 DEF RemoveUser, MayChange
<1> QED
  BY <1>1, <1>2, <1>3, <1>4, <1>5, <1>6, <1>8, <1>9, <1>10, <1>11, <1>12, <1>13, <1>14, <1>15
  DEF AccountsNext, CallStep

\* Steps that do not carry a team change on: they only add users, and no call
\* gets to the count or the write.
Aside ==
  /\ \A u \in User : user'[u] = user[u] \/ user[u] = Unborn
  /\ \A a \in founded' : a \in founded \/ Admins(a)' # {}
  /\ raced \subseteq raced'
  /\ \A c \in Call : call'[c] = call[c] \/ call'[c].pc \notin {"count", "write"}

LEMMA StepsAside ==
  ASSUME AccountsInv, AccountsNext
  PROVE  Aside \/ \E c \in Call : FindTarget(c) \/ AssertNotLastAdmin(c) \/ WriteTarget(c)
<1> USE DEF AccountsInv, AccountsTypeOK, Aside, IdleCall, Answer, Proceed
<1>1. ASSUME NEW c \in Call, NEW e \in Email, Signup(c, e)
      PROVE  Aside
  BY <1>1 DEF Signup
<1>2. ASSUME NEW c \in Call, NEW a \in Agency, NEW u \in User, CreateAgencyWithAdmin(c, a, u)
      PROVE  Aside
  <2>1. \A v \in User : user'[v] = user[v] \/ user[v] = Unborn
    BY <1>2 DEF CreateAgencyWithAdmin, SetUser
  <2>2. founded' = founded \/ (founded' = founded \cup {a} /\ u \in Admins(a)')
    BY <1>2 DEF CreateAgencyWithAdmin, SetUser, Admins, InAgency, Present
  <2> QED
    BY <1>2, <2>1, <2>2 DEF CreateAgencyWithAdmin
<1>3. ASSUME NEW c \in Call, NEW u \in User, Login(c, u)
      PROVE  Aside
  BY <1>3 DEF Login
<1>4. ASSUME NEW c \in Call, VerifyPassword(c)
      PROVE  Aside
  BY <1>4 DEF VerifyPassword
<1>5. ASSUME NEW c \in Call, NEW t \in token, NEW e \in Email, NEW r \in Role, Invite(c, t, e, r)
      PROVE  Aside
  BY <1>5 DEF Invite
<1>6. ASSUME NEW c \in Call, NEW u \in User, CreateMember(c, u)
      PROVE  Aside
  BY <1>6 DEF CreateMember, SetUser
<1>7. ASSUME NEW c \in Call, NEW t, NEW kind, NEW u, NEW r, StartChange(c, t, kind, u, r)
      PROVE  Aside
  BY <1>7 DEF StartChange
<1>8. ASSUME NEW c \in Call, CallFails(c)
      PROVE  Aside
  BY <1>8 DEF CallFails
<1> QED
  BY <1>1, <1>2, <1>3, <1>4, <1>5, <1>6, <1>7, <1>8
  DEF AccountsNext, CallStep, UpdateRole, RemoveUser, Logout, ClockTicks

\* The written row is of the agency it was of, and only the target's.
LEMMA OnlyTheTarget ==
  ASSUME AccountsTypeOK, NEW c \in Call, WriteTarget(c)
  PROVE  /\ Changes(c) /\ call[c].pc = "write" /\ call'[c] = IdleCall
         /\ UNCHANGED <<founded, raced>>
         /\ \A d \in Call : d # c => call'[d] = call[d]
         /\ \A u \in User :
              \/ user'[u] = user[u]
              \/ /\ u = call[c].target
                 /\ user[u] # Unborn /\ user'[u] # Unborn
                 /\ InAgency(u, call[c].agency)
                 /\ \A a : InAgency(u, a)' => InAgency(u, a)
<1>1. /\ Changes(c) /\ call[c].pc = "write" /\ call'[c] = IdleCall
      /\ UNCHANGED <<founded, raced>>
      /\ \A d \in Call : d # c => call'[d] = call[d]
  BY DEF AccountsTypeOK, WriteTarget, CallAt, Changes, Answer, Proceed
<1> DEFINE i == call[c]
<1>2. CASE ~InAgency(i.target, i.agency)
  BY <1>1, <1>2 DEF WriteTarget
<1>3. CASE InAgency(i.target, i.agency)
  <2> DEFINE x == IF i.kind = "remove" THEN Removed ELSE [user[i.target] EXCEPT !.role = i.role]
  <2>0. i.target \in User
    BY <1>1, KindsOfCalls DEF AccountsTypeOK, Locals, Changing, Changes
  <2>1. user' = [user EXCEPT ![i.target] = x]
    BY <1>3 DEF WriteTarget, SetUser
  <2>2. user[i.target] \in UserRow
    BY <1>3, <2>0, RowsOfUsers DEF InAgency
  <2>3. x = Removed \/ (x.state = "present" /\ x.agency = user[i.target].agency)
    BY <2>2 DEF UserRow
  <2>4. user[i.target] # Unborn /\ x # Unborn
    BY <2>2, <2>3 DEF UserRow, Unborn, Removed
  <2>5. user'[i.target] = x /\ \A u \in User : u # i.target => user'[u] = user[u]
    BY <2>0, <2>1 DEF AccountsTypeOK
  <2>6. user'[i.target].state = "present" => user'[i.target].agency = user[i.target].agency
    BY <2>3, <2>5 DEF Removed
  <2>7. user[i.target] # Unborn /\ user'[i.target] # Unborn
    BY <2>4, <2>5
  <2>8. ASSUME NEW u \in User, user'[u] # user[u]
        PROVE  /\ u = i.target
               /\ user[u] # Unborn /\ user'[u] # Unborn
               /\ InAgency(u, i.agency)
               /\ \A a : InAgency(u, a)' => InAgency(u, a)
    <3>1. u = i.target
      BY <2>5, <2>8
    <3>2. \A a : InAgency(u, a)' => InAgency(u, a)
      BY <2>2, <2>6, <3>1 DEF InAgency, Present, UserRow
    <3> QED
      BY <1>3, <2>7, <3>1, <3>2 DEF InAgency
  <2> QED
    BY <1>1, <2>8
<1> QED
  BY <1>2, <1>3

LEMMA OthersStay ==
  ASSUME AccountsInv, AccountsNext
  PROVE  OthersRemain'
<1> USE DEF AccountsInv
<1>1. ASSUME Aside
      PROVE  OthersRemain'
  <2> SUFFICES ASSUME NEW d \in Call, Changes(d)', call'[d].pc \in {"count", "write"}
               PROVE  (/\ user[call[d].target] # Unborn
                       /\ call[d].pc = "write" /\ call[d].agency \notin raced =>
                            \/ call[d].target \notin Admins(call[d].agency)
                            \/ \E v \in Admins(call[d].agency) : v # call[d].target)'
    BY DEF OthersRemain
  <2>1. call'[d] = call[d] /\ Changes(d)
    BY <1>1 DEF Aside, Changes
  <2>2. call[d].target \in User /\ user[call[d].target] # Unborn
    BY <2>1, KindsOfCalls DEF AccountsTypeOK, Locals, Changes, Changing, OthersRemain
  <2>3. user'[call[d].target] = user[call[d].target]
    BY <1>1, <2>2 DEF Aside
  <2>4. \A a : Admins(a) \subseteq Admins(a)'
    BY <1>1 DEF Aside, Admins, InAgency, Present, Unborn
  <2>5. \A a : call[d].target \in Admins(a)' => call[d].target \in Admins(a)
    BY <2>3 DEF Admins, InAgency, Present
  <2>6. \/ ~(call[d].pc = "write" /\ call[d].agency \notin raced)
        \/ call[d].target \notin Admins(call[d].agency)
        \/ \E v \in Admins(call[d].agency) : v # call[d].target
    BY <2>1 DEF OthersRemain
  <2>7. raced \subseteq raced'
    BY <1>1 DEF Aside
  <2> QED
    BY <2>1, <2>2, <2>3, <2>4, <2>5, <2>6, <2>7
<1>2. ASSUME NEW c \in Call, FindTarget(c) \/ AssertNotLastAdmin(c)
      PROVE  OthersRemain'
  <2>0. UNCHANGED <<user, raced>> /\ \A a : Admins(a)' = Admins(a)
    BY <1>2, ChangesGoOn DEF Admins, InAgency, Present
  <2> SUFFICES ASSUME NEW d \in Call, Changes(d)', call'[d].pc \in {"count", "write"}
               PROVE  /\ user[call'[d].target] # Unborn
                      /\ call'[d].pc = "write" /\ call'[d].agency \notin raced =>
                           \/ call'[d].target \notin Admins(call'[d].agency)
                           \/ \E v \in Admins(call'[d].agency) : v # call'[d].target
    BY <2>0 DEF OthersRemain
  <2>1. CASE d # c
    <3>1. call'[d] = call[d]
      BY <1>2, <2>1, ChangesGoOn DEF Changes, IdleCall, TeamChange
    <3> QED
      BY <3>1 DEF OthersRemain, Changes
  <2>2. CASE d = c
    <3>1. /\ Changes(c) /\ call'[c].target = call[c].target
          /\ call'[c].agency = call[c].agency
      BY <1>2, <2>2, ChangesGoOn DEF Changes, IdleCall, TeamChange
    <3>2. CASE FindTarget(c)
      <4>1. ToChange(call[c])
        BY <2>2, <3>2 DEF FindTarget, Answer, Proceed, AccountsTypeOK, IdleCall
      <4>2. user[call[c].target] # Unborn
        BY <4>1 DEF ToChange, InAgency, Present, Unborn
      <4>3. call'[c].pc = IF user[call[c].target].role = "agency_admin" THEN "count" ELSE "write"
        <5>1. call[c] \in Changing
          BY <3>1, KindsOfCalls DEF AccountsTypeOK, Locals, Changes
        <5> QED
          BY <3>2, <4>1, <5>1 DEF FindTarget, Proceed, AccountsTypeOK, Changing
      <4>4. call'[c].pc = "write" => \A a : call[c].target \notin Admins(a)
        BY <4>3 DEF Admins
      <4> QED
        BY <2>2, <3>1, <4>2, <4>4
    <3>3. CASE AssertNotLastAdmin(c)
      <4>1. user[call[c].target] # Unborn
        BY <3>1, <3>3 DEF AssertNotLastAdmin, CallAt, OthersRemain
      <4>2. ~TooFewAdmins(call[c].agency)
        BY <2>2, <3>3 DEF AssertNotLastAdmin, Answer, Proceed, AccountsTypeOK, IdleCall
      <4>3. \E v \in Admins(call[c].agency) : v # call[c].target
        BY <4>2 DEF TooFewAdmins
      <4> QED
        BY <2>2, <3>1, <4>1, <4>3
    <3> QED
      BY <1>2, <3>2, <3>3
  <2> QED
    BY <2>1, <2>2
<1>3. ASSUME NEW c \in Call, WriteTarget(c)
      PROVE  OthersRemain'
  <2>0. /\ Changes(c) /\ call'[c] = IdleCall /\ raced' = raced
        /\ \A d \in Call : d # c => call'[d] = call[d]
    BY <1>3, OnlyTheTarget
  <2> SUFFICES ASSUME NEW d \in Call, d # c, Changes(d), call[d].pc \in {"count", "write"}
               PROVE  (/\ user[call[d].target] # Unborn
                       /\ call[d].pc = "write" /\ call[d].agency \notin raced =>
                            \/ call[d].target \notin Admins(call[d].agency)
                            \/ \E v \in Admins(call[d].agency) : v # call[d].target)'
    <3>1. \A d \in Call : Changes(d)' => d # c
      BY <2>0 DEF Changes, IdleCall, TeamChange
    <3> QED
      BY <2>0, <3>1 DEF OthersRemain, Changes
  <2>1. call[d].target \in User /\ user[call[d].target] # Unborn
    BY KindsOfCalls DEF AccountsTypeOK, Locals, Changes, Changing, OthersRemain
  <2>2. user'[call[d].target] # Unborn
    BY <1>3, <2>1, OnlyTheTarget
  <2>3. ASSUME call[d].agency \notin raced
        PROVE  Admins(call[d].agency)' = Admins(call[d].agency)
    <3>1. call[c].agency # call[d].agency
      BY <2>0, <2>3 DEF RacesAreKnown
    <3>2. \A u \in User : InAgency(u, call[c].agency) => ~InAgency(u, call[d].agency)
      BY <3>1 DEF InAgency
    <3>3. \A u \in User :
            \/ user'[u] = user[u]
            \/ ~InAgency(u, call[d].agency) /\ ~InAgency(u, call[d].agency)'
      BY <1>3, <2>0, <3>2, OnlyTheTarget
    <3> QED
      BY <3>3, <2>0 DEF Admins, InAgency, Present
  <2>4. \/ ~(call[d].pc = "write" /\ call[d].agency \notin raced)
        \/ call[d].target \notin Admins(call[d].agency)
        \/ \E v \in Admins(call[d].agency) : v # call[d].target
    BY DEF OthersRemain
  <2> QED
    BY <2>0, <2>2, <2>3, <2>4
<1> QED
  BY <1>1, <1>2, <1>3, StepsAside

LEMMA AdminsStay ==
  ASSUME AccountsInv, AccountsNext
  PROVE  AgencyKeepsAdmin'
<1> USE DEF AccountsInv
<1>1. ASSUME Aside
      PROVE  AgencyKeepsAdmin'
  <2>1. \A a : Admins(a) \subseteq Admins(a)'
    BY <1>1 DEF Aside, Admins, InAgency, Present, Unborn
  <2> QED
    BY <1>1, <2>1 DEF Aside, AgencyKeepsAdmin
<1>2. ASSUME NEW c \in Call, FindTarget(c) \/ AssertNotLastAdmin(c)
      PROVE  AgencyKeepsAdmin'
  BY <1>2, ChangesGoOn DEF AgencyKeepsAdmin, Admins, InAgency, Present
<1>3. ASSUME NEW c \in Call, WriteTarget(c)
      PROVE  AgencyKeepsAdmin'
  <2> SUFFICES ASSUME NEW a \in founded \ raced
               PROVE  Admins(a)' # {}
    BY <1>3, OnlyTheTarget DEF AgencyKeepsAdmin
  <2>1. \A v \in Admins(a) : v # call[c].target => v \in Admins(a)'
    BY <1>3, OnlyTheTarget DEF Admins, InAgency, Present
  <2>2. PICK v \in Admins(a) : TRUE
    BY DEF AgencyKeepsAdmin
  <2>3. CASE call[c].target \notin Admins(a)
    BY <2>1, <2>2, <2>3
  <2>4. CASE call[c].target \in Admins(a) /\ call[c].agency = a
    BY <1>3, <2>1, <2>4, OnlyTheTarget DEF OthersRemain
  <2>5. CASE call[c].target \in Admins(a) /\ call[c].agency # a
    <3>1. ~InAgency(call[c].target, call[c].agency)
      BY <2>5 DEF Admins, InAgency
    <3>2. user' = user
      BY <1>3, <3>1 DEF WriteTarget
    <3> QED
      BY <2>2, <3>2 DEF Admins, InAgency, Present
  <2> QED
    BY <2>3, <2>4, <2>5
<1> QED
  BY <1>1, <1>2, <1>3, StepsAside

LEMMA AccountsInvariance == AccountsSpec => []AccountsInv
<1>1. AccountsInit => AccountsInv
  BY AccountsInvInit
<1>2. ASSUME AccountsInv, [AccountsNext]_accountVars
      PROVE  AccountsInv'
  <2>1. CASE AccountsNext
    BY <1>2, <2>1, AccountsTypes, AgenciesStay, RolesStayHeld, RacesStayKnown, OthersStay,
       PowerStillLapses, EmailsStayUnique, AdminsStay DEF AccountsInv
  <2>2. CASE UNCHANGED accountVars
    BY <1>2, <2>2 DEF accountVars, AccountsInv, AccountsTypeOK, AgenciesExist, RolesWereHeld,
       RacesAreKnown, OthersRemain, PowerLapses, EmailsAreUnique, AgencyKeepsAdmin, Changes, Admins,
       InAgency, Present
  <2> QED
    BY <1>2, <2>1, <2>2
<1> QED
  BY <1>1, <1>2, PTL DEF AccountsSpec

\* The variables keep to their types. (auth-service.ts, team-service.ts)
THEOREM AccountsTypeCorrect == AccountsSpec => []AccountsTypeOK
<1>1. AccountsInv => AccountsTypeOK
  BY DEF AccountsInv
<1> QED
  BY <1>1, AccountsInvariance, PTL

\* However many admins, requests and stale tokens an agency has, it keeps an
\* admin unless two changes to its team overlapped: the count before a demotion
\* or a removal is enough by itself, and only by itself. (team-service.ts:130)
THEOREM AgenciesKeepAnAdmin == AccountsSpec => []AgencyKeepsAdmin
<1>1. AccountsInv => AgencyKeepsAdmin
  BY DEF AccountsInv
<1> QED
  BY <1>1, AccountsInvariance, PTL

\* Every token carries a role its user had in that agency, and lapses within its
\* time to live. (jwt.ts:41-52)
THEOREM PowerDoesLapse == AccountsSpec => []PowerLapses
<1>1. AccountsInv => PowerLapses
  BY DEF AccountsInv
<1> QED
  BY <1>1, AccountsInvariance, PTL

\* No two users answer to one e-mail, however sign-ups and invitations are
\* interleaved. (prisma-stores.ts:1123-1154)
THEOREM EmailsStayDistinct == AccountsSpec => []EmailsAreUnique
<1>1. AccountsInv => EmailsAreUnique
  BY DEF AccountsInv
<1> QED
  BY <1>1, AccountsInvariance, PTL

\* The condition TeamsAreRunByTheirAdmins puts on a step.
RunByTheirAdmins ==
  \A u \in User : user'[u] # user[u] =>
    \E c \in Call :
      /\ call'[c] = IdleCall
      /\ \/ call[c].kind = "signup" /\ user'[u].agency \notin founded
         \/ /\ call[c].kind \in TeamChange \cup {"invite"}
            /\ InAgency(u, call[c].agency) \/ user'[u].agency = call[c].agency
            /\ <<call[c].actor, call[c].agency, "agency_admin">> \in held

LEMMA AdminsRunTheirTeams ==
  ASSUME AccountsInv, AccountsNext
  PROVE  RunByTheirAdmins
<1> USE DEF AccountsInv, AccountsTypeOK, Answer, Proceed
<1>1. ASSUME NEW c \in Call, NEW a \in Agency, NEW v \in User, CreateAgencyWithAdmin(c, a, v)
      PROVE  RunByTheirAdmins
  <2>1. call'[c] = IdleCall /\ call[c].kind = "signup"
    BY <1>1 DEF CreateAgencyWithAdmin, CallAt
  <2>2. \A u \in User : user'[u] = user[u] \/ user'[u].agency \notin founded
    BY <1>1 DEF CreateAgencyWithAdmin, SetUser
  <2> QED
    BY <2>1, <2>2 DEF RunByTheirAdmins
<1>2. ASSUME NEW c \in Call, NEW v \in User, CreateMember(c, v)
      PROVE  RunByTheirAdmins
  <2>1. /\ call'[c] = IdleCall /\ call[c].kind = "invite"
        /\ <<call[c].actor, call[c].agency, "agency_admin">> \in held
    BY <1>2 DEF CreateMember, CallAt, RolesWereHeld
  <2>2. \A u \in User : user'[u] = user[u] \/ user'[u].agency = call[c].agency
    BY <1>2 DEF CreateMember, SetUser
  <2> QED
    BY <2>1, <2>2 DEF RunByTheirAdmins
<1>3. ASSUME NEW c \in Call, WriteTarget(c)
      PROVE  RunByTheirAdmins
  <2>1. <<call[c].actor, call[c].agency, "agency_admin">> \in held
    BY <1>3, OnlyTheTarget DEF RolesWereHeld
  <2> QED
    BY <1>3, <2>1, OnlyTheTarget DEF RunByTheirAdmins, Changes
<1>4. CASE user' = user
  BY <1>4 DEF RunByTheirAdmins
<1> QED
  BY <1>1, <1>2, <1>3, <1>4 DEF AccountsNext, CallStep, Signup, Login, VerifyPassword, Invite,
     UpdateRole, RemoveUser, StartChange, FindTarget, AssertNotLastAdmin, CallFails, Logout, ClockTicks

\* A row of the team changes only through a request whose user was an admin of
\* that agency, at some time. (team/route.ts:34, prisma-stores.ts:1166)
THEOREM TeamsStayWithTheirAdmins == AccountsSpec => TeamsAreRunByTheirAdmins
<1>1. AccountsInv /\ [AccountsNext]_accountVars => [RunByTheirAdmins]_accountVars
  BY AdminsRunTheirTeams
<1> QED
  BY <1>1, AccountsInvariance, PTL DEF AccountsSpec, TeamsAreRunByTheirAdmins, RunByTheirAdmins

----------------------------------------------------------------------------
(* Accounts and the approval workflow side by side.                         *)

\* What moves beside a component leaves its variables alone.
LEMMA OfficeIsBoth == OfficeSpec => AccountsSpec /\ ApprovalSpec
<1>1. OfficeInit => AccountsInit /\ ApprovalInit
  BY DEF OfficeInit
<1> DEFINE officeVars == <<part, accountVars, approvalVars>>
<1>2. [OfficeNext]_officeVars => [AccountsNext]_accountVars
  BY DEF OfficeNext
<1>3. [OfficeNext]_officeVars => [ApprovalNext]_approvalVars
  BY DEF OfficeNext
<1> QED
  BY <1>1, <1>2, <1>3, PTL DEF OfficeSpec, AccountsSpec, ApprovalSpec

\* What the tables hold, and what requests of both kinds keep across awaits, has its
\* type. (auth-service.ts, team-service.ts, approval/index.ts)
THEOREM OfficeTypesHold == OfficeSpec => []OfficeTypeOK
<1>1. AccountsTypeOK /\ ApprovalTypeOK => OfficeTypeOK
  BY DEF OfficeTypeOK
<1> QED
  BY <1>1, OfficeIsBoth, AccountsTypeCorrect, ApprovalTypeCorrect, PTL
=============================================================================
