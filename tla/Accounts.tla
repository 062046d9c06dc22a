------------------------------ MODULE Accounts ------------------------------
(***************************************************************************)
(* The account endpoints of internal/httpapi over the calls of             *)
(* AccountService.  A handler is one action; a call whose checks and        *)
(* effects are different statements of the database, and that other calls  *)
(* overtake in between, is two: the checks put a record into `flight` and  *)
(* a second action takes it out.                                           *)
(*                                                                         *)
(*   db      the tables                                                    *)
(*   access  the access tokens in clients' hands: claims of a session      *)
(*   flight  the calls past their checks                                   *)
(*   answer  how the last finished call was answered                       *)
(*   uses    the endpoints the clients of this behaviour use               *)
(***************************************************************************)
EXTENDS AccountService

CONSTANTS
    AdminEmail,     \* the address of the seeded administrator
    Patches,        \* the patches administrators send: [on, role, email], "keep" for a field left out
    Scenarios,      \* bound: the groups of endpoints that the clients of one behaviour use
    MaxFlight       \* bound: calls past their checks at a time

ASSUME AccountInputs ==
    /\ 1 \in UserIds /\ AdminEmail \in Emails /\ Passwords # {}
    /\ Patches \subseteq [on : {"keep", "on", "off"}, role : STRING, email : Emails \cup {"keep"}]

VARIABLES db, access, flight, answer, uses

vars == <<db, access, flight, answer, uses>>

Codes    == {None, "good", "bad"} \cup BackupCodes
Sessions == 1..MaxSessions
Claims   == [sid : Sessions, user : UserIds, role : Roles]

\* The id a new row gets; 0 when the bound on users is reached.
NewUser == LET free == UserIds \ (DOMAIN db.users \cup {f.user : f \in flight})
           IN  IF free = {} THEN 0 ELSE Only(free)

InBounds(d) == DOMAIN d.users \subseteq UserIds /\ DOMAIN d.tokens \subseteq 1..MaxTokens

(* Answers: the status each handler gives an error of the service; 500 when it names none. *)
Status(table, err) == IF err \in {"ok", "2fa", "2fasetup"} THEN 200
                      ELSE IF err \in DOMAIN table THEN table[err] ELSE 500

writeTokenError     == [invalid |-> 400, expired |-> 400, used |-> 400, exists |-> 409]
writeTwoFactorError == [invalid |-> 400, expired |-> 400, used |-> 400, exists |-> 409,
                        credentials |-> 401, code |-> 401, enabled2fa |-> 409, notconfigured |-> 400]

Class(status) == IF status < 300 THEN "ok" ELSE IF status < 500 THEN "refused" ELSE "failed"

\* A call that ends here.
Reply(r, table) ==
    /\ InBounds(r.db)
    /\ db' = r.db
    /\ answer' = Class(Status(table, r.err))
    /\ UNCHANGED <<access, flight, uses>>

\* A call whose next step comes later.
Suspend(d, rec) ==
    /\ Cardinality(flight) < MaxFlight /\ rec \notin flight
    /\ InBounds(d)
    /\ db' = d
    /\ flight' = flight \cup {rec}
    /\ UNCHANGED <<access, answer, uses>>

\* A sign-in: it is answered, or goes on with issueSession for u.
SignIn(r, u, table) ==
    \/ r.err # "issue" /\ Reply(r, table)
    \/ /\ r.err = "issue"
       /\ Suspend(r.db, [op |-> "issue", user |-> u, role |-> r.db.users[u].role])

Who(e) == IF GetUserByEmail(db, e) = {} THEN 0 ELSE Only(GetUserByEmail(db, e))
Owner(t) == IF t \in DOMAIN db.tokens THEN db.tokens[t].user ELSE 0

\* The middleware: a caller with a token the authorizer accepts; requireAdmin reads its claim.
Callers == {a \in access : Authorized(db, a)}
Admins  == {a \in Callers : a.role = "admin"}

(* auth_handlers.go and oauth_handlers.go *)
login(e, p, mail) ==
    SignIn(Login(db, e, p, mail), Who(e),
           [credentials |-> 401, tv |-> 403, invite |-> 403, disabled |-> 403])

oauthPasswordGrant(e, p, code, mail) ==
    SignIn(LoginWithTOTP(db, e, p, code, mail), Who(e),
           [credentials |-> 401, tv |-> 403, invite |-> 403, disabled |-> 401, code |-> 400])

verifyTwoFactor(t, code) ==
    SignIn(VerifyLoginTwoFactor(db, t, code), Owner(t), writeTwoFactorError)

\* With a pending token the enrolment ends in a session, without one it needs a caller.
confirmTwoFactor(t, code) ==
    \/ SignIn(CompletePendingTwoFactorSetup(db, t, code), Owner(t), writeTwoFactorError)
    \/ \E a \in Callers : Reply(ConfirmTwoFactorSetup(db, a.user, code), writeTwoFactorError)

setupTwoFactor(t) ==
    LET err == validateToken(db, t, "login_2fa")
    IN  \/ err # "ok" /\ Reply(R(db, err), writeTokenError)
        \/ err = "ok" /\ Reply(StartTwoFactorSetup(db, Owner(t)), writeTwoFactorError)
        \/ \E a \in Callers : Reply(StartTwoFactorSetup(db, a.user), writeTwoFactorError)

disableTwoFactor(p, code) ==
    \E a \in Callers : Reply(DisableTwoFactor(db, a.user, p, code), writeTwoFactorError)

\* The session row is made, then last_login_at; the clients get an access token.
issueSession(f, s) ==
    LET r == CreateSession(db, s, f.user, 0)
    IN  /\ f \in flight /\ f.op = "issue"
        /\ s \notin DOMAIN db.sessions \cup {a.sid : a \in access}
        /\ \A g \in flight : g.op = "rotate" => g.sid # s
        /\ db' = r.db
        /\ answer' = Class(Status(<<>>, r.err))
        /\ access' = IF r.err # "ok" THEN access
                     ELSE access \cup {[sid |-> s, user |-> f.user, role |-> f.role]}
        /\ flight' = flight \ {f}
        /\ UNCHANGED uses

\* Refresh: the token is checked ...
refresh(s, g) ==
    LET r == ValidateRefresh(db, s, g)
        u == db.sessions[s].user
    IN  \/ r.err # "ok" /\ Reply(r, [session |-> 401, disabled |-> 401])
        \/ /\ r.err = "ok"
           /\ g < MaxGen
           /\ Suspend(db, [op |-> "rotate", user |-> u, role |-> db.users[u].role, sid |-> s, gen |-> g])

\* ... and rotated: Set, then the old token is deleted, which no row has any more.
RefreshWithRotation(f) ==
    LET r == SetRefresh(db, f.sid, f.user, f.gen + 1)
    IN  /\ f \in flight /\ f.op = "rotate"
        /\ db' = IF r.err = "ok" THEN DeleteSessionByTokenHash(r.db, f.sid, f.gen) ELSE r.db
        /\ answer' = IF r.err = "ok" THEN "ok" ELSE "refused"
        /\ access' = IF r.err # "ok" THEN access
                     ELSE access \cup {[sid |-> f.sid, user |-> f.user, role |-> f.role]}
        /\ flight' = flight \ {f}
        /\ UNCHANGED uses

logout(s, g) == Reply(R(DeleteSessionByTokenHash(db, s, g), "ok"), <<>>)

forgotPassword(e, mail) == Reply(R(RequestPasswordReset(db, e, mail).db, "ok"), <<>>)

resetPassword(t, p) ==
    LET err == ResetPassword(db, t, p)
    IN  \/ err # "ok" /\ Reply(R(db, err), [invalid |-> 400, expired |-> 400, used |-> 400, exists |-> 409, unchanged |-> 400])
        \/ err = "ok" /\ Suspend(db, [op |-> "reset", user |-> Owner(t), token |-> t, pw |-> p])

ResetPasswordSteps(f) ==
    /\ f \in flight /\ f.op = "reset"
    /\ db' = ResetPasswordApply(db, f.token, f.user, f.pw)
    /\ answer' = "ok"
    /\ flight' = flight \ {f}
    /\ UNCHANGED <<access, uses>>

confirmEmail(t) == Reply(ConfirmEmail(db, t), writeTokenError)
acceptInvite(t, p) == Reply(AcceptInvite(db, NewUser, t, p), writeTokenError)

changePassword(current, p, code) ==
    \E a \in Callers :
        SignIn(ChangePassword(db, a.user, current, p, code), a.user,
               [credentials |-> 401, codeRequired |-> 401, code |-> 401, unchanged |-> 400])

changeEmail(e, p, code, mail) ==
    \E a \in Callers :
        Reply(RequestChangeEmail(db, a.user, e, p, code, mail),
              [credentials |-> 401, codeRequired |-> 401, code |-> 401, exists |-> 409])

revokeOwnSession(s) ==
    \E a \in Callers : Reply(RevokeUserSession(db, a.user, s), [forbidden |-> 403])

revokeAllOwnSessions ==
    \E a \in Callers : Reply(R(DeleteAllSessionsByUserID(db, a.user), "ok"), <<>>)

(* admin_handlers.go, behind requireAdmin *)
createUser(e, role, p) ==
    Admins # {} /\ Reply(CreateAccount(db, NewUser, e, role, p), [exists |-> 409])

\* UpdateUser: the row is read and the guard passed ...
updateUser(u, patch) ==
    /\ Admins # {}
    /\ IF GetUserByID(db, u) = {} THEN Reply(R(db, "failed"), <<>>)
       ELSE IF guardLastAdminMutation(db, u, patch) # "ok"
       THEN Reply(R(db, "forbidden"), [forbidden |-> 403])
       ELSE Suspend(db, [op |-> "update", user |-> u, patch |-> patch, old |-> db.users[u].email])

\* ... and the patch applied.
UpdateUserSteps(f, mail) ==
    LET r == UpdateUser(db, f.user, f.old, f.patch, mail)
    IN  /\ f \in flight /\ f.op = "update"
        /\ InBounds(r.db)
        /\ db' = r.db
        /\ answer' = Class(Status([exists |-> 409, role |-> 400], r.err))
        /\ flight' = flight \ {f}
        /\ UNCHANGED <<access, uses>>

deleteUser(u) ==
    Admins # {} /\ Reply(DeleteAccount(db, u), [on |-> 400, forbidden |-> 403, notfound |-> 404])

createInvite(e, role, mail) ==
    Admins # {} /\ Reply(CreateInvite(db, NewUser, e, role, mail), [exists |-> 409, tvinvite |-> 400])

resendInvite(t, mail) ==
    Admins # {} /\ Reply(ResendInvite(db, NewUser, t, mail), [exists |-> 409, invalid |-> 400])

revokeInvite(t) == Admins # {} /\ Reply(RevokeInvite(db, t), [invalid |-> 400])

resendConfirmEmail(u, mail) ==
    Admins # {} /\ Reply(ResendConfirmEmail(db, u, mail), [unavailable |-> 400])

revokeSession(s)       == Admins # {} /\ Reply(R(DeleteSessionByID(db, s), "ok"), <<>>)
revokeAllSessions(u)   == Admins # {} /\ Reply(R(DeleteAllSessionsByUserID(db, u), "ok"), <<>>)
resetUserTwoFactor(u)  == Admins # {} /\ Reply(AdminResetTwoFactor(db, u), <<>>)
patchSettings(p)       == Admins # {} /\ Reply(R(SaveSettings(db, p), "ok"), <<>>)

(* Time *)
Quiet == answer' = "none" /\ UNCHANGED <<flight, uses>>
ExpireToken(t)   == /\ t \in DOMAIN db.tokens /\ ~db.tokens[t].used
                    /\ db' = [db EXCEPT !.tokens[t].exp = TRUE]
                    /\ Quiet /\ UNCHANGED access
ExpireSession(s) == /\ s \in DOMAIN db.sessions
                    /\ db' = [db EXCEPT !.sessions[s].exp = TRUE]
                    /\ Quiet /\ UNCHANGED access
ExpireAccess(a)  == access' = access \ {a} /\ Quiet /\ UNCHANGED db

\* SeedAdmin on an empty database, with the default policy.
SeedAdmin ==
    [users    |-> Insert(<<>>, 1, [email |-> AdminEmail, role |-> "admin", on |-> TRUE, ver |-> TRUE,
                                   pw |-> CHOOSE p \in Passwords : TRUE, must |-> TRUE]),
     tokens   |-> <<>>, sessions |-> <<>>, totp |-> <<>>,
     policy   |-> [confirm |-> FALSE, twofa |-> FALSE]]

Init == /\ db = SeedAdmin /\ access = {} /\ flight = {} /\ answer = "none"
        /\ uses \in Scenarios

SignInCalls ==
    \/ \E e \in Emails, p \in Passwords, m \in BOOLEAN : login(e, p, m)
    \/ \E e \in Emails, p \in Passwords, c \in Codes, m \in BOOLEAN : oauthPasswordGrant(e, p, c, m)

TwoFactorCalls ==
    /\ "2fa" \in uses
    /\ \/ \E t \in DOMAIN db.tokens :
             setupTwoFactor(t) \/ \E c \in Codes : verifyTwoFactor(t, c) \/ confirmTwoFactor(t, c)
       \/ \E p \in Passwords, c \in Codes : disableTwoFactor(p, c)
       \/ \E u \in UserIds : resetUserTwoFactor(u)

SessionCalls ==
    /\ "sessions" \in uses
    /\ \/ \E s \in DOMAIN db.sessions, g \in 0..MaxGen : refresh(s, g) \/ logout(s, g)
       \/ \E s \in DOMAIN db.sessions : revokeOwnSession(s) \/ revokeSession(s)
       \/ \E u \in UserIds : revokeAllSessions(u)
       \/ revokeAllOwnSessions

PasswordCalls ==
    /\ "passwords" \in uses
    /\ \/ \E e \in Emails, m \in BOOLEAN : forgotPassword(e, m)
       \/ \E t \in DOMAIN db.tokens, p \in Passwords : resetPassword(t, p)
       \/ \E p, q \in Passwords, c \in Codes : changePassword(q, p, c)

EmailCalls ==
    /\ "emails" \in uses
    /\ \/ \E t \in DOMAIN db.tokens : confirmEmail(t)
       \/ \E e \in Emails, p \in Passwords, c \in Codes, m \in BOOLEAN : changeEmail(e, p, c, m)
       \/ \E u \in UserIds : \/ \E m \in BOOLEAN : resendConfirmEmail(u, m)
                             \/ \E p \in {q \in Patches : q.email # "keep"} : updateUser(u, p)

InviteCalls ==
    /\ "invites" \in uses
    /\ \/ \E e \in Emails, r \in Roles, m \in BOOLEAN : createInvite(e, r, m)
       \/ \E t \in DOMAIN db.tokens : \/ revokeInvite(t)
                                      \/ \E m \in BOOLEAN : resendInvite(t, m)
                                      \/ \E p \in Passwords : acceptInvite(t, p)

UserCalls ==
    /\ "users" \in uses
    /\ \/ \E e \in Emails, r \in Roles, p \in Passwords : createUser(e, r, p)
       \/ \E u \in UserIds : \/ deleteUser(u)
                             \/ \E p \in {q \in Patches : q.email = "keep"} : updateUser(u, p)

PolicyCalls == "policy" \in uses /\ \E c, f \in BOOLEAN : patchSettings([confirm |-> c, twofa |-> f])

InFlight ==
    \E f \in flight : \/ \E s \in Sessions : issueSession(f, s)
                      \/ RefreshWithRotation(f) \/ ResetPasswordSteps(f)
                      \/ \E m \in BOOLEAN : UpdateUserSteps(f, m)

Time == \/ \E t \in DOMAIN db.tokens : ExpireToken(t)
        \/ \E s \in DOMAIN db.sessions : ExpireSession(s)
        \/ \E a \in access : ExpireAccess(a)

Next == \/ SignInCalls \/ TwoFactorCalls \/ SessionCalls \/ PasswordCalls \/ EmailCalls
        \/ InviteCalls \/ UserCalls \/ PolicyCalls \/ InFlight \/ Time
Spec == Init /\ [][Next]_vars

-----------------------------------------------------------------------------
\* Type invariant: the tables hold rows, every token, session and enrolment belongs to an
\* account that exists, and no two accounts share an address.
TypeOK ==
    /\ DOMAIN db.users \subseteq UserIds
    /\ \A u \in DOMAIN db.users : db.users[u] \in Row
    /\ \A u, v \in DOMAIN db.users : db.users[u].email = db.users[v].email => u = v
    /\ \A t \in DOMAIN db.tokens : /\ db.tokens[t].user \in DOMAIN db.users
                                   /\ db.tokens[t].purpose \in Purposes
    /\ \A s \in DOMAIN db.sessions : db.sessions[s].user \in DOMAIN db.users
    /\ DOMAIN db.totp \subseteq DOMAIN db.users
    /\ access \subseteq Claims
    /\ answer \in {"none", "ok", "refused", "failed"}

\* An invite stub, whose password nobody knows, never gets a session or a pending sign-in:
\* every path to issueSession starts from a password check, and no call makes an account that
\* has a password a stub again.
StubNeverSignsIn ==
    \A u \in DOMAIN db.users : db.users[u].pw = Unusable =>
        /\ ListSessionsByUserID(db, u) = {}
        /\ \A t \in DOMAIN db.tokens : db.tokens[t].user = u => db.tokens[t].purpose # "login_2fa"

\* A call answered with a 4xx status has changed no account, no live session and no enrolment,
\* and has burnt no backup code: the checks of every handler come before its effects.
\* (UpdateUser, which finds an unknown role after it has applied the rest of the patch, answers
\* from flight and is left out; a refused refresh may delete an expired session.)
RefusedKeepsAccount ==
    [][answer' = "refused" /\ flight' = flight =>
          /\ db'.users = db.users
          /\ db'.totp = db.totp
          /\ \A s \in DOMAIN db.sessions : ~db.sessions[s].exp => s \in DOMAIN db'.sessions]_vars

\* An administrator who can sign in remains, as the guard of UpdateUser and DeleteUser is
\* tested to ensure.
AdminRemains == \E u \in DOMAIN db.users : db.users[u].role = "admin" /\ db.users[u].on
=============================================================================
