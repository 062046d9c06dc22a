--------------------------- MODULE AccountService ---------------------------
(***************************************************************************)
(* The calls of internal/auth (service.go, tokens.go, invites.go,          *)
(* admin.go, totp.go) as functions of the database: each takes the         *)
(* database and its arguments and returns R(database, error).  The error   *)
(* "issue" means that the call goes on with issueSession for the user in   *)
(* `who`; "2fa" and "2fasetup" are the answers with a pending token.       *)
(* `mail` says whether the mail server takes a message.                    *)
(***************************************************************************)
EXTENDS AccountStore

Only(S) == CHOOSE x \in S : TRUE
Newest(S) == Max(S)

\* A call's outcome for account u.
For(u, r) == [who |-> u, db |-> r.db, err |-> r.err]

\* A stored token is mailed; the mail server takes the message or not, and the row stays.
Send(r, mail) == R(r.db, IF r.err = "ok" /\ mail THEN "ok" ELSE "failed")

(* tokens.go: one-time tokens *)
validateToken(d, t, purpose) ==
    IF GetAuthTokenByHash(d, t, purpose) = {} THEN "invalid"
    ELSE IF d.tokens[t].used THEN "used"
    ELSE IF d.tokens[t].exp THEN "expired" ELSE "ok"

consumeToken(d, t, purpose) ==
    LET err == validateToken(d, t, purpose)
    IN  R(IF err = "ok" THEN MarkAuthTokenUsed(d, t) ELSE d, err)

sendConfirmEmail(d, u, e, mail) == Send(CreateAuthToken(d, u, e, "confirm_email", None), mail)
issueChangeEmailToken(d, u, e, mail) == Send(CreateAuthToken(d, u, e, "change_email", None), mail)
resendChangeEmailToken(d, u, e, mail) ==
    issueChangeEmailToken(InvalidateUnusedTokens(d, e, "change_email"), u, e, mail)

issueInviteToken(d, u, e, role, mail) ==
    Send(CreateAuthToken(InvalidateUnusedTokens(d, e, "invite"), u, e, "invite", role), mail)

(* totp.go: the second factor.  "good" is a code of the current secret. *)
verifyTwoFactorCode(d, u, code) ==
    IF code = "good" THEN R(d, "ok")
    ELSE IF code \in d.totp[u].codes THEN R(ConsumeBackupCode(d, u, code), "ok")
    ELSE R(d, "code")

\* A call that is only made for an enrolled user, which needs a code.
requireUserTOTP(d, u, code) ==
    IF code = None THEN R(d, "codeRequired") ELSE verifyTwoFactorCode(d, u, code)

StartTwoFactorSetup(d, u) ==
    IF UserHasTOTP(d, u) THEN R(d, "enabled2fa") ELSE SavePendingTOTPSecret(d, u)

ConfirmTwoFactorSetup(d, u, code) ==
    IF ~HasPendingTOTP(d, u) THEN R(d, "notconfigured")
    ELSE IF code # "good" THEN R(d, "code")
    ELSE EnableUserTOTP(d, u)

DisableTwoFactor(d, u, p, code) ==
    IF GetUserByID(d, u) = {} \/ d.users[u].pw # p THEN R(d, "credentials")
    ELSE IF ~UserHasTOTP(d, u) THEN R(d, "notconfigured")
    ELSE LET v == verifyTwoFactorCode(d, u, code)
         IN  IF v.err = "ok" THEN R(DeleteUserTOTP(v.db, u), "ok") ELSE v

AdminResetTwoFactor(d, u) == R(DeleteAllSessionsByUserID(DeleteUserTOTP(d, u), u), "ok")

(* invites *)
\* Mutant: a second invitation resets the account to a stub.
ensureInviteStubReset(d, u, e, role) ==
    LET existing == GetUserByEmail(d, e)
    IN  IF existing = {}
        THEN For(u, CreateUser(d, u, [email |-> e, role |-> role, on |-> FALSE,
                                       ver |-> FALSE, pw |-> Unusable, must |-> FALSE]))
        ELSE For(Only(existing), R(UpdatePasswordHash(d, Only(existing), Unusable), "ok"))

\* An existing account keeps its row; an enabled one without a pending invite is refused.
ensureInviteStubUser(d, u, e, role) ==
    LET existing == GetUserByEmail(d, e)
    IN  IF existing = {}
        THEN For(u, CreateUser(d, u, [email |-> e, role |-> role, on |-> FALSE,
                                       ver |-> FALSE, pw |-> Unusable, must |-> FALSE]))
        ELSE LET x == Only(existing)
                 refused == ListPendingInvites(d, e) = {} /\ d.users[x].on
             IN  For(x, R(d, IF refused THEN "exists" ELSE "ok"))

CreateInvite(d, u, e, role, mail) ==
    IF role = "tv" THEN R(d, "tvinvite")
    ELSE LET stub == ensureInviteStubUser(d, u, e, role)
         IN  IF stub.err # "ok" THEN R(stub.db, stub.err)
             ELSE issueInviteToken(stub.db, stub.who, e, role, mail)

\* The pending invite is gone before CreateInvite looks for one.
ResendInvite(d, u, t, mail) ==
    IF t \notin DOMAIN d.tokens THEN R(d, "failed")
    ELSE IF d.tokens[t].purpose # "invite" THEN R(d, "invalid")
    ELSE LET k == d.tokens[t]
         IN  CreateInvite(InvalidateUnusedTokens(d, k.email, "invite"), u, k.email, k.role, mail)

RevokeInvite(d, t) ==
    IF t \notin DOMAIN d.tokens THEN R(d, "failed")
    ELSE IF d.tokens[t].purpose # "invite" \/ d.tokens[t].used THEN R(d, "invalid")
    ELSE R(MarkAuthTokenUsed(d, t), "ok")

\* A stub takes the password and the role of the invite; without one the account is made.
loadOrCreateInviteUser(d, u, e, role, p) ==
    LET existing == GetUserByEmail(d, e)
    IN  IF existing = {}
        THEN For(u, CreateUser(d, u, [email |-> e, role |-> role, on |-> TRUE,
                                       ver |-> FALSE, pw |-> p, must |-> FALSE]))
        ELSE LET x == Only(existing)
             IN  For(x, R(SetRole(UpdatePasswordHash(d, x, p), x, role), "ok"))

AcceptInvite(d, u, t, p) ==
    LET err == validateToken(d, t, "invite")
    IN  IF err # "ok" THEN R(d, err)
        ELSE LET k == d.tokens[t]
                 made == loadOrCreateInviteUser(d, u, k.email, k.role, p)
             IN  IF made.err # "ok" THEN R(made.db, made.err)
                 ELSE R(EnableUser(InvalidateUnusedTokens(made.db, k.email, "invite"), made.who), "ok")

(* service.go: signing in *)
rejectIfInvitePending(d, u, mail) ==
    LET pending == ListPendingInvites(d, d.users[u].email)
    IN  IF d.users[u].on \/ pending = {} THEN R(d, "ok")
        ELSE LET t == Newest(pending)
             IN  R(IF d.tokens[t].exp THEN ResendInvite(d, u, t, mail).db ELSE d, "invite")

ensureConfirmEmailSent(d, u, mail) ==
    LET e == d.users[u].email
        pending == ListPendingInvites(d, e)
    IN  IF ~d.policy.confirm \/ d.users[u].ver THEN d
        ELSE IF GetUnusedAuthTokenByUser(d, u, "change_email") # {} THEN d
        ELSE IF HasUnusedAuthToken(d, e, "confirm_email") THEN d
        ELSE IF pending # {} THEN ResendInvite(d, u, Newest(pending), mail).db
        ELSE sendConfirmEmail(InvalidateUnusedTokens(d, e, "confirm_email"), u, e, mail).db

pendingTwoFactorOutcome(d, u) ==
    R(CreateAuthToken(d, u, d.users[u].email, "login_2fa", None).db,
      IF UserHasTOTP(d, u) THEN "2fa" ELSE "2fasetup")

loginAfterPassword(d, u) ==
    IF UserHasTOTP(d, u) \/ d.policy.twofa THEN pendingTwoFactorOutcome(d, u) ELSE R(d, "issue")

Login(d, e, p, mail) ==
    IF GetUserByEmail(d, e) = {} THEN R(d, "credentials")
    ELSE LET u == Only(GetUserByEmail(d, e))
             row == d.users[u]
             invite == rejectIfInvitePending(d, u, mail)
         IN  IF invite.err # "ok" THEN invite
             ELSE IF row.pw # p THEN R(d, "credentials")
             ELSE IF row.role = "tv" THEN R(d, "tv")
             ELSE IF ~row.on \/ (d.policy.confirm /\ ~row.ver)
                  THEN R(ensureConfirmEmailSent(d, u, mail), "disabled")
             ELSE loginAfterPassword(d, u)

loginWithProvidedTOTP(d, u, code) ==
    IF code = None THEN pendingTwoFactorOutcome(d, u)
    ELSE LET v == verifyTwoFactorCode(d, u, code)
         IN  R(v.db, IF v.err = "ok" THEN "issue" ELSE v.err)

LoginWithTOTP(d, e, p, code, mail) ==
    IF GetUserByEmail(d, e) = {} THEN R(d, "credentials")
    ELSE LET u == Only(GetUserByEmail(d, e))
             invite == rejectIfInvitePending(d, u, mail)
         IN  IF invite.err # "ok" THEN invite
             ELSE IF ~d.users[u].on THEN R(d, "disabled")
             ELSE IF d.users[u].pw # p THEN R(d, "credentials")
             ELSE IF UserHasTOTP(d, u) THEN loginWithProvidedTOTP(d, u, code)
             ELSE IF d.policy.twofa THEN pendingTwoFactorOutcome(d, u)
             ELSE R(d, "issue")

VerifyLoginTwoFactor(d, t, code) ==
    LET err == validateToken(d, t, "login_2fa")
    IN  IF err # "ok" THEN R(d, err)
        ELSE LET u == d.tokens[t].user
             IN  IF ~d.users[u].on THEN R(d, "disabled")
                 ELSE IF ~UserHasTOTP(d, u) THEN R(d, "failed")
                 ELSE LET v == verifyTwoFactorCode(d, u, code)
                      IN  IF v.err # "ok" THEN v ELSE R(MarkAuthTokenUsed(v.db, t), "issue")

CompletePendingTwoFactorSetup(d, t, code) ==
    LET err == validateToken(d, t, "login_2fa")
    IN  IF err # "ok" THEN R(d, err)
        ELSE LET c == ConfirmTwoFactorSetup(d, d.tokens[t].user, code)
             IN  IF c.err # "ok" THEN c ELSE R(MarkAuthTokenUsed(c.db, t), "issue")

(* tokens.go: passwords and addresses *)
RequestPasswordReset(d, e, mail) ==
    IF GetUserByEmail(d, e) = {} THEN R(d, "ok")
    ELSE LET u == Only(GetUserByEmail(d, e))
         IN  IF d.policy.confirm /\ ~d.users[u].ver THEN R(ensureConfirmEmailSent(d, u, mail), "ok")
             ELSE Send(CreateAuthToken(InvalidateUnusedTokens(d, e, "reset_password"),
                                       u, e, "reset_password", None), mail)

\* The checks of ResetPassword; ResetPasswordApply is what follows them.
ResetPassword(d, t, p) ==
    LET err == validateToken(d, t, "reset_password")
    IN  IF err # "ok" THEN err
        ELSE IF d.users[d.tokens[t].user].pw = p THEN "unchanged" ELSE "ok"

ResetPasswordApply(d, t, u, p) ==
    DeleteAllSessionsByUserID(UpdatePasswordHash(MarkAuthTokenUsed(d, t), u, p), u)

\* Mutant: the second factor is asked for before the passwords are compared.
ChangePasswordCodeFirst(d, u, current, p, code) ==
    IF GetUserByID(d, u) = {} THEN R(d, "credentials")
    ELSE IF ~d.users[u].must /\ d.users[u].pw # current THEN R(d, "credentials")
    ELSE LET v == IF UserHasTOTP(d, u) THEN requireUserTOTP(d, u, code) ELSE R(d, "ok")
         IN  IF v.err # "ok" THEN v
             ELSE IF d.users[u].pw = p THEN R(v.db, "unchanged")
             ELSE R(DeleteAllSessionsByUserID(UpdatePasswordHash(v.db, u, p), u), "issue")

ChangePassword(d, u, current, p, code) ==
    IF GetUserByID(d, u) = {} THEN R(d, "credentials")
    ELSE IF ~d.users[u].must /\ d.users[u].pw # current THEN R(d, "credentials")
    ELSE IF d.users[u].pw = p THEN R(d, "unchanged")
    ELSE LET v == IF UserHasTOTP(d, u) THEN requireUserTOTP(d, u, code) ELSE R(d, "ok")
         IN  IF v.err # "ok" THEN v
             ELSE R(DeleteAllSessionsByUserID(UpdatePasswordHash(v.db, u, p), u), "issue")

RequestChangeEmail(d, u, e, p, code, mail) ==
    IF GetUserByID(d, u) = {} \/ d.users[u].pw # p THEN R(d, "credentials")
    ELSE IF GetUserByEmail(d, e) # {} THEN R(d, "exists")
    ELSE LET v == IF UserHasTOTP(d, u) THEN requireUserTOTP(d, u, code) ELSE R(d, "ok")
             old == d.users[u].email
             clean == InvalidateUnusedTokens(InvalidateUnusedTokens(InvalidateUnusedTokens(
                        v.db, old, "change_email"), e, "change_email"), old, "confirm_email")
         IN  IF v.err # "ok" THEN v
             ELSE issueChangeEmailToken(ClearEmailVerified(clean, u), u, e, mail)

\* The token is spent even when the address has been taken since.
confirmEmailPurpose(d, t, purpose) ==
    LET c == consumeToken(d, t, purpose)
        k == d.tokens[t]
        moved == IF purpose # "change_email" THEN R(c.db, "ok")
                 ELSE UpdateUserEmail(c.db, k.user, k.email, FALSE)
    IN  IF c.err # "ok" THEN c
        ELSE IF moved.err # "ok" THEN moved
        ELSE R(EnableUser(IF purpose = "change_email"
                          THEN InvalidateUnusedTokens(moved.db, k.email, purpose)
                          ELSE moved.db, k.user), "ok")

ConfirmEmail(d, t) ==
    LET first  == confirmEmailPurpose(d, t, "confirm_email")
        second == confirmEmailPurpose(d, t, "change_email")
        Done(r) == IF r.err = "used" THEN R(r.db, "ok") ELSE r
    IN  IF first.err = "invalid" THEN Done(second) ELSE Done(first)

ResendConfirmEmail(d, u, mail) ==
    IF GetUserByID(d, u) = {} THEN R(d, "failed")
    ELSE LET e == d.users[u].email
             pending == ListPendingInvites(d, e)
             change == GetUnusedAuthTokenByUser(d, u, "change_email")
         IN  IF pending # {} THEN ResendInvite(d, u, Newest(pending), mail)
             ELSE IF change # {} THEN resendChangeEmailToken(d, u, d.tokens[Newest(change)].email, mail)
             ELSE IF d.users[u].ver THEN R(d, "unavailable")
             ELSE sendConfirmEmail(InvalidateUnusedTokens(d, e, "confirm_email"), u, e, mail)

(* admin.go *)
CreateAccount(d, u, e, role, p) ==
    IF GetUserByEmail(d, e) # {} THEN R(d, "exists")
    ELSE LET c == CreateUser(d, u, [email |-> e, role |-> role, on |-> TRUE,
                                  ver |-> FALSE, pw |-> p, must |-> TRUE])
         IN  R(EnableUser(c.db, u), c.err)

\* A patch is [on, role, email]; "keep" leaves a field alone.
guardLastAdminMutation(d, u, patch) ==
    LET removes == patch.on = "off" \/ patch.role \notin {"keep", "admin"}
    IN  IF d.users[u].role = "admin" /\ removes /\ CountAdmins(d) <= 1 THEN "forbidden" ELSE "ok"

adminChangeEmail(d, u, old, e, mail) ==
    IF e \in {"keep", old} THEN R(d, "ok")
    ELSE IF GetUserByEmail(d, e) # {} THEN R(d, "exists")
    ELSE LET moved == UpdateUserEmail(d, u, e, TRUE)
             clean == InvalidateTokens(moved.db, {old, e},
                                       {"invite", "confirm_email", "change_email"})
         IN  sendConfirmEmail(clean, u, e, mail)

applyEnabledPatch(d, u, on) ==
    CASE on = "keep" -> d
      [] on = "on"   -> EnableUser(d, u)
      [] on = "off"  -> SetEnabled(DeleteAllSessionsByUserID(d, u), u)

\* What UpdateUser does after its guard.  An unknown role is found last.
UpdateUser(d, u, old, patch, mail) ==
    LET moved == adminChangeEmail(d, u, old, patch.email, mail)
        flagged == applyEnabledPatch(moved.db, u, patch.on)
        demoted == SetRole(flagged, u, patch.role)
    IN  IF moved.err # "ok" THEN moved
        ELSE IF patch.role = "keep" THEN R(flagged, "ok")
        ELSE IF patch.role \notin Roles THEN R(flagged, "role")
        ELSE R(IF patch.role = "tv" THEN DeleteAllSessionsByUserID(demoted, u) ELSE demoted, "ok")

DeleteAccount(d, u) ==
    IF GetUserByID(d, u) = {} THEN R(d, "notfound")
    ELSE IF d.users[u].on THEN R(d, "on")
    ELSE IF guardLastAdminMutation(d, u, [on |-> "off", role |-> "keep"]) # "ok" THEN R(d, "forbidden")
    ELSE R(DeleteUser(d, u), "ok")

deriveUserStatus(d, u) ==
    IF ListPendingInvites(d, d.users[u].email) # {} THEN "invited"
    ELSE IF ~d.users[u].ver THEN "unconfirmed"
    ELSE IF d.users[u].on THEN "active" ELSE "disabled"

(* sessions.go *)
RevokeUserSession(d, u, s) ==
    IF s \notin DOMAIN d.sessions THEN R(d, "failed")
    ELSE IF d.sessions[s].user # u THEN R(d, "forbidden")
    ELSE R(DeleteSessionByID(d, s), "ok")

(* ginjwt/issuer.go and postgres/refresh_store.go *)
\* The identity a refresh token stands for; an expired session is deleted.
ValidateRefresh(d, s, g) ==
    IF GetSessionByTokenHash(d, s, g) = {} THEN R(d, "session")
    ELSE IF d.sessions[s].exp THEN R(DeleteSessionByTokenHash(d, s, g), "session")
    ELSE IF ~d.users[d.sessions[s].user].on THEN R(d, "disabled")
    ELSE R(d, "ok")

\* Set: a session that is gone by now is made again.
SetRefresh(d, s, u, g) ==
    IF s \in DOMAIN d.sessions THEN R(UpdateSessionRefreshToken(d, s, g), "ok")
    ELSE CreateSession(d, s, u, g)

\* authorizer: the session and the account as they are now, whatever the token says.
Authorized(d, a) ==
    /\ a.sid \in DOMAIN d.sessions
    /\ ~d.sessions[a.sid].exp
    /\ d.sessions[a.sid].user = a.user
    /\ d.users[a.user].on
=============================================================================
