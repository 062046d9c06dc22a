---------------------------- MODULE AccountStore ----------------------------
(***************************************************************************)
(* The account tables of PostgreSQL and the statements of                  *)
(* internal/auth/postgres: every operator is one statement (or the one     *)
(* read-modify-write the code makes of two) over the database `d`, a       *)
(* record of five tables.                                                  *)
(*                                                                         *)
(*   d.users     id -> [email, role, on, ver, pw, must]                    *)
(*   d.tokens    id -> [user, email, purpose, role, used, exp]             *)
(*   d.sessions  id -> [user, gen, exp]     gen names the refresh token    *)
(*   d.totp      id -> [enabled, codes]     no row: not configured         *)
(*   d.policy    [confirm, twofa]                                          *)
(*                                                                         *)
(* A hash is what it was made of: bcrypt and SHA-256 match exactly the      *)
(* value that was hashed.                                                  *)
(***************************************************************************)
EXTENDS Integers, FiniteSets, FiniteSetsExt, Functions, TLC

CONSTANTS
    UserIds,        \* ids of user rows, a finite set of positive numbers
    Emails,         \* addresses, after TrimSpace and ToLower
    Passwords,      \* passwords people choose
    Unusable,       \* the random password of an invite stub
    BackupCodes,    \* backup codes of an enrolment
    MaxTokens,      \* bound: auth_tokens rows ever made
    MaxSessions,    \* bound: session ids ever made
    MaxGen          \* bound: rotations of one refresh token

ASSUME AccountBounds ==
    /\ UserIds \subseteq Nat \ {0} /\ IsFiniteSet(UserIds)
    /\ Unusable \notin Passwords
    /\ MaxTokens \in Nat /\ MaxSessions \in Nat /\ MaxGen \in Nat

None == ""      \* no code, no role
Purposes == {"invite", "reset_password", "confirm_email", "login_2fa", "change_email"}
Roles    == {"admin", "user", "tv"}
Row      == [email : Emails, role : Roles, on : BOOLEAN, ver : BOOLEAN,
             pw : Passwords \cup {Unusable}, must : BOOLEAN]

\* The outcome of a call: the database it leaves and its error.
R(d, err) == [db |-> d, err |-> err]

\* Table t with one more row.
Insert(t, id, row) == [i \in {id} \cup DOMAIN t |-> IF i = id THEN row ELSE t[i]]

(* users *)
GetUserByEmail(d, e) == {u \in DOMAIN d.users : d.users[u].email = e}
GetUserByID(d, u)    == {u} \cap DOMAIN d.users
CountAdmins(d)       == Cardinality({u \in DOMAIN d.users : d.users[u].role = "admin"})

\* Updates of a row that is gone affect no row and report no error.
Patch(d, u, row) == IF u \in DOMAIN d.users THEN [d EXCEPT !.users[u] = row] ELSE d

\* UNIQUE(email): the second of two inserts fails.
CreateUser(d, u, row) ==
    IF GetUserByEmail(d, row.email) # {} THEN R(d, "failed")
    ELSE R([d EXCEPT !.users = Insert(@, u, row)], "ok")

SetEnabled(d, u)  == Patch(d, u, [d.users[u] EXCEPT !.on = FALSE])
SetRole(d, u, r)  == Patch(d, u, [d.users[u] EXCEPT !.role = r])
UpdatePasswordHash(d, u, p) == Patch(d, u, [d.users[u] EXCEPT !.pw = p, !.must = FALSE])
ClearEmailVerified(d, u)    == Patch(d, u, [d.users[u] EXCEPT !.ver = FALSE])

\* COALESCE(email_verified_at, NOW())
EnableUser(d, u) == Patch(d, u, [d.users[u] EXCEPT !.on = TRUE, !.ver = TRUE])

UpdateUserEmail(d, u, e, clear) ==
    IF GetUserByEmail(d, e) \ {u} # {} THEN R(d, "failed")
    ELSE R(Patch(d, u, [d.users[u] EXCEPT !.email = e, !.ver = @ /\ ~clear]), "ok")

\* ON DELETE CASCADE takes the user's tokens, sessions and enrolment along.
DeleteUser(d, u) ==
    LET Others(t) == {i \in DOMAIN t : t[i].user # u}
    IN  [d EXCEPT !.users    = Restrict(@, DOMAIN @ \ {u}),
                  !.totp     = Restrict(@, DOMAIN @ \ {u}),
                  !.tokens   = Restrict(@, Others(@)),
                  !.sessions = Restrict(@, Others(@))]

(* auth_tokens *)
CreateAuthToken(d, u, e, purpose, role) ==
    LET id == 1 + Max({0} \cup DOMAIN d.tokens)
    IN  IF u \notin DOMAIN d.users THEN R(d, "failed")
        ELSE R([d EXCEPT !.tokens = Insert(@, id,
            [user |-> u, email |-> e, purpose |-> purpose, role |-> role,
             used |-> FALSE, exp |-> FALSE])], "ok")

GetAuthTokenByHash(d, t, purpose) == {i \in {t} \cap DOMAIN d.tokens : d.tokens[i].purpose = purpose}

MarkAuthTokenUsed(d, t) == IF t \in DOMAIN d.tokens THEN [d EXCEPT !.tokens[t].used = TRUE] ELSE d

\* For a set of addresses and purposes: one statement each, in any order.
InvalidateTokens(d, emails, purposes) ==
    [d EXCEPT !.tokens = [i \in DOMAIN @ |->
        IF @[i].email \in emails /\ @[i].purpose \in purposes
        THEN [@[i] EXCEPT !.used = TRUE] ELSE @[i]]]
InvalidateUnusedTokens(d, e, purpose) == InvalidateTokens(d, {e}, {purpose})

\* Newest first; an invite past its expiry is still pending.
ListPendingInvites(d, e) ==
    {i \in DOMAIN d.tokens : d.tokens[i].purpose = "invite" /\ ~d.tokens[i].used
                             /\ d.tokens[i].email = e}

HasUnusedAuthToken(d, e, purpose) ==
    \E i \in DOMAIN d.tokens : /\ d.tokens[i].email = e /\ d.tokens[i].purpose = purpose
                               /\ ~d.tokens[i].used /\ ~d.tokens[i].exp

GetUnusedAuthTokenByUser(d, u, purpose) ==
    {i \in DOMAIN d.tokens : /\ d.tokens[i].user = u /\ d.tokens[i].purpose = purpose
                             /\ ~d.tokens[i].used /\ ~d.tokens[i].exp}

(* sessions *)
CreateSession(d, s, u, g) ==
    IF u \notin DOMAIN d.users THEN R(d, "failed")
    ELSE R([d EXCEPT !.sessions = Insert(@, s, [user |-> u, gen |-> g, exp |-> FALSE])], "ok")

UpdateSessionRefreshToken(d, s, g) ==
    [d EXCEPT !.sessions[s] = [@ EXCEPT !.gen = g, !.exp = FALSE]]

GetSessionByTokenHash(d, s, g)     == {i \in {s} \cap DOMAIN d.sessions : d.sessions[i].gen = g}
DeleteSessionByID(d, s)            == [d EXCEPT !.sessions = Restrict(@, DOMAIN @ \ {s})]
DeleteSessionByTokenHash(d, s, g)  ==
    [d EXCEPT !.sessions = Restrict(@, DOMAIN @ \ GetSessionByTokenHash(d, s, g))]
ListSessionsByUserID(d, u)         == {s \in DOMAIN d.sessions : d.sessions[s].user = u}
DeleteAllSessionsByUserID(d, u)    ==
    [d EXCEPT !.sessions = Restrict(@, DOMAIN @ \ ListSessionsByUserID(d, u))]

(* user_totp *)
UserHasTOTP(d, u)   == u \in DOMAIN d.totp /\ d.totp[u].enabled
HasPendingTOTP(d, u) == u \in DOMAIN d.totp /\ ~d.totp[u].enabled

SaveTOTP(d, u, row) ==
    IF u \notin DOMAIN d.users THEN R(d, "failed")
    ELSE R([d EXCEPT !.totp = Insert(@, u, row)], "ok")

\* An upsert: it also clears enabled_at of an enrolment made since the check.
SavePendingTOTPSecret(d, u) == SaveTOTP(d, u, [enabled |-> FALSE, codes |-> {}])
EnableUserTOTP(d, u)        == SaveTOTP(d, u, [enabled |-> TRUE, codes |-> BackupCodes])
DeleteUserTOTP(d, u)        == [d EXCEPT !.totp = Restrict(@, DOMAIN @ \ {u})]
ConsumeBackupCode(d, u, c)  == [d EXCEPT !.totp[u].codes = @ \ {c}]

(* settings *)
SaveSettings(d, p) == [d EXCEPT !.policy = p]
=============================================================================
