--------------------------- MODULE AccountsProofs ---------------------------
(***************************************************************************)
(* Theorems about Accounts, for any number of accounts, addresses,         *)
(* tokens, sessions and calls in flight.                                   *)
(*                                                                         *)
(* The calls of AccountService are compositions of statements, so that the *)
(* proof is about one relation between the database before and after:      *)
(* Step(d, e, N) says that e is as good as d and that only the accounts N  *)
(* are new.  Every statement makes such a step, steps compose, and the     *)
(* calls follow; Outcome adds what a refused call leaves alone.            *)
(***************************************************************************)
EXTENDS Accounts, WellFoundedInduction, TLAPS

(* Types of the rows; ids are natural numbers, 0 is no account. *)
Token   == [user : Nat, email : Emails, purpose : Purposes, role : Roles \cup {None},
            used : BOOLEAN, exp : BOOLEAN]
Session == [user : Nat, gen : Nat, exp : BOOLEAN]

Tables(d) == DOMAIN d = {"users", "tokens", "sessions", "totp", "policy"}

Stubs(d) == {u \in DOMAIN d.users : d.users[u].pw = Unusable}

UsersGood(d) ==
    /\ DOMAIN d.users \subseteq Nat
    /\ \A u \in DOMAIN d.users : d.users[u] \in Row
    /\ \A u, v \in DOMAIN d.users : d.users[u].email = d.users[v].email => u = v

TokensGood(d) ==
    \A t \in DOMAIN d.tokens :
        /\ d.tokens[t] \in Token
        /\ d.tokens[t].user \in DOMAIN d.users
        /\ d.tokens[t].purpose = "invite" => d.tokens[t].role \in Roles
        /\ d.tokens[t].purpose = "login_2fa" => d.tokens[t].user \notin Stubs(d)

SessionsGood(d) ==
    \A s \in DOMAIN d.sessions :
        /\ d.sessions[s] \in Session
        /\ d.sessions[s].user \in DOMAIN d.users
        /\ d.sessions[s].user \notin Stubs(d)

Good(d) ==
    Tables(d) /\ UsersGood(d) /\ TokensGood(d) /\ SessionsGood(d) /\ DOMAIN d.totp \subseteq DOMAIN d.users

\* From d to e only the accounts N are new, no session is, and no account has become a stub.
Step(d, e, N) ==
    /\ Good(e)
    /\ DOMAIN e.sessions \subseteq DOMAIN d.sessions
    /\ DOMAIN e.users \subseteq DOMAIN d.users \cup N
    /\ Stubs(e) \subseteq Stubs(d) \cup N

\* What a refused call leaves alone.
Kept(d, e) ==
    /\ e.users = d.users
    /\ e.totp = d.totp
    /\ \A s \in DOMAIN d.sessions : ~d.sessions[s].exp => s \in DOMAIN e.sessions

\* The answers that are not refusals: "failed" becomes a 500.
Passing == {"ok", "2fa", "2fasetup", "issue", "failed"}

\* A call that leaves the result r
Outcome(d, r, N) == Step(d, r.db, N) /\ (r.err \notin Passing => Kept(d, r.db))

\* Statements that touch auth_tokens alone
TokensOnly(d, e) == Step(d, e, {}) /\ e.users = d.users /\ e.totp = d.totp /\ e.sessions = d.sessions

-----------------------------------------------------------------------------
(* Steps *)

LEMMA StepSame == ASSUME NEW d, Good(d), NEW N PROVE Step(d, d, N) /\ Kept(d, d) /\ TokensOnly(d, d)
  BY DEF Step, Kept, TokensOnly

LEMMA StepTrans ==
  ASSUME NEW c, NEW d, NEW e, NEW N, Step(c, d, N), Step(d, e, N)
  PROVE  Step(c, e, N)
  BY DEF Step

LEMMA StepMore == ASSUME NEW d, NEW e, NEW N, Step(d, e, {}) PROVE Step(d, e, N)
  BY DEF Step

LEMMA TokensOnlyTrans ==
  ASSUME NEW c, NEW d, NEW e, TokensOnly(c, d), TokensOnly(d, e)
  PROVE  TokensOnly(c, e)
  BY StepTrans DEF TokensOnly

LEMMA TokensOnlyKeeps == ASSUME NEW d, NEW e, TokensOnly(d, e) PROVE Kept(d, e)
  BY DEF TokensOnly, Kept

-----------------------------------------------------------------------------
(* The statements of AccountStore *)

\* A row is replaced by one with an address nobody else has, which is not a stub's unless the
\* old one is.
LEMMA PatchStep ==
  ASSUME NEW d, NEW u, NEW row, Good(d),
         u \in DOMAIN d.users =>
           /\ row \in Row
           /\ \A v \in DOMAIN d.users : d.users[v].email = row.email => v = u
           /\ row.pw = Unusable => d.users[u].pw = Unusable
  PROVE  Step(d, Patch(d, u, row), {})
<1>1. CASE u \notin DOMAIN d.users
  BY <1>1, StepSame DEF Patch
<1>2. CASE u \in DOMAIN d.users
  <2> DEFINE e == [d EXCEPT !.users[u] = row]
  <2>1. /\ Tables(e) /\ e.tokens = d.tokens /\ e.sessions = d.sessions /\ e.totp = d.totp
        /\ DOMAIN e.users = DOMAIN d.users /\ e.users[u] = row
        /\ \A v \in DOMAIN d.users : v # u => e.users[v] = d.users[v]
    BY <1>2 DEF Good, Tables
  <2> HIDE DEF e
  <2>2. UsersGood(e) /\ Stubs(e) \subseteq Stubs(d)
    BY <1>2, <2>1 DEF Good, UsersGood, Stubs
  <2>3. TokensGood(e) /\ SessionsGood(e)
    BY <2>1, <2>2 DEF Good, TokensGood, SessionsGood
  <2>4. Step(d, e, {})
    BY <2>1, <2>2, <2>3 DEF Step, Good
  <2> QED
    BY <1>2, <2>4 DEF e, Patch
<1> QED
  BY <1>1, <1>2

LEMMA RowStep ==
  ASSUME NEW d, NEW u, Good(d)
  PROVE  /\ Step(d, SetEnabled(d, u), {})
         /\ Step(d, ClearEmailVerified(d, u), {})
         /\ Step(d, EnableUser(d, u), {})
         /\ \A r \in Roles : Step(d, SetRole(d, u, r), {})
         /\ \A p \in Passwords : Step(d, UpdatePasswordHash(d, u, p), {})
<1> DEFINE row == d.users[u]
<1>1. u \in DOMAIN d.users =>
        /\ row \in Row
        /\ \A v \in DOMAIN d.users : d.users[v].email = row.email => v = u
  BY DEF Good, UsersGood
<1>2. Step(d, SetEnabled(d, u), {})
  BY <1>1, PatchStep DEF SetEnabled, Row
<1>3. Step(d, ClearEmailVerified(d, u), {})
  BY <1>1, PatchStep DEF ClearEmailVerified, Row
<1>4. Step(d, EnableUser(d, u), {})
  BY <1>1, PatchStep DEF EnableUser, Row
<1>5. ASSUME NEW r \in Roles PROVE Step(d, SetRole(d, u, r), {})
  BY <1>1, PatchStep DEF SetRole, Row
<1>6. ASSUME NEW p \in Passwords PROVE Step(d, UpdatePasswordHash(d, u, p), {})
  BY <1>1, PatchStep, AccountBounds DEF UpdatePasswordHash, Row
<1> QED
  BY <1>2, <1>3, <1>4, <1>5, <1>6
\* An address nobody has, and an id nobody has.
LEMMA CreateUserStep ==
  ASSUME NEW d, NEW u \in Nat, NEW row \in Row, NEW N, Good(d),
         GetUserByEmail(d, row.email) = {} => u \notin DOMAIN d.users /\ u \in N
  PROVE  /\ Step(d, CreateUser(d, u, row).db, N)
         /\ CreateUser(d, u, row).err \in {"ok", "failed"}
<1>1. CASE GetUserByEmail(d, row.email) # {}
  BY <1>1, StepSame DEF CreateUser, R
<1>2. CASE GetUserByEmail(d, row.email) = {}
  <2> DEFINE e == [d EXCEPT !.users = Insert(@, u, row)]
  <2>1. /\ Tables(e) /\ e.tokens = d.tokens /\ e.sessions = d.sessions /\ e.totp = d.totp
        /\ DOMAIN e.users = {u} \cup DOMAIN d.users /\ e.users[u] = row
        /\ \A v \in DOMAIN d.users : e.users[v] = d.users[v]
    BY <1>2 DEF Good, Tables, Insert
  <2> HIDE DEF e
  <2>2. UsersGood(e) /\ Stubs(e) \subseteq Stubs(d) \cup {u}
    BY <1>2, <2>1 DEF Good, UsersGood, Stubs, GetUserByEmail
  <2>3. TokensGood(e) /\ SessionsGood(e)
    BY <1>2, <2>1, <2>2 DEF Good, TokensGood, SessionsGood
  <2>4. Step(d, e, N)
    BY <1>2, <2>1, <2>2, <2>3 DEF Step, Good
  <2> QED
    BY <1>2, <2>4 DEF e, CreateUser, R
<1> QED
  BY <1>1, <1>2

LEMMA UpdateUserEmailStep ==
  ASSUME NEW d, NEW u, NEW e \in Emails, NEW clear \in BOOLEAN, Good(d)
  PROVE  /\ Step(d, UpdateUserEmail(d, u, e, clear).db, {})
         /\ UpdateUserEmail(d, u, e, clear).err \in {"ok", "failed"}
         /\ UpdateUserEmail(d, u, e, clear).err = "failed" => UpdateUserEmail(d, u, e, clear).db = d
<1>1. CASE GetUserByEmail(d, e) \ {u} # {}
  BY <1>1, StepSame DEF UpdateUserEmail, R
<1>2. CASE GetUserByEmail(d, e) \ {u} = {}
  <2> DEFINE row == [d.users[u] EXCEPT !.email = e, !.ver = @ /\ ~clear]
  <2>1. u \in DOMAIN d.users => row \in Row /\ row.email = e /\ row.pw = d.users[u].pw
    BY DEF Good, UsersGood, Row
  <2>2. \A v \in DOMAIN d.users : d.users[v].email = e => v = u
    BY <1>2 DEF GetUserByEmail
  <2> HIDE DEF row
  <2>3. Step(d, Patch(d, u, row), {})
    BY <2>1, <2>2, PatchStep
  <2> QED
    BY <1>2, <2>3 DEF row, UpdateUserEmail, R
<1> QED
  BY <1>1, <1>2

\* The cascade: what belonged to the account goes with it.
LEMMA DeleteUserStep ==
  ASSUME NEW d, NEW u, Good(d) PROVE Step(d, DeleteUser(d, u), {})
<1> DEFINE e == DeleteUser(d, u)
<1>1. /\ Tables(e)
      /\ DOMAIN e.users = DOMAIN d.users \ {u} /\ DOMAIN e.totp = DOMAIN d.totp \ {u}
      /\ DOMAIN e.tokens = {t \in DOMAIN d.tokens : d.tokens[t].user # u}
      /\ DOMAIN e.sessions = {s \in DOMAIN d.sessions : d.sessions[s].user # u}
      /\ \A v \in DOMAIN e.users : e.users[v] = d.users[v]
      /\ \A t \in DOMAIN e.tokens : e.tokens[t] = d.tokens[t]
      /\ \A s \in DOMAIN e.sessions : e.sessions[s] = d.sessions[s]
  BY DEF Good, Tables, DeleteUser, Restrict
<1> HIDE DEF e
<1>2. UsersGood(e) /\ Stubs(e) \subseteq Stubs(d)
  BY <1>1 DEF Good, UsersGood, Stubs
<1>3. TokensGood(e) /\ SessionsGood(e)
  BY <1>1, <1>2 DEF Good, TokensGood, SessionsGood
<1> QED
  BY <1>1, <1>2, <1>3 DEF Step, Good, e

\* Every row of auth_tokens in e is one of d, but for `used`, or one more that fits its user.
LEMMA TokensChange ==
  ASSUME NEW d, NEW e, Good(d), Tables(e),
         e.users = d.users, e.sessions = d.sessions, e.totp = d.totp,
         \A t \in DOMAIN e.tokens :
           \/ /\ t \in DOMAIN d.tokens /\ e.tokens[t] \in Token
              /\ e.tokens[t].user = d.tokens[t].user /\ e.tokens[t].role = d.tokens[t].role
              /\ e.tokens[t].purpose = d.tokens[t].purpose
           \/ /\ e.tokens[t] \in Token /\ e.tokens[t].user \in DOMAIN d.users
              /\ e.tokens[t].purpose = "invite" => e.tokens[t].role \in Roles
              /\ e.tokens[t].purpose = "login_2fa" => e.tokens[t].user \notin Stubs(d)
  PROVE  TokensOnly(d, e)
<1>1. UsersGood(e) /\ Stubs(e) = Stubs(d) /\ SessionsGood(e)
  BY DEF Good, UsersGood, Stubs, SessionsGood
<1>2. TokensGood(e)
  BY <1>1 DEF Good, TokensGood
<1> QED
  BY <1>1, <1>2 DEF Good, Step, TokensOnly

LEMMA CreateAuthTokenStep ==
  ASSUME NEW d, NEW u, NEW e \in Emails, NEW purpose \in Purposes, NEW role \in Roles \cup {None},
         Good(d), purpose = "invite" => role \in Roles, purpose = "login_2fa" => u \notin Stubs(d)
  PROVE  /\ TokensOnly(d, CreateAuthToken(d, u, e, purpose, role).db)
         /\ CreateAuthToken(d, u, e, purpose, role).err \in {"ok", "failed"}
<1>1. CASE u \notin DOMAIN d.users
  BY <1>1, StepSame DEF CreateAuthToken, R
<1>2. CASE u \in DOMAIN d.users
  <2> DEFINE id == 1 + Max({0} \cup DOMAIN d.tokens)
             row == [user |-> u, email |-> e, purpose |-> purpose, role |-> role,
                     used |-> FALSE, exp |-> FALSE]
             f == [d EXCEPT !.tokens = Insert(@, id, row)]
  <2>1. row \in Token
    BY <1>2 DEF Token, Good, UsersGood
  <2>2. row.user = u /\ row.purpose = purpose /\ row.role = role
    OBVIOUS
  <2> HIDE DEF row, id
  <2>3. /\ Tables(f) /\ f.users = d.users /\ f.sessions = d.sessions /\ f.totp = d.totp
        /\ DOMAIN f.tokens = {id} \cup DOMAIN d.tokens /\ f.tokens[id] = row
        /\ \A t \in DOMAIN d.tokens : t # id => f.tokens[t] = d.tokens[t]
    BY DEF Good, Tables, Insert
  <2> HIDE DEF f
  <2>4. \A t \in DOMAIN d.tokens : d.tokens[t] \in Token
    BY DEF Good, TokensGood
  <2>5. TokensOnly(d, f)
    BY <1>2, <2>1, <2>2, <2>3, <2>4, TokensChange
  <2> QED
    BY <1>2, <2>5 DEF f, id, row, CreateAuthToken, R
<1> QED
  BY <1>1, <1>2

LEMMA SpentToken ==
  ASSUME NEW k \in Token
  PROVE  LET l == [k EXCEPT !.used = TRUE]
         IN  l \in Token /\ l.user = k.user /\ l.role = k.role /\ l.purpose = k.purpose
  BY DEF Token

LEMMA TokenRowStep ==
  ASSUME NEW d, Good(d)
  PROVE  /\ \A t : TokensOnly(d, MarkAuthTokenUsed(d, t))
         /\ \A E, P : TokensOnly(d, InvalidateTokens(d, E, P))
         /\ \A e, p : TokensOnly(d, InvalidateUnusedTokens(d, e, p))
<1>1. \A t \in DOMAIN d.tokens : d.tokens[t] \in Token
  BY DEF Good, TokensGood
<1>2. ASSUME NEW t PROVE TokensOnly(d, MarkAuthTokenUsed(d, t))
  <2>1. CASE t \notin DOMAIN d.tokens
    BY <2>1, StepSame DEF MarkAuthTokenUsed
  <2>2. CASE t \in DOMAIN d.tokens
    <3> DEFINE f == [d EXCEPT !.tokens[t].used = TRUE]
    <3>1. /\ Tables(f) /\ f.users = d.users /\ f.sessions = d.sessions /\ f.totp = d.totp
          /\ DOMAIN f.tokens = DOMAIN d.tokens /\ f.tokens[t] = [d.tokens[t] EXCEPT !.used = TRUE]
          /\ \A x \in DOMAIN d.tokens : x # t => f.tokens[x] = d.tokens[x]
      BY <2>2 DEF Good, Tables
    <3> HIDE DEF f
    <3>2. \A x \in DOMAIN d.tokens : /\ f.tokens[x] \in Token /\ f.tokens[x].user = d.tokens[x].user
                                     /\ f.tokens[x].role = d.tokens[x].role
                                     /\ f.tokens[x].purpose = d.tokens[x].purpose
      <4> TAKE x \in DOMAIN d.tokens
      <4>1. CASE x = t
        BY <1>1, <3>1, <4>1, SpentToken
      <4>2. CASE x # t
        BY <1>1, <3>1, <4>2
      <4> QED
        BY <4>1, <4>2
    <3>3. TokensOnly(d, f)
      BY <3>1, <3>2, TokensChange
    <3> QED
      BY <2>2, <3>3 DEF f, MarkAuthTokenUsed
  <2> QED
    BY <2>1, <2>2
<1>3. ASSUME NEW E, NEW P PROVE TokensOnly(d, InvalidateTokens(d, E, P))
  <2> DEFINE f == InvalidateTokens(d, E, P)
  <2>1. /\ Tables(f) /\ f.users = d.users /\ f.sessions = d.sessions /\ f.totp = d.totp
        /\ DOMAIN f.tokens = DOMAIN d.tokens
        /\ \A x \in DOMAIN d.tokens :
              f.tokens[x] = IF d.tokens[x].email \in E /\ d.tokens[x].purpose \in P
                            THEN [d.tokens[x] EXCEPT !.used = TRUE] ELSE d.tokens[x]
    BY DEF Good, Tables, InvalidateTokens
  <2> HIDE DEF f
  <2>2. \A x \in DOMAIN d.tokens : /\ f.tokens[x] \in Token /\ f.tokens[x].user = d.tokens[x].user
                                   /\ f.tokens[x].role = d.tokens[x].role
                                   /\ f.tokens[x].purpose = d.tokens[x].purpose
    BY <1>1, <2>1, SpentToken
  <2>3. TokensOnly(d, f)
    BY <2>1, <2>2, TokensChange
  <2> QED
    BY <2>3 DEF f
<1> QED
  BY <1>2, <1>3 DEF InvalidateUnusedTokens
\* Sessions of e are sessions of d, or of an account that is no stub.
LEMMA SessionsChange ==
  ASSUME NEW d, NEW e, Good(d), Tables(e),
         e.users = d.users, e.tokens = d.tokens, DOMAIN e.totp \subseteq DOMAIN d.users,
         \A s \in DOMAIN e.sessions :
           /\ e.sessions[s] \in Session
           /\ e.sessions[s].user \in DOMAIN d.users
           /\ e.sessions[s].user \notin Stubs(d)
  PROVE  Good(e) /\ Stubs(e) = Stubs(d)
<1>1. UsersGood(e) /\ Stubs(e) = Stubs(d) /\ SessionsGood(e) /\ TokensGood(e)
  BY DEF Good, UsersGood, Stubs, SessionsGood, TokensGood
<1> QED
  BY <1>1 DEF Good

LEMMA CreateSessionStep ==
  ASSUME NEW d, NEW s, NEW u, NEW g \in Nat, Good(d), u \notin Stubs(d)
  PROVE  LET e == CreateSession(d, s, u, g).db
         IN  /\ Good(e) /\ e.users = d.users /\ e.tokens = d.tokens
             /\ DOMAIN e.sessions \subseteq DOMAIN d.sessions \cup {s}
<1>1. CASE u \notin DOMAIN d.users
  BY <1>1 DEF CreateSession, R
<1>2. CASE u \in DOMAIN d.users
  <2> DEFINE row == [user |-> u, gen |-> g, exp |-> FALSE]
             f == [d EXCEPT !.sessions = Insert(@, s, row)]
  <2>1. row \in Session /\ row.user = u
    BY <1>2 DEF Session, Good, UsersGood
  <2> HIDE DEF row
  <2>2. /\ Tables(f) /\ f.users = d.users /\ f.tokens = d.tokens /\ f.totp = d.totp
        /\ DOMAIN f.sessions = {s} \cup DOMAIN d.sessions /\ f.sessions[s] = row
        /\ \A t \in DOMAIN d.sessions : t # s => f.sessions[t] = d.sessions[t]
    BY DEF Good, Tables, Insert
  <2> HIDE DEF f
  <2>3. Good(f)
    BY <1>2, <2>1, <2>2, SessionsChange DEF Good, SessionsGood
  <2> QED
    BY <1>2, <2>2, <2>3 DEF f, row, CreateSession, R
<1> QED
  BY <1>1, <1>2

LEMMA UpdateSessionStep ==
  ASSUME NEW d, NEW s \in DOMAIN d.sessions, NEW g \in Nat, Good(d)
  PROVE  LET e == UpdateSessionRefreshToken(d, s, g)
         IN  Good(e) /\ e.users = d.users /\ e.tokens = d.tokens /\ DOMAIN e.sessions = DOMAIN d.sessions
<1> DEFINE row == [d.sessions[s] EXCEPT !.gen = g, !.exp = FALSE]
           f == UpdateSessionRefreshToken(d, s, g)
<1>1. row \in Session /\ row.user = d.sessions[s].user
  BY DEF Good, SessionsGood, Session
<1>2. /\ Tables(f) /\ f.users = d.users /\ f.tokens = d.tokens /\ f.totp = d.totp
      /\ DOMAIN f.sessions = DOMAIN d.sessions /\ f.sessions[s] = row
      /\ \A t \in DOMAIN d.sessions : t # s => f.sessions[t] = d.sessions[t]
  BY DEF Good, Tables, UpdateSessionRefreshToken
<1> HIDE DEF f, row
<1>3. Good(f)
  BY <1>1, <1>2, SessionsChange DEF Good, SessionsGood
<1> QED
  BY <1>2, <1>3 DEF f

LEMMA DeleteSessionsStep ==
  ASSUME NEW d, NEW S, Good(d)
  PROVE  LET e == [d EXCEPT !.sessions = Restrict(@, DOMAIN @ \ S)]
         IN  /\ Step(d, e, {}) /\ e.users = d.users /\ e.totp = d.totp /\ e.tokens = d.tokens
             /\ DOMAIN e.sessions = DOMAIN d.sessions \ S
<1> DEFINE e == [d EXCEPT !.sessions = Restrict(@, DOMAIN @ \ S)]
<1>1. /\ Tables(e) /\ e.users = d.users /\ e.totp = d.totp /\ e.tokens = d.tokens
      /\ DOMAIN e.sessions = DOMAIN d.sessions \ S
      /\ \A s \in DOMAIN e.sessions : e.sessions[s] = d.sessions[s]
  BY DEF Good, Tables, Restrict
<1> HIDE DEF e
<1>2. Good(e) /\ Stubs(e) = Stubs(d)
  BY <1>1, SessionsChange DEF Good, SessionsGood
<1> QED
  BY <1>1, <1>2 DEF e, Step

LEMMA DeleteSessionStep ==
  ASSUME NEW d, Good(d)
  PROVE  /\ \A s : Step(d, DeleteSessionByID(d, s), {})
         /\ \A u : Step(d, DeleteAllSessionsByUserID(d, u), {})
         /\ \A s, g : /\ Step(d, DeleteSessionByTokenHash(d, s, g), {})
                      /\ DeleteSessionByTokenHash(d, s, g).users = d.users
                      /\ DeleteSessionByTokenHash(d, s, g).tokens = d.tokens
                      /\ DeleteSessionByTokenHash(d, s, g).totp = d.totp
                      /\ DOMAIN DeleteSessionByTokenHash(d, s, g).sessions
                             = DOMAIN d.sessions \ GetSessionByTokenHash(d, s, g)
  BY DeleteSessionsStep DEF DeleteSessionByID, DeleteAllSessionsByUserID, DeleteSessionByTokenHash

\* user_totp: only that enrolments belong to accounts matters here.
LEMMA TotpChange ==
  ASSUME NEW d, NEW e, Good(d), Tables(e), e.users = d.users, e.tokens = d.tokens,
         e.sessions = d.sessions, DOMAIN e.totp \subseteq DOMAIN d.users
  PROVE  Step(d, e, {})
  BY SessionsChange DEF Good, SessionsGood, Step

LEMMA SaveTOTPStep ==
  ASSUME NEW d, NEW u, NEW row, Good(d)
  PROVE  /\ Step(d, SaveTOTP(d, u, row).db, {})
         /\ SaveTOTP(d, u, row).err \in {"ok", "failed"}
<1> DEFINE f == [d EXCEPT !.totp = Insert(@, u, row)]
<1>1. /\ Tables(f) /\ f.users = d.users /\ f.tokens = d.tokens /\ f.sessions = d.sessions
      /\ DOMAIN f.totp = {u} \cup DOMAIN d.totp
  BY DEF Good, Tables, Insert
<1> HIDE DEF f
<1>2. u \in DOMAIN d.users => Step(d, f, {})
  BY <1>1, TotpChange DEF Good
<1> QED
  BY <1>2, StepSame DEF f, SaveTOTP, R

LEMMA TotpStep ==
  ASSUME NEW d, NEW u, Good(d)
  PROVE  /\ Step(d, DeleteUserTOTP(d, u), {})
         /\ \A c : Step(d, ConsumeBackupCode(d, u, c), {})
<1>1. Step(d, DeleteUserTOTP(d, u), {})
  <2> DEFINE f == DeleteUserTOTP(d, u)
  <2>1. /\ Tables(f) /\ f.users = d.users /\ f.tokens = d.tokens /\ f.sessions = d.sessions
        /\ DOMAIN f.totp = DOMAIN d.totp \ {u}
    BY DEF Good, Tables, DeleteUserTOTP, Restrict
  <2> HIDE DEF f
  <2>2. Step(d, f, {})
    BY <2>1, TotpChange DEF Good
  <2> QED
    BY <2>2 DEF f
<1>2. ASSUME NEW c PROVE Step(d, ConsumeBackupCode(d, u, c), {})
  <2> DEFINE f == ConsumeBackupCode(d, u, c)
  <2>1. /\ Tables(f) /\ f.users = d.users /\ f.tokens = d.tokens /\ f.sessions = d.sessions
        /\ DOMAIN f.totp = DOMAIN d.totp
    BY DEF Good, Tables, ConsumeBackupCode
  <2> HIDE DEF f
  <2>2. Step(d, f, {})
    BY <2>1, TotpChange DEF Good
  <2> QED
    BY <2>2 DEF f
<1> QED
  BY <1>1, <1>2

LEMMA SaveSettingsStep ==
  ASSUME NEW d, NEW p, Good(d) PROVE Step(d, SaveSettings(d, p), {})
<1> DEFINE f == SaveSettings(d, p)
<1>1. /\ Tables(f) /\ f.users = d.users /\ f.tokens = d.tokens /\ f.sessions = d.sessions
      /\ f.totp = d.totp
  BY DEF Good, Tables, SaveSettings
<1> HIDE DEF f
<1>2. Step(d, f, {})
  BY <1>1, TotpChange DEF Good
<1> QED
  BY <1>2 DEF f
-----------------------------------------------------------------------------
(* The calls of AccountService *)

LEMMA SmallestNat == ASSUME NEW T \in SUBSET Nat, T # {} PROVE \E n \in T : \A m \in T : n <= m
<1>1. PICK n \in T : \A m \in T : <<m, n>> \notin OpToRel(<, Nat)
  BY NatLessThanWellFounded, WFMin
<1>2. \A m \in T : ~ (m < n)
  BY <1>1 DEF OpToRel
<1> QED
  BY <1>2

LEMMA NewestIn == ASSUME NEW S \in SUBSET (1 .. MaxTokens), S # {} PROVE Newest(S) \in S
<1> DEFINE T == {MaxTokens - t : t \in S}
<1>1. MaxTokens \in Nat /\ \A t \in S : t \in Nat /\ MaxTokens - t \in Nat
  BY AccountBounds
<1>2. T \in SUBSET Nat /\ T # {}
  BY <1>1
<1>3. PICK n \in T : \A m \in T : n <= m
  BY <1>2, SmallestNat
<1>4. PICK t \in S : n = MaxTokens - t
  BY <1>3
<1>5. \A x \in S : t >= x
  <2>1. \A x \in S : MaxTokens - x \in T
    OBVIOUS
  <2> HIDE DEF T
  <2> QED
    BY <1>1, <1>3, <1>4, <2>1
<1> QED
  BY <1>5 DEF Newest, Max

\* A call that changes tokens only, or nothing, makes a step whatever it answers.
LEMMA TokensOutcome ==
  ASSUME NEW d, NEW r, NEW N, TokensOnly(d, r.db) PROVE Outcome(d, r, N)
  BY TokensOnlyKeeps, StepMore DEF Outcome, TokensOnly

LEMMA SameOutcome ==
  ASSUME NEW d, NEW r, NEW N, Good(d), r.db = d PROVE Outcome(d, r, N)
  BY StepSame DEF Outcome

LEMMA MadeOutcome ==
  ASSUME NEW d, NEW r, NEW N, Step(d, r.db, N), r.err \in Passing PROVE Outcome(d, r, N)
  BY DEF Outcome

LEMMA MailStep ==
  ASSUME NEW d, NEW u, NEW e \in Emails, NEW mail, Good(d)
  PROVE  /\ TokensOnly(d, sendConfirmEmail(d, u, e, mail).db)
         /\ sendConfirmEmail(d, u, e, mail).err \in {"ok", "failed"}
         /\ TokensOnly(d, issueChangeEmailToken(d, u, e, mail).db)
         /\ issueChangeEmailToken(d, u, e, mail).err \in {"ok", "failed"}
         /\ TokensOnly(d, resendChangeEmailToken(d, u, e, mail).db)
         /\ resendChangeEmailToken(d, u, e, mail).err \in {"ok", "failed"}
         /\ \A role \in Roles : /\ TokensOnly(d, issueInviteToken(d, u, e, role, mail).db)
                               /\ issueInviteToken(d, u, e, role, mail).err \in {"ok", "failed"}
<1>1. ASSUME NEW x, Good(x), NEW purpose \in {"confirm_email", "change_email", "invite"},
             NEW role \in Roles \cup {None}, purpose = "invite" => role \in Roles
      PROVE  /\ TokensOnly(x, Send(CreateAuthToken(x, u, e, purpose, role), mail).db)
             /\ Send(CreateAuthToken(x, u, e, purpose, role), mail).err \in {"ok", "failed"}
  <2>1. TokensOnly(x, CreateAuthToken(x, u, e, purpose, role).db)
    BY <1>1, CreateAuthTokenStep DEF Purposes
  <2> QED
    BY <2>1 DEF Send, R
<1>2. ASSUME NEW p PROVE TokensOnly(d, InvalidateUnusedTokens(d, e, p)) /\ Good(InvalidateUnusedTokens(d, e, p))
  BY TokenRowStep DEF TokensOnly, Step
<1>3. /\ TokensOnly(d, sendConfirmEmail(d, u, e, mail).db)
      /\ sendConfirmEmail(d, u, e, mail).err \in {"ok", "failed"}
      /\ TokensOnly(d, issueChangeEmailToken(d, u, e, mail).db)
      /\ issueChangeEmailToken(d, u, e, mail).err \in {"ok", "failed"}
  BY <1>1 DEF sendConfirmEmail, issueChangeEmailToken
<1>4. /\ TokensOnly(d, resendChangeEmailToken(d, u, e, mail).db)
      /\ resendChangeEmailToken(d, u, e, mail).err \in {"ok", "failed"}
  <2> DEFINE x == InvalidateUnusedTokens(d, e, "change_email")
  <2>1. TokensOnly(d, x) /\ Good(x)
    BY <1>2
  <2> HIDE DEF x
  <2>2. /\ TokensOnly(x, issueChangeEmailToken(x, u, e, mail).db)
        /\ issueChangeEmailToken(x, u, e, mail).err \in {"ok", "failed"}
    BY <1>1, <2>1 DEF issueChangeEmailToken
  <2>3. resendChangeEmailToken(d, u, e, mail) = issueChangeEmailToken(x, u, e, mail)
    BY DEF resendChangeEmailToken, x
  <2> QED
    BY <2>1, <2>2, <2>3, TokensOnlyTrans
<1>5. ASSUME NEW role \in Roles
      PROVE  /\ TokensOnly(d, issueInviteToken(d, u, e, role, mail).db)
             /\ issueInviteToken(d, u, e, role, mail).err \in {"ok", "failed"}
  <2> DEFINE x == InvalidateUnusedTokens(d, e, "invite")
  <2>1. TokensOnly(d, x) /\ Good(x)
    BY <1>2
  <2> HIDE DEF x
  <2>2. /\ TokensOnly(x, Send(CreateAuthToken(x, u, e, "invite", role), mail).db)
        /\ Send(CreateAuthToken(x, u, e, "invite", role), mail).err \in {"ok", "failed"}
    BY <1>1, <2>1
  <2>3. issueInviteToken(d, u, e, role, mail) = Send(CreateAuthToken(x, u, e, "invite", role), mail)
    BY DEF issueInviteToken, x
  <2> QED
    BY <2>1, <2>2, <2>3, TokensOnlyTrans
<1> QED
  BY <1>3, <1>4, <1>5

\* The row that a call may have to make for address e: u is the id of a new account.
Fresh(d, e, u, N) == GetUserByEmail(d, e) = {} => u \notin DOMAIN d.users /\ u \in N

LEMMA StubStep ==
  ASSUME NEW d, NEW u \in Nat, NEW e \in Emails, NEW role \in Roles, NEW N, Good(d), Fresh(d, e, u, N)
  PROVE  LET r == ensureInviteStubUser(d, u, e, role)
         IN  /\ Step(d, r.db, N) /\ r.err \in {"ok", "exists", "failed"}
             /\ r.err = "exists" \/ GetUserByEmail(d, e) # {} => r.db = d
<1>1. CASE GetUserByEmail(d, e) # {}
  BY <1>1, StepSame DEF ensureInviteStubUser, For, R
<1>2. CASE GetUserByEmail(d, e) = {}
  <2> DEFINE row == [email |-> e, role |-> role, on |-> FALSE, ver |-> FALSE, pw |-> Unusable,
                     must |-> FALSE]
  <2>1. row \in Row /\ row.email = e
    BY DEF Row
  <2>2. ensureInviteStubUser(d, u, e, role) = For(u, CreateUser(d, u, row))
    BY <1>2 DEF ensureInviteStubUser
  <2> HIDE DEF row
  <2>3. Step(d, CreateUser(d, u, row).db, N) /\ CreateUser(d, u, row).err \in {"ok", "failed"}
    BY <1>2, <2>1, CreateUserStep DEF Fresh
  <2> QED
    BY <1>2, <2>2, <2>3 DEF For
<1> QED
  BY <1>1, <1>2

LEMMA CreateInviteStep ==
  ASSUME NEW d, NEW u \in Nat, NEW e \in Emails, NEW role \in Roles, NEW mail, NEW N,
         Good(d), Fresh(d, e, u, N)
  PROVE  /\ Outcome(d, CreateInvite(d, u, e, role, mail), N)
         /\ GetUserByEmail(d, e) # {} => TokensOnly(d, CreateInvite(d, u, e, role, mail).db)
<1> DEFINE stub == ensureInviteStubUser(d, u, e, role)
           r == CreateInvite(d, u, e, role, mail)
<1>1. /\ Step(d, stub.db, N) /\ stub.err \in {"ok", "exists", "failed"}
      /\ stub.err = "exists" \/ GetUserByEmail(d, e) # {} => stub.db = d
  BY StubStep
<1>2. CASE role = "tv"
  BY <1>2, StepSame DEF CreateInvite, R, Outcome
<1>3. CASE role # "tv" /\ stub.err # "ok"
  <2>1. r = R(stub.db, stub.err)
    BY <1>3 DEF CreateInvite
  <2> HIDE DEF r, stub
  <2> QED
    BY <1>1, <1>3, <2>1, StepSame DEF r, R, Outcome, Passing
<1>4. CASE role # "tv" /\ stub.err = "ok"
  <2> DEFINE f == issueInviteToken(stub.db, stub.who, e, role, mail)
  <2>1. r = f
    BY <1>4 DEF CreateInvite
  <2>2. Good(stub.db)
    BY <1>1 DEF Step
  <2> HIDE DEF r, stub
  <2>3. TokensOnly(stub.db, f.db) /\ f.err \in {"ok", "failed"}
    BY <2>2, MailStep
  <2>4. Step(d, f.db, N)
    BY <1>1, <2>3, StepMore, StepTrans DEF TokensOnly
  <2> QED
    BY <1>1, <2>1, <2>3, <2>4 DEF r, Outcome, Passing
<1> QED
  BY <1>2, <1>3, <1>4

LEMMA ResendInviteStep ==
  ASSUME NEW d, NEW u \in Nat, NEW t, NEW mail, NEW N, Good(d),
         t \in DOMAIN d.tokens => Fresh(d, d.tokens[t].email, u, N)
  PROVE  /\ Outcome(d, ResendInvite(d, u, t, mail), N)
         /\ t \in DOMAIN d.tokens /\ GetUserByEmail(d, d.tokens[t].email) # {}
               => TokensOnly(d, ResendInvite(d, u, t, mail).db)
<1>1. CASE t \notin DOMAIN d.tokens
  BY <1>1, StepSame DEF ResendInvite, R, Outcome
<1>2. CASE t \in DOMAIN d.tokens /\ d.tokens[t].purpose # "invite"
  BY <1>2, StepSame DEF ResendInvite, R, Outcome
<1>3. CASE t \in DOMAIN d.tokens /\ d.tokens[t].purpose = "invite"
  <2> DEFINE k == d.tokens[t]
             x == InvalidateUnusedTokens(d, k.email, "invite")
             f == CreateInvite(x, u, k.email, k.role, mail)
  <2>1. k.email \in Emails /\ k.role \in Roles
    BY <1>3 DEF Good, TokensGood, Token
  <2>2. TokensOnly(d, x) /\ Good(x) /\ Fresh(x, k.email, u, N)
        /\ GetUserByEmail(x, k.email) = GetUserByEmail(d, k.email)
    BY <1>3, TokenRowStep DEF TokensOnly, Step, Fresh, GetUserByEmail
  <2>3. ResendInvite(d, u, t, mail) = f
    BY <1>3 DEF ResendInvite
  <2> HIDE DEF x
  <2>4. Outcome(x, f, N) /\ (GetUserByEmail(d, k.email) # {} => TokensOnly(x, f.db))
    BY <2>1, <2>2, CreateInviteStep
  <2> HIDE DEF f, k
  <2>5. Step(d, f.db, N)
    BY <2>2, <2>4, StepMore, StepTrans DEF TokensOnly, Outcome
  <2>6. f.err \notin Passing => Kept(d, f.db)
    BY <2>2, <2>4 DEF Outcome, Kept, TokensOnly
  <2> QED
    BY <1>3, <2>2, <2>3, <2>4, <2>5, <2>6, TokensOnlyTrans DEF Outcome, k
<1> QED
  BY <1>1, <1>2, <1>3
LEMMA AcceptInviteStep ==
  ASSUME NEW d, NEW u \in Nat, NEW t, NEW p \in Passwords, NEW N, Good(d),
         t \in DOMAIN d.tokens => Fresh(d, d.tokens[t].email, u, N)
  PROVE  Outcome(d, AcceptInvite(d, u, t, p), N)
<1> DEFINE k == d.tokens[t]
           made == loadOrCreateInviteUser(d, u, k.email, k.role, p)
           r == AcceptInvite(d, u, t, p)
<1>1. CASE validateToken(d, t, "invite") # "ok"
  BY <1>1, SameOutcome DEF AcceptInvite, R
<1>2. CASE validateToken(d, t, "invite") = "ok"
  <2>1. t \in DOMAIN d.tokens /\ k.purpose = "invite"
    BY <1>2 DEF validateToken, GetAuthTokenByHash
  <2>2. k.email \in Emails /\ k.role \in Roles /\ Fresh(d, k.email, u, N)
    BY <2>1 DEF Good, TokensGood, Token
  <2>3. Step(d, made.db, N) /\ made.err \in {"ok", "failed"}
    <3> HIDE DEF k
    <3>1. CASE GetUserByEmail(d, k.email) # {}
      <4> DEFINE x == Only(GetUserByEmail(d, k.email))
                 y == UpdatePasswordHash(d, x, p)
      <4>0. Step(d, y, {})
        BY RowStep
      <4>1. Step(d, y, N) /\ Good(y)
        BY <4>0, StepMore DEF Step
      <4>2. made = For(x, R(SetRole(y, x, k.role), "ok"))
        BY <3>1 DEF loadOrCreateInviteUser
      <4> HIDE DEF x, y, made
      <4>3. Step(y, SetRole(y, x, k.role), N)
        BY <2>2, <4>1, RowStep, StepMore
      <4> QED
        BY <4>1, <4>2, <4>3, StepTrans DEF For, R
    <3>2. CASE GetUserByEmail(d, k.email) = {}
      <4> DEFINE row == [email |-> k.email, role |-> k.role, on |-> TRUE, ver |-> FALSE, pw |-> p,
                         must |-> FALSE]
      <4>1. row \in Row /\ row.email = k.email
        BY <2>2 DEF Row
      <4>2. made = For(u, CreateUser(d, u, row))
        BY <3>2 DEF loadOrCreateInviteUser
      <4> HIDE DEF row, made
      <4>3. Step(d, CreateUser(d, u, row).db, N) /\ CreateUser(d, u, row).err \in {"ok", "failed"}
        BY <2>2, <3>2, <4>1, CreateUserStep DEF Fresh
      <4> QED
        BY <4>2, <4>3 DEF For
    <3> QED
      BY <3>1, <3>2
  <2> HIDE DEF made
  <2>4. CASE made.err # "ok"
    <3>1. r = R(made.db, made.err)
      BY <1>2, <2>4 DEF AcceptInvite, made
    <3> QED
      BY <2>3, <3>1, MadeOutcome DEF R, Passing
  <2>5. CASE made.err = "ok"
    <3> DEFINE y == InvalidateUnusedTokens(made.db, k.email, "invite")
    <3>1. Good(made.db)
      BY <2>3 DEF Step
    <3>2. Step(made.db, y, N) /\ Good(y)
      BY <3>1, TokenRowStep, StepMore DEF TokensOnly, Step
    <3>3. r = R(EnableUser(y, made.who), "ok")
      BY <1>2, <2>5 DEF AcceptInvite, made
    <3> HIDE DEF y, r
    <3>4. Step(y, EnableUser(y, made.who), N)
      BY <3>2, RowStep, StepMore
    <3>5. Step(d, EnableUser(y, made.who), N)
      BY <2>3, <3>2, <3>4, StepTrans
    <3>6. Outcome(d, r, N)
      BY <3>3, <3>5, MadeOutcome DEF R, Passing
    <3> QED
      BY <3>6 DEF r
  <2> QED
    BY <2>4, <2>5
<1> QED
  BY <1>1, <1>2

\* Signing in.  The ids of the tokens are bounded where the newest one is looked for.
Rows(d) == DOMAIN d.tokens \subseteq 1 .. MaxTokens

LEMMA RejectInviteStep ==
  ASSUME NEW d, NEW u \in DOMAIN d.users, NEW mail, Good(d), Rows(d)
  PROVE  LET r == rejectIfInvitePending(d, u, mail)
         IN  TokensOnly(d, r.db) /\ r.err \in {"ok", "invite"} /\ (r.err = "ok" => r.db = d)
<1> DEFINE pending == ListPendingInvites(d, d.users[u].email)
           t == Newest(pending)
<1>1. CASE d.users[u].on \/ pending = {}
  BY <1>1, StepSame DEF rejectIfInvitePending, R
<1>2. CASE ~ (d.users[u].on \/ pending = {})
  <2>1. pending \in SUBSET (1 .. MaxTokens)
    BY DEF ListPendingInvites, Rows
  <2>2. t \in pending
    BY <1>2, <2>1, NewestIn
  <2>3. t \in DOMAIN d.tokens /\ GetUserByEmail(d, d.tokens[t].email) # {}
    BY <2>2 DEF ListPendingInvites, GetUserByEmail
  <2>4. u \in Nat
    BY DEF Good, UsersGood
  <2>5. rejectIfInvitePending(d, u, mail)
          = R(IF d.tokens[t].exp THEN ResendInvite(d, u, t, mail).db ELSE d, "invite")
    BY <1>2 DEF rejectIfInvitePending
  <2> HIDE DEF t
  <2>6. TokensOnly(d, ResendInvite(d, u, t, mail).db)
    BY <2>3, <2>4, ResendInviteStep DEF Fresh
  <2> QED
    BY <2>5, <2>6, StepSame DEF R
<1> QED
  BY <1>1, <1>2

LEMMA EnsureConfirmStep ==
  ASSUME NEW d, NEW u \in DOMAIN d.users, NEW mail, Good(d), Rows(d)
  PROVE  TokensOnly(d, ensureConfirmEmailSent(d, u, mail))
<1> DEFINE e == d.users[u].email
           pending == ListPendingInvites(d, e)
           t == Newest(pending)
           x == InvalidateUnusedTokens(d, e, "confirm_email")
<1>1. e \in Emails /\ u \in Nat
  BY DEF Good, UsersGood, Row
<1>2. pending # {} => t \in DOMAIN d.tokens /\ GetUserByEmail(d, d.tokens[t].email) # {}
  <2>1. pending \in SUBSET (1 .. MaxTokens)
    BY DEF ListPendingInvites, Rows
  <2>2. pending # {} => t \in pending
    BY <2>1, NewestIn
  <2> QED
    BY <2>2 DEF ListPendingInvites, GetUserByEmail
<1>3. pending # {} => TokensOnly(d, ResendInvite(d, u, t, mail).db)
  <2> HIDE DEF t
  <2> QED
    BY <1>1, <1>2, ResendInviteStep DEF Fresh
<1>4. TokensOnly(d, sendConfirmEmail(x, u, e, mail).db)
  <2>1. TokensOnly(d, x) /\ Good(x)
    BY TokenRowStep DEF TokensOnly, Step
  <2> HIDE DEF x
  <2> QED
    BY <1>1, <2>1, MailStep, TokensOnlyTrans
<1>5. ensureConfirmEmailSent(d, u, mail)
        \in {d, sendConfirmEmail(x, u, e, mail).db}
            \cup (IF pending # {} THEN {ResendInvite(d, u, t, mail).db} ELSE {})
  <2> HIDE DEF t, x
  <2> QED
    BY DEF ensureConfirmEmailSent, t, x
<1> HIDE DEF t, x, pending
<1> QED
  BY <1>3, <1>4, <1>5, StepSame

LEMMA PendingOutcome ==
  ASSUME NEW d, NEW u \in DOMAIN d.users, Good(d), u \notin Stubs(d)
  PROVE  /\ TokensOnly(d, pendingTwoFactorOutcome(d, u).db)
         /\ pendingTwoFactorOutcome(d, u).err \in {"2fa", "2fasetup"}
<1>1. d.users[u].email \in Emails
  BY DEF Good, UsersGood, Row
<1>2. TokensOnly(d, CreateAuthToken(d, u, d.users[u].email, "login_2fa", None).db)
  BY <1>1, CreateAuthTokenStep DEF Purposes
<1> QED
  BY <1>2 DEF pendingTwoFactorOutcome, R
\* A call that goes on with issueSession has checked the password of u, or holds a token that
\* was given for it.
SignInOutcome(d, r, u) ==
    Outcome(d, r, {}) /\ (r.err = "issue" => u \in DOMAIN r.db.users /\ u \notin Stubs(r.db))

LEMMA Knows ==
  ASSUME NEW d, NEW u \in DOMAIN d.users, d.users[u].pw \in Passwords PROVE u \notin Stubs(d)
  BY AccountBounds DEF Stubs

LEMMA FoundByEmail ==
  ASSUME NEW d, NEW e, GetUserByEmail(d, e) # {} PROVE Only(GetUserByEmail(d, e)) \in DOMAIN d.users
  BY DEF GetUserByEmail, Only

LEMMA LoginStep ==
  ASSUME NEW d, NEW e, NEW p \in Passwords, NEW mail, Good(d), Rows(d)
  PROVE  SignInOutcome(d, Login(d, e, p, mail), Only(GetUserByEmail(d, e)))
<1> DEFINE u == Only(GetUserByEmail(d, e))
           invite == rejectIfInvitePending(d, u, mail)
           r == Login(d, e, p, mail)
<1>1. CASE GetUserByEmail(d, e) = {}
  BY <1>1, SameOutcome DEF Login, R, SignInOutcome
<1>2. CASE GetUserByEmail(d, e) # {}
  <2>1. u \in DOMAIN d.users
    BY <1>2, FoundByEmail
  <2>2. TokensOnly(d, invite.db) /\ invite.err \in {"ok", "invite"}
    BY <2>1, RejectInviteStep
  <2>3. TokensOnly(d, ensureConfirmEmailSent(d, u, mail))
    BY <2>1, EnsureConfirmStep
  <2>4. d.users[u].pw = p => u \notin Stubs(d)
    BY <2>1, Knows
  <2>5. d.users[u].pw = p => /\ TokensOnly(d, pendingTwoFactorOutcome(d, u).db)
                             /\ pendingTwoFactorOutcome(d, u).err \in {"2fa", "2fasetup"}
    BY <2>1, <2>4, PendingOutcome
  <2>6. \/ r \in {invite, R(d, "credentials"), R(d, "tv"), R(ensureConfirmEmailSent(d, u, mail), "disabled")}
        \/ /\ d.users[u].pw = p
           /\ r \in {pendingTwoFactorOutcome(d, u), R(d, "issue")}
    <3> HIDE DEF u
    <3> QED
      BY <1>2 DEF Login, loginAfterPassword, u
  <2> HIDE DEF r, u, invite
  <2>7. TokensOnly(d, r.db) /\ (r.err = "issue" => r.db = d /\ d.users[u].pw = p)
    BY <2>2, <2>3, <2>5, <2>6, StepSame DEF R
  <2>8. SignInOutcome(d, r, u)
    BY <2>1, <2>4, <2>7, TokensOutcome DEF SignInOutcome
  <2> QED
    BY <2>8 DEF r, u
<1> QED
  BY <1>1, <1>2

\* A code: a backup code is burnt, and only when it is right.
CodeChecked(d, v) ==
    /\ Step(d, v.db, {}) /\ v.db.users = d.users
    /\ v.err \in {"ok", "code", "codeRequired"} /\ (v.err # "ok" => v.db = d)

LEMMA CodeStep ==
  ASSUME NEW d, NEW u, NEW code, Good(d)
  PROVE  CodeChecked(d, verifyTwoFactorCode(d, u, code)) /\ CodeChecked(d, requireUserTOTP(d, u, code))
<1>1. Step(d, ConsumeBackupCode(d, u, code), {})
  BY TotpStep
<1>2. ConsumeBackupCode(d, u, code).users = d.users
  BY DEF ConsumeBackupCode, Good, Tables
<1>3. CodeChecked(d, verifyTwoFactorCode(d, u, code))
  BY <1>1, <1>2, StepSame DEF verifyTwoFactorCode, CodeChecked, R
<1> QED
  BY <1>3, StepSame DEF requireUserTOTP, CodeChecked, R

LEMMA LoginWithTOTPStep ==
  ASSUME NEW d, NEW e, NEW p \in Passwords, NEW code, NEW mail, Good(d), Rows(d)
  PROVE  SignInOutcome(d, LoginWithTOTP(d, e, p, code, mail), Only(GetUserByEmail(d, e)))
<1> DEFINE u == Only(GetUserByEmail(d, e))
           invite == rejectIfInvitePending(d, u, mail)
           v == verifyTwoFactorCode(d, u, code)
           r == LoginWithTOTP(d, e, p, code, mail)
<1>1. CASE GetUserByEmail(d, e) = {}
  BY <1>1, SameOutcome DEF LoginWithTOTP, R, SignInOutcome
<1>2. CASE GetUserByEmail(d, e) # {}
  <2>1. u \in DOMAIN d.users
    BY <1>2, FoundByEmail
  <2>2. TokensOnly(d, invite.db) /\ invite.err \in {"ok", "invite"}
    BY <2>1, RejectInviteStep
  <2>3. d.users[u].pw = p => u \notin Stubs(d)
    BY <2>1, Knows
  <2>4. d.users[u].pw = p => /\ TokensOnly(d, pendingTwoFactorOutcome(d, u).db)
                             /\ pendingTwoFactorOutcome(d, u).err \in {"2fa", "2fasetup"}
    BY <2>1, <2>3, PendingOutcome
  <2>5. \/ r \in {invite, R(d, "credentials"), R(d, "disabled")}
        \/ /\ d.users[u].pw = p
           /\ r \in {pendingTwoFactorOutcome(d, u), R(d, "issue"),
                     R(v.db, IF v.err = "ok" THEN "issue" ELSE v.err)}
    <3> HIDE DEF u
    <3> QED
      BY <1>2 DEF LoginWithTOTP, loginWithProvidedTOTP, u
  <2>6. CodeChecked(d, v)
    BY CodeStep
  <2> HIDE DEF r, u, v, invite
  <2>7. CASE r = R(v.db, IF v.err = "ok" THEN "issue" ELSE v.err) /\ d.users[u].pw = p
    <3>1. Outcome(d, r, {})
      BY <2>6, <2>7, StepSame DEF CodeChecked, R, Outcome, Passing
    <3>2. u \in DOMAIN r.db.users /\ u \notin Stubs(r.db)
      BY <2>1, <2>3, <2>6, <2>7 DEF CodeChecked, R, Stubs
    <3> QED
      BY <3>1, <3>2 DEF SignInOutcome, r, u
  <2>8. CASE r # R(v.db, IF v.err = "ok" THEN "issue" ELSE v.err) \/ d.users[u].pw # p
    <3>1. TokensOnly(d, r.db) /\ (r.err = "issue" => r.db = d /\ d.users[u].pw = p)
      BY <2>2, <2>4, <2>5, <2>8, StepSame DEF R
    <3>2. SignInOutcome(d, r, u)
      BY <2>1, <2>3, <3>1, TokensOutcome DEF SignInOutcome
    <3> QED
      BY <3>2 DEF r, u
  <2> QED
    BY <2>7, <2>8
<1> QED
  BY <1>1, <1>2

LEMMA ValidToken ==
  ASSUME NEW d, NEW t, NEW purpose, validateToken(d, t, purpose) = "ok"
  PROVE  t \in DOMAIN d.tokens /\ d.tokens[t].purpose = purpose
  BY DEF validateToken, GetAuthTokenByHash

LEMMA VerifyLoginTwoFactorStep ==
  ASSUME NEW d, NEW t, NEW code, Good(d)
  PROVE  SignInOutcome(d, VerifyLoginTwoFactor(d, t, code), d.tokens[t].user)
<1> DEFINE u == d.tokens[t].user
           v == verifyTwoFactorCode(d, u, code)
           r == VerifyLoginTwoFactor(d, t, code)
<1>1. \/ /\ r.db = d
         /\ r.err \in {"invalid", "used", "expired", "disabled", "failed"}
      \/ /\ validateToken(d, t, "login_2fa") = "ok"
         /\ r = IF v.err # "ok" THEN v ELSE R(MarkAuthTokenUsed(v.db, t), "issue")
  <2> HIDE DEF v, u
  <2> QED
    BY DEF VerifyLoginTwoFactor, validateToken, R, v, u
<1>2. CASE r.db = d /\ r.err \in {"invalid", "used", "expired", "disabled", "failed"}
  BY <1>2, SameOutcome DEF SignInOutcome
<1>3. CASE /\ validateToken(d, t, "login_2fa") = "ok"
           /\ r = IF v.err # "ok" THEN v ELSE R(MarkAuthTokenUsed(v.db, t), "issue")
  <2>1. u \in DOMAIN d.users /\ u \notin Stubs(d)
    BY <1>3, ValidToken DEF Good, TokensGood
  <2>2. CodeChecked(d, v)
    BY CodeStep
  <2>3. Step(d, v.db, {}) /\ Good(v.db)
    BY <2>2 DEF CodeChecked, Step
  <2> HIDE DEF v, u, r
  <2>4. TokensOnly(v.db, MarkAuthTokenUsed(v.db, t))
    BY <2>3, TokenRowStep
  <2>5. CASE v.err # "ok"
    <3>1. SignInOutcome(d, r, u)
      BY <1>3, <2>2, <2>5, SameOutcome DEF CodeChecked, SignInOutcome
    <3> QED
      BY <3>1 DEF r, u
  <2>6. CASE v.err = "ok"
    <3>1. r.db = MarkAuthTokenUsed(v.db, t) /\ r.err = "issue"
      BY <1>3, <2>6 DEF R
    <3>2. Step(d, r.db, {})
      BY <2>3, <2>4, <3>1, StepTrans DEF TokensOnly
    <3>3. r.db.users = d.users
      BY <2>2, <2>4, <3>1 DEF TokensOnly, CodeChecked
    <3>4. u \in DOMAIN r.db.users /\ u \notin Stubs(r.db)
      BY <2>1, <3>3 DEF Stubs
    <3>5. SignInOutcome(d, r, u)
      BY <3>1, <3>2, <3>4, MadeOutcome DEF SignInOutcome, Passing
    <3> QED
      BY <3>5 DEF r, u
  <2> QED
    BY <2>5, <2>6
<1> QED
  BY <1>1, <1>2, <1>3

LEMMA ConfirmSetupStep ==
  ASSUME NEW d, NEW u, NEW code, Good(d)
  PROVE  LET c == ConfirmTwoFactorSetup(d, u, code)
         IN  /\ Step(d, c.db, {}) /\ c.db.users = d.users
             /\ c.err \in {"ok", "notconfigured", "code", "failed"} /\ (c.err \notin {"ok", "failed"} => c.db = d)
<1>1. Step(d, EnableUserTOTP(d, u).db, {}) /\ EnableUserTOTP(d, u).err \in {"ok", "failed"}
  BY SaveTOTPStep DEF EnableUserTOTP
<1>2. EnableUserTOTP(d, u).db.users = d.users
  BY DEF EnableUserTOTP, SaveTOTP, R, Good, Tables
<1> QED
  BY <1>1, <1>2, StepSame DEF ConfirmTwoFactorSetup, R

LEMMA CompleteSetupStep ==
  ASSUME NEW d, NEW t, NEW code, Good(d)
  PROVE  SignInOutcome(d, CompletePendingTwoFactorSetup(d, t, code), d.tokens[t].user)
<1> DEFINE u == d.tokens[t].user
           c == ConfirmTwoFactorSetup(d, u, code)
           r == CompletePendingTwoFactorSetup(d, t, code)
<1>1. CASE validateToken(d, t, "login_2fa") # "ok"
  <2>1. validateToken(d, t, "login_2fa") # "issue"
    BY DEF validateToken
  <2> QED
    BY <1>1, <2>1, SameOutcome DEF SignInOutcome, CompletePendingTwoFactorSetup, R
<1>2. CASE validateToken(d, t, "login_2fa") = "ok"
  <2>1. u \in DOMAIN d.users /\ u \notin Stubs(d)
    BY <1>2, ValidToken DEF Good, TokensGood
  <2>2. /\ Step(d, c.db, {}) /\ c.db.users = d.users
        /\ c.err \in {"ok", "notconfigured", "code", "failed"} /\ (c.err \notin {"ok", "failed"} => c.db = d)
    BY ConfirmSetupStep
  <2>3. r = IF c.err # "ok" THEN c ELSE R(MarkAuthTokenUsed(c.db, t), "issue")
    BY <1>2 DEF CompletePendingTwoFactorSetup
  <2> HIDE DEF c, u, r
  <2>4. Good(c.db)
    BY <2>2 DEF Step
  <2>5. TokensOnly(c.db, MarkAuthTokenUsed(c.db, t))
    BY <2>4, TokenRowStep
  <2>6. CASE c.err # "ok"
    <3>1. SignInOutcome(d, r, u)
      BY <2>2, <2>3, <2>6, SameOutcome, MadeOutcome DEF SignInOutcome, Passing
    <3> QED
      BY <3>1 DEF r, u
  <2>7. CASE c.err = "ok"
    <3>1. r.db = MarkAuthTokenUsed(c.db, t) /\ r.err = "issue"
      BY <2>3, <2>7 DEF R
    <3>2. Step(d, r.db, {}) /\ r.db.users = d.users
      BY <2>2, <2>5, <3>1, StepTrans DEF TokensOnly
    <3>3. u \in DOMAIN r.db.users /\ u \notin Stubs(r.db)
      BY <2>1, <3>2 DEF Stubs
    <3>4. SignInOutcome(d, r, u)
      BY <3>1, <3>2, <3>3, MadeOutcome DEF SignInOutcome, Passing
    <3> QED
      BY <3>4 DEF r, u
  <2> QED
    BY <2>6, <2>7
<1> QED
  BY <1>1, <1>2
LEMMA TwoFactorCallsStep ==
  ASSUME NEW d, NEW u, Good(d)
  PROVE  /\ Outcome(d, StartTwoFactorSetup(d, u), {})
         /\ \A code : Outcome(d, ConfirmTwoFactorSetup(d, u, code), {})
         /\ \A p, code : Outcome(d, DisableTwoFactor(d, u, p, code), {})
         /\ Outcome(d, AdminResetTwoFactor(d, u), {})
<1>1. Outcome(d, StartTwoFactorSetup(d, u), {})
  <2>1. /\ Step(d, SavePendingTOTPSecret(d, u).db, {})
        /\ SavePendingTOTPSecret(d, u).err \in {"ok", "failed"}
    BY SaveTOTPStep DEF SavePendingTOTPSecret
  <2> QED
    BY <2>1, SameOutcome, MadeOutcome DEF StartTwoFactorSetup, R, Passing
<1>2. \A code : Outcome(d, ConfirmTwoFactorSetup(d, u, code), {})
  BY ConfirmSetupStep, StepSame DEF Outcome, Passing
<1>3. ASSUME NEW p, NEW code PROVE Outcome(d, DisableTwoFactor(d, u, p, code), {})
  <2> DEFINE v == verifyTwoFactorCode(d, u, code)
             r == DisableTwoFactor(d, u, p, code)
  <2>1. CodeChecked(d, v)
    BY CodeStep
  <2>2. \/ r.db = d
        \/ v.err = "ok" /\ r = R(DeleteUserTOTP(v.db, u), "ok")
        \/ v.err # "ok" /\ r = v
    BY DEF DisableTwoFactor, R
  <2> HIDE DEF v, r
  <2>3. Good(v.db)
    BY <2>1 DEF CodeChecked, Step
  <2>4. Step(d, DeleteUserTOTP(v.db, u), {})
    BY <2>1, <2>3, TotpStep, StepTrans DEF CodeChecked
  <2>5. Outcome(d, r, {})
    BY <2>1, <2>2, <2>4, SameOutcome, MadeOutcome DEF R, Passing, CodeChecked
  <2> QED
    BY <2>5 DEF r
<1>4. Outcome(d, AdminResetTwoFactor(d, u), {})
  <2> DEFINE x == DeleteUserTOTP(d, u)
  <2>1. Step(d, x, {}) /\ Good(x)
    BY TotpStep DEF Step
  <2> HIDE DEF x
  <2>2. Step(d, DeleteAllSessionsByUserID(x, u), {})
    BY <2>1, DeleteSessionStep, StepTrans
  <2> QED
    BY <2>2, MadeOutcome DEF AdminResetTwoFactor, R, Passing, x
<1> QED
  BY <1>1, <1>2, <1>3, <1>4

LEMMA RevokeInviteStep ==
  ASSUME NEW d, NEW t, Good(d) PROVE Outcome(d, RevokeInvite(d, t), {})
  BY SameOutcome, TokenRowStep, TokensOutcome DEF RevokeInvite, R

LEMMA RequestPasswordResetStep ==
  ASSUME NEW d, NEW e \in Emails, NEW mail, Good(d), Rows(d)
  PROVE  TokensOnly(d, RequestPasswordReset(d, e, mail).db)
<1> DEFINE u == Only(GetUserByEmail(d, e))
           x == InvalidateUnusedTokens(d, e, "reset_password")
           c == CreateAuthToken(x, u, e, "reset_password", None)
<1>1. CASE GetUserByEmail(d, e) = {}
  BY <1>1, StepSame DEF RequestPasswordReset, R
<1>2. CASE GetUserByEmail(d, e) # {}
  <2>1. TokensOnly(d, ensureConfirmEmailSent(d, u, mail))
    BY <1>2, FoundByEmail, EnsureConfirmStep
  <2>2. RequestPasswordReset(d, e, mail).db \in {ensureConfirmEmailSent(d, u, mail), c.db}
    <3> HIDE DEF u, c
    <3> QED
      BY <1>2 DEF RequestPasswordReset, Send, R, u, c
  <2>3. TokensOnly(d, x) /\ Good(x)
    BY TokenRowStep DEF TokensOnly, Step
  <2> HIDE DEF x, u
  <2>4. TokensOnly(d, c.db)
    BY <2>3, CreateAuthTokenStep, TokensOnlyTrans DEF Purposes
  <2> QED
    BY <2>1, <2>2, <2>4
<1> QED
  BY <1>1, <1>2

\* Changing a password ends the sessions, and leaves an account that is no stub.
LEMMA NewPasswordStep ==
  ASSUME NEW d, NEW u, NEW p \in Passwords, Good(d)
  PROVE  LET e == DeleteAllSessionsByUserID(UpdatePasswordHash(d, u, p), u)
         IN  /\ Step(d, e, {}) /\ DOMAIN e.users = DOMAIN d.users /\ DOMAIN e.tokens = DOMAIN d.tokens
             /\ u \notin Stubs(e)
<1> DEFINE x == UpdatePasswordHash(d, u, p)
           e == DeleteAllSessionsByUserID(x, u)
<1>1. Step(d, x, {}) /\ Good(x)
  BY RowStep DEF Step
<1>2. DOMAIN x.users = DOMAIN d.users /\ x.tokens = d.tokens
  BY DEF UpdatePasswordHash, Patch, Good, Tables
<1>3. u \in DOMAIN d.users => x.users[u].pw = p
  <2>1. u \in DOMAIN d.users => [d.users[u] EXCEPT !.pw = p, !.must = FALSE].pw = p
    BY DEF Good, UsersGood, Row
  <2> QED
    BY <2>1 DEF UpdatePasswordHash, Patch, Good, Tables
<1> HIDE DEF x
<1>4. Step(d, e, {})
  BY <1>1, DeleteSessionStep, StepTrans
<1>5. e.users = x.users /\ e.tokens = x.tokens
  BY <1>1, DeleteSessionsStep DEF DeleteAllSessionsByUserID
<1>6. u \notin Stubs(e)
  BY <1>2, <1>3, <1>5, AccountBounds DEF Stubs
<1> QED
  BY <1>2, <1>4, <1>5, <1>6 DEF x

LEMMA ResetPasswordApplyStep ==
  ASSUME NEW d, NEW t, NEW u, NEW p \in Passwords, Good(d)
  PROVE  LET e == ResetPasswordApply(d, t, u, p)
         IN  Step(d, e, {}) /\ DOMAIN e.users = DOMAIN d.users /\ DOMAIN e.tokens = DOMAIN d.tokens
<1> DEFINE x == MarkAuthTokenUsed(d, t)
<1>1. TokensOnly(d, x) /\ Good(x)
  BY TokenRowStep DEF TokensOnly, Step
<1>2. DOMAIN x.tokens = DOMAIN d.tokens
  BY DEF MarkAuthTokenUsed, Good, Tables
<1> HIDE DEF x
<1> DEFINE e == DeleteAllSessionsByUserID(UpdatePasswordHash(x, u, p), u)
<1>3. Step(x, e, {}) /\ DOMAIN e.users = DOMAIN x.users /\ DOMAIN e.tokens = DOMAIN x.tokens
  BY <1>1, NewPasswordStep
<1>4. ResetPasswordApply(d, t, u, p) = e
  BY DEF ResetPasswordApply, x
<1> HIDE DEF e
<1> QED
  BY <1>1, <1>2, <1>3, <1>4, StepTrans DEF TokensOnly

LEMMA ChangePasswordStep ==
  ASSUME NEW d, NEW u, NEW current, NEW p \in Passwords, NEW code, Good(d)
  PROVE  SignInOutcome(d, ChangePassword(d, u, current, p, code), u)
<1> DEFINE v == IF UserHasTOTP(d, u) THEN requireUserTOTP(d, u, code) ELSE R(d, "ok")
           e == DeleteAllSessionsByUserID(UpdatePasswordHash(v.db, u, p), u)
           r == ChangePassword(d, u, current, p, code)
<1>1. CodeChecked(d, v)
  BY CodeStep, StepSame DEF CodeChecked, R
<1>2. \/ r.db = d /\ r.err \in {"credentials", "unchanged"}
      \/ v.err # "ok" /\ r = v
      \/ u \in DOMAIN d.users /\ v.err = "ok" /\ r = R(e, "issue")
  <2> HIDE DEF v, e
  <2> QED
    BY DEF ChangePassword, R, GetUserByID, v, e
<1> HIDE DEF v, r
<1>3. Good(v.db)
  BY <1>1 DEF CodeChecked, Step
<1>4. Step(v.db, e, {}) /\ DOMAIN e.users = DOMAIN v.db.users /\ u \notin Stubs(e)
  BY <1>3, NewPasswordStep
<1> HIDE DEF e
<1>5. Step(d, e, {}) /\ DOMAIN e.users = DOMAIN d.users
  BY <1>1, <1>4, StepTrans DEF CodeChecked
<1>6. CASE r.db = d /\ r.err # "issue"
  <2>1. SignInOutcome(d, r, u)
    BY <1>6, SameOutcome DEF SignInOutcome
  <2> QED
    BY <2>1 DEF r
<1>7. CASE u \in DOMAIN d.users /\ r = R(e, "issue")
  <2>1. SignInOutcome(d, r, u)
    BY <1>4, <1>5, <1>7, MadeOutcome DEF SignInOutcome, R, Passing
  <2> QED
    BY <2>1 DEF r
<1> QED
  BY <1>1, <1>2, <1>6, <1>7 DEF CodeChecked

LEMMA RequestChangeEmailStep ==
  ASSUME NEW d, NEW u, NEW e \in Emails, NEW p, NEW code, NEW mail, Good(d)
  PROVE  Outcome(d, RequestChangeEmail(d, u, e, p, code, mail), {})
<1> DEFINE v == IF UserHasTOTP(d, u) THEN requireUserTOTP(d, u, code) ELSE R(d, "ok")
           old == d.users[u].email
           x == InvalidateUnusedTokens(v.db, old, "change_email")
           y == InvalidateUnusedTokens(x, e, "change_email")
           z == InvalidateUnusedTokens(y, old, "confirm_email")
           w == ClearEmailVerified(z, u)
           f == issueChangeEmailToken(w, u, e, mail)
           r == RequestChangeEmail(d, u, e, p, code, mail)
<1>1. CodeChecked(d, v)
  BY CodeStep, StepSame DEF CodeChecked, R
<1>2. r.db = d \/ r = f
  <2>1. r.db = d \/ (v.err # "ok" /\ r = v) \/ r = f
    <3> HIDE DEF v, f
    <3> QED
      BY DEF RequestChangeEmail, R, v, f, x, y, z, w
  <2> HIDE DEF v, f, r
  <2> QED
    BY <1>1, <2>1 DEF CodeChecked
<1> HIDE DEF v, r
<1>3. Step(d, v.db, {}) /\ Good(v.db)
  BY <1>1 DEF CodeChecked, Step
<1>4. Step(v.db, x, {}) /\ Good(x)
  BY <1>3, TokenRowStep DEF TokensOnly, Step
<1> HIDE DEF x
<1>5. Step(x, y, {}) /\ Good(y)
  BY <1>4, TokenRowStep DEF TokensOnly, Step
<1> HIDE DEF y
<1>6. Step(y, z, {}) /\ Good(z)
  BY <1>5, TokenRowStep DEF TokensOnly, Step
<1> HIDE DEF z
<1>7. Step(z, w, {}) /\ Good(w)
  BY <1>6, RowStep DEF Step
<1> HIDE DEF w
<1>8. Step(w, f.db, {}) /\ f.err \in {"ok", "failed"}
  BY <1>7, MailStep DEF TokensOnly
<1> HIDE DEF f
<1>9. Step(d, f.db, {})
  <2>1. Step(d, x, {})
    BY <1>3, <1>4, StepTrans
  <2>2. Step(d, y, {})
    BY <2>1, <1>5, StepTrans
  <2>3. Step(d, z, {})
    BY <2>2, <1>6, StepTrans
  <2>4. Step(d, w, {})
    BY <2>3, <1>7, StepTrans
  <2> QED
    BY <2>4, <1>8, StepTrans
<1>10. Outcome(d, r, {})
  BY <1>2, <1>8, <1>9, SameOutcome, MadeOutcome DEF Passing
<1> QED
  BY <1>10 DEF r
\* A token that is spent or refused; the address moves unless it has been taken.
LEMMA ConfirmEmailPurposeStep ==
  ASSUME NEW d, NEW t, NEW purpose, Good(d)
  PROVE  LET r == confirmEmailPurpose(d, t, purpose)
         IN  /\ Step(d, r.db, {})
             /\ r.err \in {"ok", "failed", "invalid", "used", "expired"}
             /\ r.err \notin {"ok", "failed"} => r.db = d
<1> DEFINE c == consumeToken(d, t, purpose)
           k == d.tokens[t]
           moved == IF purpose # "change_email" THEN R(c.db, "ok")
                    ELSE UpdateUserEmail(c.db, k.user, k.email, FALSE)
           x == IF purpose = "change_email"
                THEN InvalidateUnusedTokens(moved.db, k.email, purpose) ELSE moved.db
           r == confirmEmailPurpose(d, t, purpose)
<1>1. r = IF c.err # "ok" THEN c ELSE IF moved.err # "ok" THEN moved ELSE R(EnableUser(x, k.user), "ok")
  BY DEF confirmEmailPurpose
<1>2. CASE validateToken(d, t, purpose) # "ok"
  <2>1. c.err = validateToken(d, t, purpose) /\ c.db = d
    BY <1>2 DEF consumeToken, R
  <2>2. validateToken(d, t, purpose) \in {"ok", "invalid", "used", "expired"}
    BY DEF validateToken
  <2>3. r = c
    BY <1>1, <1>2, <2>1
  <2> HIDE DEF c, r
  <2>4. r.db = d /\ r.err \in {"invalid", "used", "expired"}
    BY <1>2, <2>1, <2>2, <2>3
  <2> QED
    BY <2>4, StepSame DEF r
<1>3. CASE validateToken(d, t, purpose) = "ok"
  <2>1. c = R(MarkAuthTokenUsed(d, t), "ok")
    BY <1>3 DEF consumeToken
  <2>2. k.email \in Emails
    BY <1>3, ValidToken DEF Good, TokensGood, Token
  <2> HIDE DEF c, k
  <2>3. Step(d, c.db, {}) /\ Good(c.db) /\ c.err = "ok"
    BY <2>1, TokenRowStep DEF TokensOnly, Step, R
  <2>4. Step(c.db, moved.db, {}) /\ Good(moved.db) /\ moved.err \in {"ok", "failed"}
    BY <2>2, <2>3, UpdateUserEmailStep, StepSame DEF Step, R
  <2> HIDE DEF moved
  <2>5. Step(d, moved.db, {})
    BY <2>3, <2>4, StepTrans
  <2>6. Step(moved.db, x, {}) /\ Good(x)
    BY <2>4, TokenRowStep, StepSame DEF TokensOnly, Step
  <2> HIDE DEF x
  <2>7. Step(x, EnableUser(x, k.user), {})
    BY <2>6, RowStep
  <2>8. Step(d, EnableUser(x, k.user), {})
    BY <2>5, <2>6, <2>7, StepTrans
  <2>9. r = IF moved.err # "ok" THEN moved ELSE R(EnableUser(x, k.user), "ok")
    BY <1>1, <2>3
  <2> HIDE DEF r
  <2>10. Step(d, r.db, {}) /\ r.err \in {"ok", "failed"}
    BY <2>4, <2>5, <2>8, <2>9 DEF R
  <2> QED
    BY <2>10 DEF r
<1> QED
  BY <1>2, <1>3

LEMMA FailedOutcome ==
  ASSUME NEW d, NEW r, Good(d), Step(d, r.db, {}), r.err \notin {"ok", "failed"} => r.db = d
  PROVE  Outcome(d, r, {}) /\ Outcome(d, R(r.db, "ok"), {})
<1>1. Outcome(d, r, {})
  BY SameOutcome DEF Outcome, Passing
<1>2. R(r.db, "ok").db = r.db /\ R(r.db, "ok").err = "ok"
  BY DEF R
<1> QED
  BY <1>1, <1>2 DEF Outcome, Passing

LEMMA ConfirmEmailStep ==
  ASSUME NEW d, NEW t, Good(d) PROVE Outcome(d, ConfirmEmail(d, t), {})
<1> DEFINE first == confirmEmailPurpose(d, t, "confirm_email")
           second == confirmEmailPurpose(d, t, "change_email")
<1>1. Outcome(d, first, {}) /\ Outcome(d, R(first.db, "ok"), {})
  <2>1. Step(d, first.db, {}) /\ (first.err \notin {"ok", "failed"} => first.db = d)
    BY ConfirmEmailPurposeStep
  <2> HIDE DEF first
  <2> QED
    BY <2>1, FailedOutcome
<1>2. Outcome(d, second, {}) /\ Outcome(d, R(second.db, "ok"), {})
  <2>1. Step(d, second.db, {}) /\ (second.err \notin {"ok", "failed"} => second.db = d)
    BY ConfirmEmailPurposeStep
  <2> HIDE DEF second
  <2> QED
    BY <2>1, FailedOutcome
<1>3. ConfirmEmail(d, t) \in {first, second, R(first.db, "ok"), R(second.db, "ok")}
  <2> HIDE DEF first, second
  <2> QED
    BY DEF ConfirmEmail, first, second
<1> HIDE DEF first, second
<1> QED
  BY <1>1, <1>2, <1>3

LEMMA ResendConfirmEmailStep ==
  ASSUME NEW d, NEW u, NEW mail, Good(d), Rows(d)
  PROVE  Outcome(d, ResendConfirmEmail(d, u, mail), {})
<1> DEFINE e == d.users[u].email
           pending == ListPendingInvites(d, e)
           change == GetUnusedAuthTokenByUser(d, u, "change_email")
           t == Newest(pending)
           c == d.tokens[Newest(change)].email
           x == InvalidateUnusedTokens(d, e, "confirm_email")
           r == ResendConfirmEmail(d, u, mail)
<1>1. CASE u \notin DOMAIN d.users
  BY <1>1, SameOutcome DEF ResendConfirmEmail, R, GetUserByID
<1>2. CASE u \in DOMAIN d.users
  <2>1. e \in Emails /\ u \in Nat
    BY <1>2 DEF Good, UsersGood, Row
  <2>2. pending # {} => t \in DOMAIN d.tokens /\ GetUserByEmail(d, d.tokens[t].email) # {}
    <3>1. pending \in SUBSET (1 .. MaxTokens)
      BY DEF ListPendingInvites, Rows
    <3>2. pending # {} => t \in pending
      BY <3>1, NewestIn
    <3> QED
      BY <1>2, <3>2 DEF ListPendingInvites, GetUserByEmail
  <2>3. change # {} => c \in Emails
    <3>1. change \in SUBSET (1 .. MaxTokens)
      BY DEF GetUnusedAuthTokenByUser, Rows
    <3>2. change # {} => Newest(change) \in change
      BY <3>1, NewestIn
    <3> QED
      BY <3>2 DEF GetUnusedAuthTokenByUser, Good, TokensGood, Token
  <2>4. \/ pending # {} /\ r = ResendInvite(d, u, t, mail)
        \/ change # {} /\ r = resendChangeEmailToken(d, u, c, mail)
        \/ r = R(d, "unavailable")
        \/ r = sendConfirmEmail(x, u, e, mail)
    BY <1>2 DEF ResendConfirmEmail, GetUserByID
  <2>5. TokensOnly(d, x) /\ Good(x)
    BY TokenRowStep DEF TokensOnly, Step
  <2> HIDE DEF e, pending, change, t, c, x, r
  <2>6. pending # {} => TokensOnly(d, ResendInvite(d, u, t, mail).db)
    BY <2>1, <2>2, ResendInviteStep DEF Fresh
  <2>7. change # {} => TokensOnly(d, resendChangeEmailToken(d, u, c, mail).db)
    BY <2>3, MailStep
  <2>8. TokensOnly(d, sendConfirmEmail(x, u, e, mail).db)
    BY <2>1, <2>5, MailStep, TokensOnlyTrans
  <2>9. Outcome(d, r, {})
    BY <2>4, <2>6, <2>7, <2>8, TokensOutcome, SameOutcome DEF R
  <2> QED
    BY <2>9 DEF r
<1> QED
  BY <1>1, <1>2

LEMMA CreateAccountStep ==
  ASSUME NEW d, NEW u \in Nat, NEW e \in Emails, NEW role \in Roles, NEW p \in Passwords, NEW N, Good(d),
         Fresh(d, e, u, N)
  PROVE  Outcome(d, CreateAccount(d, u, e, role, p), N)
<1> DEFINE row == [email |-> e, role |-> role, on |-> TRUE, ver |-> FALSE, pw |-> p, must |-> TRUE]
           c == CreateUser(d, u, row)
           r == CreateAccount(d, u, e, role, p)
<1>1. CASE GetUserByEmail(d, e) # {}
  BY <1>1, SameOutcome DEF CreateAccount, R
<1>2. CASE GetUserByEmail(d, e) = {}
  <2>1. row \in Row /\ row.email = e
    BY DEF Row
  <2>2. r = R(EnableUser(c.db, u), c.err)
    BY <1>2 DEF CreateAccount
  <2> HIDE DEF row
  <2>3. Step(d, c.db, N) /\ c.err \in {"ok", "failed"} /\ Good(c.db)
    BY <1>2, <2>1, CreateUserStep DEF Fresh, Step
  <2> HIDE DEF c, r
  <2>4. Step(d, EnableUser(c.db, u), N)
    <3>1. Step(c.db, EnableUser(c.db, u), {})
      BY <2>3, RowStep
    <3> QED
      BY <2>3, <3>1, StepMore, StepTrans
  <2>5. Outcome(d, r, N)
    BY <2>2, <2>3, <2>4, MadeOutcome DEF R, Passing
  <2> QED
    BY <2>5 DEF r
<1> QED
  BY <1>1, <1>2

LEMMA AdminChangeEmailStep ==
  ASSUME NEW d, NEW u, NEW old, NEW e \in Emails \cup {"keep"}, NEW mail, Good(d)
  PROVE  Step(d, adminChangeEmail(d, u, old, e, mail).db, {})
<1> DEFINE moved == UpdateUserEmail(d, u, e, TRUE)
           clean == InvalidateTokens(moved.db, {old, e}, {"invite", "confirm_email", "change_email"})
           r == adminChangeEmail(d, u, old, e, mail)
<1>1. CASE e = "keep" \/ r.db = d
  <2>1. r.db = d
    BY <1>1 DEF adminChangeEmail, R
  <2> QED
    BY <2>1, StepSame
<1>2. CASE e # "keep" /\ r.db # d
  <2>1. e \in Emails
    BY <1>2
  <2>2. r = sendConfirmEmail(clean, u, e, mail)
    <3> HIDE DEF clean
    <3> QED
      BY <1>2 DEF adminChangeEmail, R, clean
  <2>3. Step(d, moved.db, {}) /\ Good(moved.db)
    BY <2>1, UpdateUserEmailStep DEF Step
  <2> HIDE DEF moved, r
  <2>4. Step(moved.db, clean, {}) /\ Good(clean)
    BY <2>3, TokenRowStep DEF TokensOnly, Step
  <2> HIDE DEF clean
  <2>5. Step(clean, sendConfirmEmail(clean, u, e, mail).db, {})
    BY <2>1, <2>4, MailStep DEF TokensOnly
  <2>6. Step(d, r.db, {})
    BY <2>2, <2>3, <2>4, <2>5, StepTrans
  <2> QED
    BY <2>6 DEF r
<1> QED
  BY <1>1, <1>2

\* After its guard UpdateUser may fail half way; every half is a step.
LEMMA UpdateUserStep ==
  ASSUME NEW d, NEW u, NEW old, NEW patch, NEW mail, Good(d),
         patch.email \in Emails \cup {"keep"}, patch.on \in {"keep", "on", "off"}
  PROVE  Step(d, UpdateUser(d, u, old, patch, mail).db, {})
<1> DEFINE moved == adminChangeEmail(d, u, old, patch.email, mail)
           flagged == applyEnabledPatch(moved.db, u, patch.on)
           demoted == SetRole(flagged, u, patch.role)
           r == UpdateUser(d, u, old, patch, mail)
<1>1. Step(d, moved.db, {}) /\ Good(moved.db)
  BY AdminChangeEmailStep DEF Step
<1>2. \/ r.db \in {moved.db, flagged}
      \/ patch.role \in Roles /\ r.db \in {demoted, DeleteAllSessionsByUserID(demoted, u)}
  <2> HIDE DEF moved, flagged, demoted
  <2> QED
    BY DEF UpdateUser, R, moved, flagged, demoted
<1> HIDE DEF moved, r
<1>3. Step(moved.db, flagged, {})
  <2>1. CASE patch.on = "keep"
    <3>1. flagged = moved.db
      BY <2>1 DEF applyEnabledPatch
    <3> QED
      BY <1>1, <3>1, StepSame
  <2>2. CASE patch.on = "on"
    <3>1. flagged = EnableUser(moved.db, u)
      BY <2>2 DEF applyEnabledPatch
    <3> QED
      BY <1>1, <3>1, RowStep
  <2>3. CASE patch.on = "off"
    <3> DEFINE x == DeleteAllSessionsByUserID(moved.db, u)
    <3>1. flagged = SetEnabled(x, u)
      BY <2>3 DEF applyEnabledPatch
    <3>2. Step(moved.db, x, {}) /\ Good(x)
      BY <1>1, DeleteSessionStep DEF Step
    <3> HIDE DEF x
    <3>3. Step(x, SetEnabled(x, u), {})
      BY <3>2, RowStep
    <3> QED
      BY <3>1, <3>2, <3>3, StepTrans
  <2> QED
    BY <2>1, <2>2, <2>3
<1>4. Step(d, flagged, {}) /\ Good(flagged)
  BY <1>1, <1>3, StepTrans DEF Step
<1> HIDE DEF flagged
<1>5. patch.role \in Roles => Step(flagged, demoted, {}) /\ Good(demoted)
  BY <1>4, RowStep DEF Step
<1> HIDE DEF demoted
<1>6. patch.role \in Roles => Step(demoted, DeleteAllSessionsByUserID(demoted, u), {})
  BY <1>5, DeleteSessionStep
<1>7. Step(d, r.db, {})
  BY <1>1, <1>2, <1>4, <1>5, <1>6, StepTrans
<1> QED
  BY <1>7 DEF r

LEMMA DeleteAccountStep ==
  ASSUME NEW d, NEW u, Good(d) PROVE Outcome(d, DeleteAccount(d, u), {})
  BY SameOutcome, MadeOutcome, DeleteUserStep DEF DeleteAccount, R, Passing

(* Sessions and refresh tokens *)

LEMMA RevokeSessionStep ==
  ASSUME NEW d, NEW u, NEW s, Good(d) PROVE Outcome(d, RevokeUserSession(d, u, s), {})
  BY SameOutcome, MadeOutcome, DeleteSessionStep DEF RevokeUserSession, R, Passing

LEMMA ValidateRefreshStep ==
  ASSUME NEW d, NEW s, NEW g, Good(d) PROVE Outcome(d, ValidateRefresh(d, s, g), {})
<1> DEFINE e == DeleteSessionByTokenHash(d, s, g)
<1>1. /\ Step(d, e, {}) /\ e.users = d.users /\ e.totp = d.totp
      /\ DOMAIN e.sessions = DOMAIN d.sessions \ GetSessionByTokenHash(d, s, g)
  BY DeleteSessionStep
<1> HIDE DEF e
<1>2. d.sessions[s].exp => Kept(d, e)
  BY <1>1 DEF Kept, GetSessionByTokenHash
<1> QED
  BY <1>1, <1>2, StepSame DEF ValidateRefresh, R, Outcome, e

LEMMA SetRefreshStep ==
  ASSUME NEW d, NEW s, NEW u, NEW g \in Nat, Good(d), u \notin Stubs(d)
  PROVE  LET r == SetRefresh(d, s, u, g)
         IN  /\ Good(r.db) /\ r.db.users = d.users /\ r.db.tokens = d.tokens
             /\ DOMAIN r.db.sessions \subseteq DOMAIN d.sessions \cup {s}
  BY CreateSessionStep, UpdateSessionStep DEF SetRefresh, R
-----------------------------------------------------------------------------
(* The handlers *)

\* The calls past their checks: a sign-in of an account that is no stub.
Issue  == [op : {"issue"}, user : UserIds, role : Roles]
Rotate == [op : {"rotate"}, user : UserIds, role : Roles, sid : Sessions, gen : 0 .. MaxGen - 1]
Reset  == [op : {"reset"}, user : UserIds, token : Nat, pw : Passwords]
Update == [op : {"update"}, user : UserIds, patch : Patches, old : Emails]

FlightGood ==
    /\ flight \subseteq Issue \cup Rotate \cup Reset \cup Update
    /\ \A f \in flight : f.op \in {"issue", "rotate"} => f.user \notin Stubs(db)

Answers == {"none", "ok", "refused", "failed"}

IndInv ==
    /\ Good(db) /\ InBounds(db)
    /\ DOMAIN db.sessions \subseteq Sessions
    /\ FlightGood
    /\ access \subseteq Claims
    /\ answer \in Answers
\* What every handler does: it keeps the invariant, and a refusal leaves the account alone.
Ends == IndInv' /\ (answer' = "refused" /\ flight' = flight => Kept(db, db'))

InFlightUsers == {f.user : f \in flight}

LEMMA FlightKept ==
  ASSUME IndInv, NEW N, Stubs(db') \subseteq Stubs(db) \cup N, N \cap InFlightUsers = {}, flight' \subseteq flight
  PROVE  FlightGood'
  BY DEF IndInv, FlightGood, InFlightUsers

\* The classes of answers; a refusal is an error that the handler's table names.
LEMMA Answered ==
  ASSUME NEW table, NEW err
  PROVE  /\ Class(Status(table, err)) \in Answers
         /\ /\ Class(Status(table, err)) = "refused"
            /\ "failed" \notin DOMAIN table /\ "issue" \notin DOMAIN table
            => err \notin Passing
<1>1. Class(Status(table, err)) \in Answers
  BY DEF Class, Answers
<1>2. err \in {"ok", "2fa", "2fasetup"} => Status(table, err) = 200
  BY DEF Status
<1>3. err \in {"failed", "issue"} /\ err \notin DOMAIN table => Status(table, err) = 500
  BY DEF Status
<1>4. Class(200) = "ok" /\ Class(500) = "failed"
  BY DEF Class
<1> QED
  BY <1>1, <1>2, <1>3, <1>4 DEF Passing

LEMMA ReplyEnds ==
  ASSUME IndInv, NEW r, NEW table, NEW N, Reply(r, table), Outcome(db, r, N), N \cap InFlightUsers = {},
         "failed" \notin DOMAIN table, "issue" \notin DOMAIN table
  PROVE  Ends
<1>1. Good(db') /\ InBounds(db') /\ DOMAIN db'.sessions \subseteq Sessions /\ access' \subseteq Claims
  BY DEF Reply, Outcome, Step, IndInv
<1>2. FlightGood'
  BY FlightKept DEF Reply, Outcome, Step
<1>3. answer' \in Answers
  BY Answered DEF Reply
<1>4. answer' = "refused" => Kept(db, db')
  BY Answered DEF Reply, Outcome
<1> QED
  BY <1>1, <1>2, <1>3, <1>4 DEF Ends, IndInv

LEMMA SuspendEnds ==
  ASSUME IndInv, NEW d, NEW rec \in Issue \cup Rotate \cup Reset \cup Update, Suspend(d, rec),
         Step(db, d, {}), rec.op \in {"issue", "rotate"} => rec.user \notin Stubs(d)
  PROVE  Ends
<1>1. Good(db') /\ InBounds(db') /\ DOMAIN db'.sessions \subseteq Sessions /\ access' \subseteq Claims
  BY DEF Suspend, Step, IndInv
<1>2. FlightGood'
  BY DEF Suspend, Step, IndInv, FlightGood
<1>3. flight' # flight /\ answer' \in Answers
  BY DEF Suspend, IndInv
<1> QED
  BY <1>1, <1>2, <1>3 DEF Ends, IndInv

LEMMA SignInEnds ==
  ASSUME IndInv, NEW r, NEW u, NEW table, SignIn(r, u, table), SignInOutcome(db, r, u),
         "failed" \notin DOMAIN table, "issue" \notin DOMAIN table
  PROVE  Ends
<1>1. CASE Reply(r, table)
  BY <1>1, ReplyEnds DEF SignInOutcome
<1>2. CASE r.err = "issue" /\ Suspend(r.db, [op |-> "issue", user |-> u, role |-> r.db.users[u].role])
  <2> DEFINE rec == [op |-> "issue", user |-> u, role |-> r.db.users[u].role]
  <2>1. u \in DOMAIN r.db.users /\ u \notin Stubs(r.db) /\ Step(db, r.db, {}) /\ InBounds(r.db)
    BY <1>2 DEF SignInOutcome, Outcome, Suspend
  <2>2. rec \in Issue
    BY <2>1 DEF Issue, InBounds, Step, Good, UsersGood, Row
  <2> QED
    BY <1>2, <2>1, <2>2, SuspendEnds
<1> QED
  BY <1>1, <1>2 DEF SignIn

LEMMA NewUserFresh ==
  ASSUME IndInv
  PROVE  NewUser \in Nat /\ NewUser \notin DOMAIN db.users /\ {NewUser} \cap InFlightUsers = {}
<1> DEFINE free == UserIds \ (DOMAIN db.users \cup {f.user : f \in flight})
<1>1. CASE free = {}
  <2>1. NewUser = 0 /\ 0 \notin UserIds
    BY <1>1, AccountBounds DEF NewUser
  <2>2. InFlightUsers \subseteq UserIds
    BY DEF InFlightUsers, IndInv, FlightGood, Issue, Rotate, Reset, Update
  <2> QED
    BY <2>1, <2>2 DEF IndInv, InBounds
<1>2. CASE free # {}
  <2>1. NewUser \in free
    BY <1>2 DEF NewUser, Only
  <2> QED
    BY <2>1, AccountBounds DEF InFlightUsers
<1> QED
  BY <1>1, <1>2

LEMMA CallerFacts ==
  ASSUME IndInv, NEW a \in Callers
  PROVE  a.user \in DOMAIN db.users /\ a.user \notin Stubs(db)
  BY DEF Callers, Authorized, IndInv, Good, SessionsGood

LEMMA InvFacts ==
  ASSUME IndInv PROVE Good(db) /\ Rows(db) /\ InFlightUsers \cap {} = {}
  BY DEF IndInv, InBounds, Rows

\* Signing in with a password
LEMMA LoginEnds ==
  ASSUME IndInv, NEW e \in Emails, NEW p \in Passwords, NEW mail, login(e, p, mail)
  PROVE  Ends
<1>1. SignInOutcome(db, Login(db, e, p, mail), Who(e))
  <2>1. SignInOutcome(db, Login(db, e, p, mail), Only(GetUserByEmail(db, e)))
    BY InvFacts, LoginStep
  <2>2. GetUserByEmail(db, e) = {} => Login(db, e, p, mail).err # "issue"
    BY DEF Login, R
  <2> QED
    BY <2>1, <2>2 DEF Who, SignInOutcome
<1> QED
  BY <1>1, SignInEnds DEF login

LEMMA PasswordGrantEnds ==
  ASSUME IndInv, NEW e \in Emails, NEW p \in Passwords, NEW code, NEW mail, oauthPasswordGrant(e, p, code, mail)
  PROVE  Ends
<1>1. SignInOutcome(db, LoginWithTOTP(db, e, p, code, mail), Who(e))
  <2>1. SignInOutcome(db, LoginWithTOTP(db, e, p, code, mail), Only(GetUserByEmail(db, e)))
    BY InvFacts, LoginWithTOTPStep
  <2>2. GetUserByEmail(db, e) = {} => LoginWithTOTP(db, e, p, code, mail).err # "issue"
    BY DEF LoginWithTOTP, R
  <2> QED
    BY <2>1, <2>2 DEF Who, SignInOutcome
<1> QED
  BY <1>1, SignInEnds DEF oauthPasswordGrant

\* The second factor
LEMMA TwoFactorEnds ==
  ASSUME IndInv, TwoFactorCalls PROVE Ends
<1> USE InvFacts DEF writeTokenError, writeTwoFactorError
<1>1. ASSUME NEW t \in DOMAIN db.tokens, setupTwoFactor(t) PROVE Ends
  <2>1. \A err : Outcome(db, R(db, err), {})
    BY SameOutcome DEF R
  <2>2. \A u : Outcome(db, StartTwoFactorSetup(db, u), {})
    BY TwoFactorCallsStep
  <2> QED
    BY <1>1, <2>1, <2>2, ReplyEnds DEF setupTwoFactor
<1>2. ASSUME NEW t \in DOMAIN db.tokens, NEW c, verifyTwoFactor(t, c) PROVE Ends
  BY <1>2, VerifyLoginTwoFactorStep, SignInEnds DEF verifyTwoFactor, Owner
<1>3. ASSUME NEW t \in DOMAIN db.tokens, NEW c, confirmTwoFactor(t, c) PROVE Ends
  <2>1. \A u : Outcome(db, ConfirmTwoFactorSetup(db, u, c), {})
    BY TwoFactorCallsStep
  <2>2. SignInOutcome(db, CompletePendingTwoFactorSetup(db, t, c), Owner(t))
    BY CompleteSetupStep DEF Owner
  <2> QED
    BY <1>3, <2>1, <2>2, SignInEnds, ReplyEnds DEF confirmTwoFactor
<1>4. ASSUME NEW p, NEW c, disableTwoFactor(p, c) PROVE Ends
  <2>1. \A u : Outcome(db, DisableTwoFactor(db, u, p, c), {})
    BY TwoFactorCallsStep
  <2> QED
    BY <1>4, <2>1, ReplyEnds DEF disableTwoFactor
<1>5. ASSUME NEW u, resetUserTwoFactor(u) PROVE Ends
  <2>1. Outcome(db, AdminResetTwoFactor(db, u), {})
    BY TwoFactorCallsStep
  <2> QED
    BY <1>5, <2>1, ReplyEnds DEF resetUserTwoFactor
<1> QED
  BY <1>1, <1>2, <1>3, <1>4, <1>5 DEF TwoFactorCalls
\* Refresh tokens, logout and revocation
LEMMA SessionEnds ==
  ASSUME IndInv, SessionCalls PROVE Ends
<1> USE InvFacts
<1>0. /\ \A s : Outcome(db, R(DeleteSessionByID(db, s), "ok"), {})
      /\ \A u : Outcome(db, R(DeleteAllSessionsByUserID(db, u), "ok"), {})
      /\ \A s, g : Outcome(db, R(DeleteSessionByTokenHash(db, s, g), "ok"), {})
  BY DeleteSessionStep, MadeOutcome DEF R, Passing
<1>1. ASSUME NEW s \in DOMAIN db.sessions, NEW g \in 0 .. MaxGen, refresh(s, g) PROVE Ends
  <2> DEFINE r == ValidateRefresh(db, s, g)
             u == db.sessions[s].user
             rec == [op |-> "rotate", user |-> u, role |-> db.users[u].role, sid |-> s, gen |-> g]
  <2>1. CASE r.err = "ok" /\ g < MaxGen /\ Suspend(db, rec)
    <3>1. u \in DOMAIN db.users /\ u \notin Stubs(db)
      BY DEF Good, SessionsGood
    <3>2. rec \in Rotate
      <4>1. u \in UserIds /\ db.users[u].role \in Roles /\ s \in Sessions
        BY <3>1 DEF IndInv, InBounds, Good, UsersGood, Row
      <4>2. g \in 0 .. MaxGen - 1
        BY <2>1, AccountBounds
      <4> QED
        BY <4>1, <4>2 DEF Rotate
    <3> QED
      BY <2>1, <3>1, <3>2, SuspendEnds, StepSame
  <2>2. CASE r.err # "ok" /\ Reply(r, [session |-> 401, disabled |-> 401])
    BY <2>2, ValidateRefreshStep, ReplyEnds
  <2> QED
    BY <1>1, <2>1, <2>2 DEF refresh
<1>2. ASSUME NEW s, NEW g, logout(s, g) PROVE Ends
  BY <1>0, <1>2, ReplyEnds DEF logout
<1>3. ASSUME NEW s, revokeOwnSession(s) PROVE Ends
  BY <1>3, RevokeSessionStep, ReplyEnds DEF revokeOwnSession
<1>4. ASSUME NEW s, revokeSession(s) PROVE Ends
  BY <1>0, <1>4, ReplyEnds DEF revokeSession
<1>5. ASSUME NEW u, revokeAllSessions(u) PROVE Ends
  BY <1>0, <1>5, ReplyEnds DEF revokeAllSessions
<1>6. ASSUME revokeAllOwnSessions PROVE Ends
  BY <1>0, <1>6, ReplyEnds DEF revokeAllOwnSessions
<1> QED
  BY <1>1, <1>2, <1>3, <1>4, <1>5, <1>6 DEF SessionCalls

LEMMA PasswordEnds ==
  ASSUME IndInv, PasswordCalls PROVE Ends
<1> USE InvFacts
<1>1. ASSUME NEW e \in Emails, NEW m, forgotPassword(e, m) PROVE Ends
  <2>1. TokensOnly(db, RequestPasswordReset(db, e, m).db)
    BY RequestPasswordResetStep
  <2>2. Outcome(db, R(RequestPasswordReset(db, e, m).db, "ok"), {})
    BY <2>1, TokensOutcome DEF R
  <2> QED
    BY <1>1, <2>2, ReplyEnds DEF forgotPassword
<1>2. ASSUME NEW t \in DOMAIN db.tokens, NEW p \in Passwords, resetPassword(t, p) PROVE Ends
  <2> DEFINE rec == [op |-> "reset", user |-> Owner(t), token |-> t, pw |-> p]
             err == ResetPassword(db, t, p)
  <2>1. CASE Reply(R(db, err), [invalid |-> 400, expired |-> 400, used |-> 400, exists |-> 409,
                                unchanged |-> 400])
    <3>1. Outcome(db, R(db, err), {})
      BY SameOutcome DEF R
    <3> QED
      BY <2>1, <3>1, ReplyEnds
  <2>2. CASE Suspend(db, rec)
    <3>1. Owner(t) \in UserIds /\ t \in Nat
      BY DEF Owner, IndInv, InBounds, Good, TokensGood
    <3>2. rec \in Reset /\ rec.op = "reset"
      BY <3>1 DEF Reset
    <3> QED
      BY <2>2, <3>2, SuspendEnds, StepSame
  <2> QED
    BY <1>2, <2>1, <2>2 DEF resetPassword
<1>3. ASSUME NEW q, NEW p \in Passwords, NEW c, changePassword(q, p, c) PROVE Ends
  BY <1>3, ChangePasswordStep, SignInEnds DEF changePassword
<1> QED
  BY <1>1, <1>2, <1>3 DEF PasswordCalls

\* The first half of UpdateUser
LEMMA UpdateEnds ==
  ASSUME IndInv, NEW u, NEW patch \in Patches, updateUser(u, patch) PROVE Ends
<1> USE InvFacts
<1> DEFINE rec == [op |-> "update", user |-> u, patch |-> patch, old |-> db.users[u].email]
<1>1. \A err : Outcome(db, R(db, err), {})
  BY SameOutcome DEF R
<1>2. CASE u \in DOMAIN db.users /\ Suspend(db, rec)
  <2>1. u \in UserIds /\ db.users[u].email \in Emails
    BY <1>2 DEF IndInv, InBounds, Good, UsersGood, Row
  <2>2. rec \in Update /\ rec.op = "update"
    BY <2>1 DEF Update
  <2> QED
    BY <1>2, <2>2, SuspendEnds, StepSame
<1>3. CASE Reply(R(db, "failed"), <<>>)
  BY <1>1, <1>3, ReplyEnds
<1>4. CASE Reply(R(db, "forbidden"), [forbidden |-> 403])
  BY <1>1, <1>4, ReplyEnds
<1> QED
  BY <1>2, <1>3, <1>4 DEF updateUser, GetUserByID

LEMMA EmailEnds ==
  ASSUME IndInv, EmailCalls PROVE Ends
<1> USE InvFacts DEF writeTokenError
<1>1. ASSUME NEW t, confirmEmail(t) PROVE Ends
  BY <1>1, ConfirmEmailStep, ReplyEnds DEF confirmEmail
<1>2. ASSUME NEW e \in Emails, NEW p, NEW c, NEW m, changeEmail(e, p, c, m) PROVE Ends
  <2>1. \A u : Outcome(db, RequestChangeEmail(db, u, e, p, c, m), {})
    BY RequestChangeEmailStep
  <2> QED
    BY <1>2, <2>1, ReplyEnds DEF changeEmail
<1>3. ASSUME NEW u, NEW m, resendConfirmEmail(u, m) PROVE Ends
  BY <1>3, ResendConfirmEmailStep, ReplyEnds DEF resendConfirmEmail
<1> QED
  BY <1>1, <1>2, <1>3, UpdateEnds DEF EmailCalls

LEMMA InviteEnds ==
  ASSUME IndInv, InviteCalls PROVE Ends
<1> USE InvFacts, NewUserFresh DEF writeTokenError
<1>0. \A e : Fresh(db, e, NewUser, {NewUser})
  BY DEF Fresh
<1>1. ASSUME NEW e \in Emails, NEW r \in Roles, NEW m, createInvite(e, r, m) PROVE Ends
  <2>1. Outcome(db, CreateInvite(db, NewUser, e, r, m), {NewUser})
    BY <1>0, CreateInviteStep
  <2> QED
    BY <1>1, <2>1, ReplyEnds DEF createInvite
<1>2. ASSUME NEW t, revokeInvite(t) PROVE Ends
  BY <1>2, RevokeInviteStep, ReplyEnds DEF revokeInvite
<1>3. ASSUME NEW t, NEW m, resendInvite(t, m) PROVE Ends
  <2>1. Outcome(db, ResendInvite(db, NewUser, t, m), {NewUser})
    BY <1>0, ResendInviteStep
  <2> QED
    BY <1>3, <2>1, ReplyEnds DEF resendInvite
<1>4. ASSUME NEW t, NEW p \in Passwords, acceptInvite(t, p) PROVE Ends
  <2>1. Outcome(db, AcceptInvite(db, NewUser, t, p), {NewUser})
    BY <1>0, AcceptInviteStep
  <2> QED
    BY <1>4, <2>1, ReplyEnds DEF acceptInvite
<1> QED
  BY <1>1, <1>2, <1>3, <1>4 DEF InviteCalls

LEMMA UserEnds ==
  ASSUME IndInv, UserCalls PROVE Ends
<1> USE InvFacts
<1>1. ASSUME NEW e \in Emails, NEW r \in Roles, NEW p \in Passwords, createUser(e, r, p) PROVE Ends
  <2>1. Fresh(db, e, NewUser, {NewUser})
    BY NewUserFresh DEF Fresh
  <2>2. Outcome(db, CreateAccount(db, NewUser, e, r, p), {NewUser})
    BY <2>1, NewUserFresh, CreateAccountStep
  <2> QED
    BY <1>1, <2>2, NewUserFresh, ReplyEnds DEF createUser
<1>2. ASSUME NEW u, deleteUser(u) PROVE Ends
  BY <1>2, DeleteAccountStep, ReplyEnds DEF deleteUser
<1> QED
  BY <1>1, <1>2, UpdateEnds DEF UserCalls

LEMMA PolicyEnds ==
  ASSUME IndInv, PolicyCalls PROVE Ends
<1>1. PICK p : Reply(R(SaveSettings(db, p), "ok"), <<>>)
  BY DEF PolicyCalls, patchSettings
<1>2. Outcome(db, R(SaveSettings(db, p), "ok"), {})
  BY InvFacts, SaveSettingsStep, MadeOutcome DEF R, Passing
<1> QED
  BY <1>1, <1>2, InvFacts, ReplyEnds

-----------------------------------------------------------------------------
(* The second halves, and time *)

\* A call leaves flight, so that it is not among the refusals of RefusedKeepsAccount.
LEMMA LandEnds ==
  ASSUME IndInv, NEW f \in flight, flight' = flight \ {f}, Good(db'), InBounds(db'),
         Stubs(db') \subseteq Stubs(db), DOMAIN db'.sessions \subseteq Sessions,
         access' \subseteq Claims, answer' \in Answers
  PROVE  Ends
<1>1. FlightGood'
  BY DEF IndInv, FlightGood
<1> QED
  BY <1>1 DEF Ends, IndInv

LEMMA FlightFields ==
  ASSUME IndInv, NEW f \in flight
  PROVE  /\ f.op = "issue" => f \in Issue /\ f.user \notin Stubs(db)
         /\ f.op = "rotate" => f \in Rotate /\ f.user \notin Stubs(db)
         /\ f.op = "reset" => f \in Reset
         /\ f.op = "update" => f \in Update
<1>1. f \in Issue \/ f \in Rotate \/ f \in Reset \/ f \in Update
  BY DEF IndInv, FlightGood
<1>2. /\ f \in Issue => f.op = "issue"
      /\ f \in Rotate => f.op = "rotate"
      /\ f \in Reset => f.op = "reset"
      /\ f \in Update => f.op = "update"
  BY DEF Issue, Rotate, Reset, Update
<1> QED
  BY <1>1, <1>2 DEF IndInv, FlightGood

LEMMA InFlightEnds ==
  ASSUME IndInv, InFlight PROVE Ends
<1> USE InvFacts
<1>1. ASSUME NEW f \in flight, NEW s \in Sessions, issueSession(f, s) PROVE Ends
  <2> DEFINE r == CreateSession(db, s, f.user, 0)
  <2>1. f \in Issue /\ f.user \notin Stubs(db) /\ flight' = flight \ {f} /\ db' = r.db
    BY <1>1, FlightFields DEF issueSession
  <2>2. /\ Good(db') /\ db'.users = db.users /\ db'.tokens = db.tokens
        /\ DOMAIN db'.sessions \subseteq DOMAIN db.sessions \cup {s}
    BY <2>1, CreateSessionStep
  <2>3. InBounds(db') /\ Stubs(db') = Stubs(db) /\ DOMAIN db'.sessions \subseteq Sessions
    BY <2>2 DEF IndInv, InBounds, Stubs
  <2>4. access' \subseteq Claims
    <3>1. [sid |-> s, user |-> f.user, role |-> f.role] \in Claims
      BY <2>1 DEF Claims, Issue
    <3> QED
      BY <1>1, <3>1 DEF issueSession, IndInv
  <2>5. answer' \in Answers
    BY <1>1, Answered DEF issueSession
  <2> QED
    BY <2>1, <2>2, <2>3, <2>4, <2>5, LandEnds
<1>2. ASSUME NEW f \in flight, RefreshWithRotation(f) PROVE Ends
  <2> DEFINE r == SetRefresh(db, f.sid, f.user, f.gen + 1)
             e == DeleteSessionByTokenHash(r.db, f.sid, f.gen)
  <2>1. f \in Rotate /\ f.user \notin Stubs(db) /\ flight' = flight \ {f} /\ db' \in {r.db, e}
    BY <1>2, FlightFields DEF RefreshWithRotation
  <2>2. f.gen + 1 \in Nat /\ f.sid \in Sessions
    BY <2>1, AccountBounds DEF Rotate
  <2>3. /\ Good(r.db) /\ r.db.users = db.users /\ r.db.tokens = db.tokens
        /\ DOMAIN r.db.sessions \subseteq Sessions
    BY <2>1, <2>2, SetRefreshStep DEF IndInv
  <2>4. /\ Good(e) /\ e.users = r.db.users /\ e.tokens = r.db.tokens
        /\ DOMAIN e.sessions \subseteq DOMAIN r.db.sessions
    <3> HIDE DEF r
    <3> QED
      BY <2>3, DeleteSessionStep DEF Step
  <2> HIDE DEF r, e
  <2>5. /\ Good(db') /\ db'.users = db.users /\ db'.tokens = db.tokens
        /\ DOMAIN db'.sessions \subseteq Sessions
    BY <2>1, <2>3, <2>4
  <2>6. InBounds(db') /\ Stubs(db') = Stubs(db)
    BY <2>5 DEF IndInv, InBounds, Stubs
  <2>7. access' \subseteq Claims
    <3>1. [sid |-> f.sid, user |-> f.user, role |-> f.role] \in Claims
      BY <2>1 DEF Claims, Rotate
    <3> QED
      BY <1>2, <3>1 DEF RefreshWithRotation, IndInv
  <2>8. answer' \in Answers
    BY <1>2 DEF RefreshWithRotation, Answers
  <2> QED
    BY <2>1, <2>5, <2>6, <2>7, <2>8, LandEnds
<1>3. ASSUME NEW f \in flight, ResetPasswordSteps(f) PROVE Ends
  <2>1. f \in Reset /\ flight' = flight \ {f} /\ db' = ResetPasswordApply(db, f.token, f.user, f.pw)
    BY <1>3, FlightFields DEF ResetPasswordSteps
  <2>2. f.pw \in Passwords
    BY <2>1 DEF Reset
  <2>3. Step(db, db', {}) /\ DOMAIN db'.users = DOMAIN db.users /\ DOMAIN db'.tokens = DOMAIN db.tokens
    BY <2>1, <2>2, ResetPasswordApplyStep
  <2>4. answer' \in Answers /\ access' \subseteq Claims
    BY <1>3 DEF ResetPasswordSteps, Answers, IndInv
  <2> QED
    BY <2>1, <2>3, <2>4, LandEnds DEF Step, IndInv, InBounds
<1>4. ASSUME NEW f \in flight, NEW m, UpdateUserSteps(f, m) PROVE Ends
  <2> DEFINE r == UpdateUser(db, f.user, f.old, f.patch, m)
  <2>1. f \in Update /\ flight' = flight \ {f} /\ db' = r.db /\ InBounds(db')
    BY <1>4, FlightFields DEF UpdateUserSteps
  <2>2. f.patch.email \in Emails \cup {"keep"} /\ f.patch.on \in {"keep", "on", "off"}
    BY <2>1, AccountInputs DEF Update
  <2>3. Step(db, db', {})
    BY <2>1, <2>2, UpdateUserStep
  <2>4. answer' \in Answers /\ access' \subseteq Claims
    BY <1>4, Answered DEF UpdateUserSteps, IndInv
  <2> QED
    BY <2>1, <2>3, <2>4, LandEnds DEF Step, IndInv
<1> QED
  BY <1>1, <1>2, <1>3, <1>4 DEF InFlight

LEMMA TimeEnds ==
  ASSUME IndInv, Time PROVE Ends
<1> USE InvFacts
<1>0. ASSUME Good(db'), InBounds(db'), Stubs(db') = Stubs(db), DOMAIN db'.sessions \subseteq Sessions,
             Quiet, access' \subseteq access
      PROVE  Ends
  <2>1. FlightGood'
    BY <1>0 DEF Quiet, IndInv, FlightGood
  <2> QED
    BY <1>0, <2>1 DEF Ends, IndInv, Quiet, Answers
<1>1. ASSUME NEW t \in DOMAIN db.tokens, ExpireToken(t) PROVE Ends
  <2>0. db.tokens[t] \in Token
    BY DEF Good, TokensGood
  <2>1. /\ Tables(db') /\ db'.users = db.users /\ db'.sessions = db.sessions /\ db'.totp = db.totp
        /\ DOMAIN db'.tokens = DOMAIN db.tokens
        /\ db'.tokens[t] = [db.tokens[t] EXCEPT !.exp = TRUE]
        /\ \A x \in DOMAIN db.tokens : x # t => db'.tokens[x] = db.tokens[x]
    BY <1>1 DEF ExpireToken, Good, Tables
  <2>2. /\ db'.tokens[t] \in Token /\ db'.tokens[t].user = db.tokens[t].user
        /\ db'.tokens[t].role = db.tokens[t].role /\ db'.tokens[t].purpose = db.tokens[t].purpose
    BY <2>0, <2>1 DEF Token
  <2>3. TokensOnly(db, db')
    BY <2>1, <2>2, TokensChange DEF Good, TokensGood
  <2> QED
    BY <1>0, <1>1, <2>1, <2>3 DEF TokensOnly, Step, ExpireToken, IndInv, InBounds, Stubs
<1>2. ASSUME NEW s \in DOMAIN db.sessions, ExpireSession(s) PROVE Ends
  <2>0. db.sessions[s] \in Session
    BY DEF Good, SessionsGood
  <2>1. /\ Tables(db') /\ db'.users = db.users /\ db'.tokens = db.tokens /\ db'.totp = db.totp
        /\ DOMAIN db'.sessions = DOMAIN db.sessions
        /\ db'.sessions[s] = [db.sessions[s] EXCEPT !.exp = TRUE]
        /\ \A x \in DOMAIN db.sessions : x # s => db'.sessions[x] = db.sessions[x]
    BY <1>2 DEF ExpireSession, Good, Tables
  <2>2. db'.sessions[s] \in Session /\ db'.sessions[s].user = db.sessions[s].user
    BY <2>0, <2>1 DEF Session
  <2>3. Good(db')
    BY <2>1, <2>2, SessionsChange DEF Good, SessionsGood
  <2> QED
    BY <1>0, <1>2, <2>1, <2>3 DEF ExpireSession, IndInv, InBounds, Stubs
<1>3. ASSUME NEW a, ExpireAccess(a) PROVE Ends
  BY <1>0, <1>3 DEF ExpireAccess, IndInv
<1> QED
  BY <1>1, <1>2, <1>3 DEF Time
-----------------------------------------------------------------------------
(* Theorems *)

LEMMA NextEnds ==
  ASSUME IndInv, [Next]_vars PROVE Ends
<1>1. CASE SignInCalls
  BY <1>1, LoginEnds, PasswordGrantEnds DEF SignInCalls
<1>2. CASE TwoFactorCalls
  BY <1>2, TwoFactorEnds
<1>3. CASE SessionCalls
  BY <1>3, SessionEnds
<1>4. CASE PasswordCalls
  BY <1>4, PasswordEnds
<1>5. CASE EmailCalls
  BY <1>5, EmailEnds
<1>6. CASE InviteCalls
  BY <1>6, InviteEnds
<1>7. CASE UserCalls
  BY <1>7, UserEnds
<1>8. CASE PolicyCalls
  BY <1>8, PolicyEnds
<1>9. CASE InFlight
  BY <1>9, InFlightEnds
<1>10. CASE Time
  BY <1>10, TimeEnds
<1>11. CASE UNCHANGED vars
  <2>1. IndInv' /\ db' = db
    BY <1>11 DEF vars, IndInv, FlightGood, InBounds
  <2> QED
    BY <2>1 DEF Ends, Kept
<1> QED
  BY <1>1, <1>2, <1>3, <1>4, <1>5, <1>6, <1>7, <1>8, <1>9, <1>10, <1>11 DEF Next

LEMMA InitInv == ASSUME Init PROVE IndInv
<1> DEFINE row == [email |-> AdminEmail, role |-> "admin", on |-> TRUE, ver |-> TRUE,
                   pw |-> CHOOSE p \in Passwords : TRUE, must |-> TRUE]
<1>1. row \in Row /\ row.pw # Unusable
  BY AccountInputs, AccountBounds DEF Row, Roles
<1> HIDE DEF row
<1>2. /\ Tables(db) /\ DOMAIN db.users = {1} /\ db.users[1] = row
      /\ DOMAIN db.tokens = {} /\ DOMAIN db.sessions = {} /\ DOMAIN db.totp = {}
  BY DEF Init, SeedAdmin, Insert, Tables, row
<1>3. Good(db) /\ InBounds(db)
  BY <1>1, <1>2, AccountInputs DEF Good, UsersGood, TokensGood, SessionsGood, InBounds
<1>4. DOMAIN db.sessions \subseteq Sessions /\ FlightGood /\ access \subseteq Claims /\ answer \in Answers
  BY <1>2 DEF Init, FlightGood, Answers
<1> QED
  BY <1>3, <1>4 DEF IndInv

\* What each call that is under way has read, and may still write, holds beside the types in every
\* reachable state.
THEOREM Inductive == Spec => []IndInv
<1>1. Init => IndInv
  BY InitInv
<1>2. IndInv /\ [Next]_vars => IndInv'
  BY NextEnds DEF Ends
<1> QED
  BY <1>1, <1>2, PTL DEF Spec

\* The tables hold rows; tokens, sessions and enrolments belong to accounts that exist; no two
\* accounts share an address.
THEOREM TypeCorrect == Spec => []TypeOK
<1>1. IndInv => TypeOK
  BY DEF IndInv, InBounds, Good, UsersGood, TokensGood, SessionsGood, Token, TypeOK, Answers
<1> QED
  BY <1>1, Inductive, PTL

\* No invite stub ever has a session or a pending sign-in.
THEOREM StubsNeverSignIn == Spec => []StubNeverSignsIn
<1>1. IndInv => StubNeverSignsIn
  BY DEF IndInv, Good, TokensGood, SessionsGood, Stubs, StubNeverSignsIn, ListSessionsByUserID
<1> QED
  BY <1>1, Inductive, PTL

\* No call that is refused has changed an account, an enrolment or a live session.
THEOREM RefusalsKeepAccounts == Spec => RefusedKeepsAccount
<1>1. IndInv /\ [Next]_vars
        => [answer' = "refused" /\ flight' = flight =>
              /\ db'.users = db.users
              /\ db'.totp = db.totp
              /\ \A s \in DOMAIN db.sessions : ~db.sessions[s].exp => s \in DOMAIN db'.sessions]_vars
  BY NextEnds DEF Ends, Kept
<1> QED
  BY <1>1, Inductive, PTL DEF Spec, RefusedKeepsAccount
=============================================================================
