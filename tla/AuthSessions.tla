---------------------------- MODULE AuthSessions -----------------------------
(***************************************************************************)
(* Registering, logging in, refreshing and logging out (modules/auth), as  *)
(* the statements of database sessions in one API process, behind the rate *)
(* limiter of the production deployment.                                   *)
(*                                                                         *)
(* A refresh token is the claims it is signed over: the account and the    *)
(* whole seconds iat and exp.  Two tokens with equal claims are one token, *)
(* of which the database keeps one row.                                    *)
(***************************************************************************)
EXTENDS RateLimiter

CONSTANTS
  Sessions,     \* threads that serve requests
  Clients,      \* people, each with a password and an address of their own
  Spellings,    \* emails and user names as they may be typed
  Lower,        \* Lower[x]: the spelling x in lower case
  Forms,        \* what clients fill in to register
  Known,        \* the accounts at the start
  RefreshLife,  \* refresh_token_expire_days, in seconds of the clock
  MayStop,      \* whether the process may be restarted
  MaxRequests   \* bound on the requests begun

Paths == {"/auth/login", "/auth/register"}

ASSUME AuthAssumption ==
  /\ Keys = Clients \X Paths
  /\ Lower \in [Spellings -> Spellings]
  /\ \A x \in Spellings : Lower[Lower[x]] = Lower[x]
  /\ Forms \subseteq [client : Clients, email : Spellings, username : Spellings]
  /\ Known \in [DOMAIN Known -> [username : Spellings, secret : Clients, active : BOOLEAN]]
  /\ DOMAIN Known \subseteq {Lower[x] : x \in Spellings}
  /\ RefreshLife \in Nat \ {0}
  /\ MayStop \in BOOLEAN
  /\ MaxRequests \in Nat

VARIABLES
  accounts,   \* the committed users table, a function of the stored emails
  tokens,     \* the committed refresh_tokens table: is_revoked of each token
  session,    \* session[s]: what session s is doing
  begun,      \* requests begun
  held,       \* history: held[t] is how many logins answered with token t
  welcomed,   \* history: the emails and clients whose registration was answered 201
  used,       \* history: refreshes and logouts answered 200, and were they entitled to it
  failed      \* history: registrations answered 500, and could they have been answered 409

tables == <<accounts, tokens>>
histories == <<held, welcomed, used, failed>>
vars == <<limiterVars, tables, session, begun, histories>>

Idle == [pc |-> "idle"]

Init ==
  /\ LimiterInit
  /\ accounts = Known
  /\ tokens = <<>>
  /\ session = [s \in Sessions |-> Idle]
  /\ begun = 0
  /\ held = <<>>
  /\ welcomed = {[email |-> e, client |-> Known[e].secret] : e \in DOMAIN Known}
  /\ used = {}
  /\ failed = {}

-----------------------------------------------------------------------------
At(s, pc) == session[s].pc = pc

Goto(s, pc) == session' = [session EXCEPT ![s].pc = pc]

End(s) == session' = [session EXCEPT ![s] = Idle]

Others(s) == Sessions \ {s}

\* A table with a row put in.
With(table, key, row) ==
  [k \in {key} \cup DOMAIN table |-> IF k = key THEN row ELSE table[k]]

UsernameTaken(name) == \E e \in DOMAIN accounts : accounts[e].username = name

MayBegin(s) == At(s, "idle") /\ begun < MaxRequests

\* A request to a limited path is let in, or answered 429.
Enter(s, client, path, work) ==
  /\ MayBegin(s)
  /\ begun' = begun + 1
  /\ \/ Admit(<<client, path>>) /\ session' = [session EXCEPT ![s] = work]
     \/ TurnAway(<<client, path>>) /\ UNCHANGED session
  /\ UNCHANGED <<clock, tables, histories>>

-----------------------------------------------------------------------------
(***************************************************************************)
(* POST /auth/register                                                     *)
(***************************************************************************)
BeginRegister(s) ==
  \E form \in Forms :
    Enter(s, form.client, "/auth/register",
          [pc |-> "check-email", client |-> form.client, email |-> form.email,
           username |-> form.username,
           taken |-> form.email \in DOMAIN accounts \/ UsernameTaken(form.username)])

\* The email is looked up as it was typed; 409 if it is there.
CheckEmail(s) ==
  /\ At(s, "check-email")
  /\ IF session[s].email \in DOMAIN accounts THEN End(s) ELSE Goto(s, "check-username")
  /\ UNCHANGED <<limiterVars, tables, begun, histories>>

\* A slip: the name is looked up among the emails.
CheckUsernameAmongEmails(s) ==
  /\ At(s, "check-username")
  /\ IF session[s].username \in DOMAIN accounts THEN End(s) ELSE Goto(s, "insert-user")
  /\ UNCHANGED <<limiterVars, tables, begun, histories>>

CheckUsername(s) ==
  /\ At(s, "check-username")
  /\ IF UsernameTaken(session[s].username) THEN End(s) ELSE Goto(s, "insert-user")
  /\ UNCHANGED <<limiterVars, tables, begun, histories>>

\* The names of an account that is inserted and not yet committed.
Inserts(s, email, username) ==
  /\ At(s, "commit-user")
  /\ \/ Lower[session[s].email] = email
     \/ Lower[session[s].username] = username

\* A slip: nothing but the two look-ups keeps names apart.
InsertUserUnchecked(s) ==
  /\ At(s, "insert-user")
  /\ Goto(s, "commit-user")
  /\ UNCHANGED <<limiterVars, tables, begun, histories>>

\* Both names are stored in lower case, and unique: an INSERT waits for another one
\* of the same name, and fails when the name is there.
InsertUser(s) ==
  LET email    == Lower[session[s].email]
      username == Lower[session[s].username]
      collides == email \in DOMAIN accounts \/ UsernameTaken(username)
  IN  /\ At(s, "insert-user")
      /\ \A r \in Others(s) : ~ Inserts(r, email, username)
      /\ IF collides
         THEN End(s) /\ failed' = failed \cup {[taken |-> session[s].taken]}
         ELSE Goto(s, "commit-user") /\ UNCHANGED failed
      /\ UNCHANGED <<limiterVars, tables, begun, held, welcomed, used>>

CommitUser(s) ==
  LET me == session[s] IN
  /\ At(s, "commit-user")
  /\ accounts' = With(accounts, Lower[me.email],
                      [username |-> Lower[me.username], secret |-> me.client, active |-> TRUE])
  /\ Goto(s, "welcome")
  /\ UNCHANGED <<limiterVars, tokens, begun, histories>>

\* The row is read again, and answered 201.
Welcome(s) ==
  /\ At(s, "welcome")
  /\ welcomed' = welcomed \cup {[email |-> session[s].email, client |-> session[s].client]}
  /\ End(s)
  /\ UNCHANGED <<limiterVars, tables, begun, held, used, failed>>

-----------------------------------------------------------------------------
(***************************************************************************)
(* POST /auth/login                                                        *)
(***************************************************************************)
BeginLogin(s) ==
  \E client \in Clients, email \in Spellings :
    Enter(s, client, "/auth/login",
          [pc |-> "find-user", client |-> client, email |-> Lower[email]])

\* Whether email is an active account and client knows its password.
MayLogIn(client, email) ==
  /\ email \in DOMAIN accounts
  /\ accounts[email].secret = client
  /\ accounts[email].active

FindUser(s) ==
  /\ At(s, "find-user")
  /\ IF MayLogIn(session[s].client, session[s].email) THEN Goto(s, "expire") ELSE End(s)
  /\ UNCHANGED <<limiterVars, tables, begun, histories>>

\* The two claims are read off the clock one after the other.
Expire(s) ==
  /\ At(s, "expire")
  /\ session' = [session EXCEPT ![s] =
       [pc |-> "stamp", user |-> session[s].email, exp |-> clock + RefreshLife]]
  /\ UNCHANGED <<limiterVars, tables, begun, histories>>

\* The token is verified as soon as it is signed.
Stamp(s) ==
  /\ At(s, "stamp")
  /\ IF session[s].exp > clock
     THEN session' = [session EXCEPT ![s] =
            [pc |-> "insert-token",
             token |-> [user |-> session[s].user, iat |-> clock, exp |-> session[s].exp]]]
     ELSE End(s)
  /\ UNCHANGED <<limiterVars, tables, begun, histories>>

\* A slip: the row of an equal token is taken for this one's.
InsertTokenAgain(s) ==
  /\ At(s, "insert-token")
  /\ Goto(s, "commit-token")
  /\ UNCHANGED <<limiterVars, tables, begun, histories>>

\* token_hash is unique: a login whose token has a row already is answered 500.
InsertToken(s) ==
  LET token == session[s].token IN
  /\ At(s, "insert-token")
  /\ \A r \in Others(s) : At(r, "commit-token") => session[r].token # token
  /\ IF token \in DOMAIN tokens THEN End(s) ELSE Goto(s, "commit-token")
  /\ UNCHANGED <<limiterVars, tables, begun, histories>>

CommitToken(s) ==
  /\ At(s, "commit-token")
  /\ tokens' = With(tokens, session[s].token, FALSE)
  /\ Goto(s, "hand-out")
  /\ UNCHANGED <<limiterVars, accounts, begun, histories>>

HandOut(s) ==
  LET token == session[s].token
      times == IF token \in DOMAIN held THEN held[token] ELSE 0
  IN  /\ At(s, "hand-out")
      /\ held' = With(held, token, times + 1)
      /\ End(s)
      /\ UNCHANGED <<limiterVars, tables, begun, welcomed, used, failed>>

-----------------------------------------------------------------------------
(***************************************************************************)
(* POST /auth/refresh and POST /auth/logout                                *)
(***************************************************************************)
\* A token is good for a refresh or a logout: unexpired, not logged out and, for a
\* refresh, of an active account.
Alive(token, kind) ==
  /\ token.exp > clock
  /\ ~ tokens[token]
  /\ kind = "refresh" => accounts[token.user].active

\* The signature and exp are checked first.
Present(s, kind, pc) ==
  \E token \in DOMAIN held :
    /\ MayBegin(s)
    /\ begun' = begun + 1
    /\ IF token.exp > clock
       THEN session' = [session EXCEPT ![s] =
              [pc |-> pc, kind |-> kind, token |-> token, alive |-> Alive(token, kind)]]
       ELSE UNCHANGED session
    /\ UNCHANGED <<limiterVars, tables, histories>>

BeginRefresh(s) == Present(s, "refresh", "find-refresh")

BeginLogout(s) == Present(s, "logout", "find-logout")

Stored(token) == token \in DOMAIN tokens

\* Answered 200.
Grant(s) ==
  used' = used \cup {[kind |-> session[s].kind, alive |-> session[s].alive]}

\* A slip: a revoked token will do.
FindRefreshRevoked(s) ==
  /\ At(s, "find-refresh")
  /\ IF Stored(session[s].token) /\ session[s].token.exp > clock
     THEN Goto(s, "load-user") ELSE End(s)
  /\ UNCHANGED <<limiterVars, tables, begun, histories>>

\* The row is there, not revoked, and not expired by now.
FindRefresh(s) ==
  LET token == session[s].token IN
  /\ At(s, "find-refresh")
  /\ IF Stored(token) /\ ~ tokens[token] /\ token.exp > clock
     THEN Goto(s, "load-user") ELSE End(s)
  /\ UNCHANGED <<limiterVars, tables, begun, histories>>

\* The account is read, and an access token signed.
GrantAccess(s) ==
  /\ At(s, "load-user")
  /\ IF accounts[session[s].token.user].active THEN Grant(s) ELSE UNCHANGED used
  /\ End(s)
  /\ UNCHANGED <<limiterVars, tables, begun, held, welcomed, failed>>

FindLogout(s) ==
  LET token == session[s].token IN
  /\ At(s, "find-logout")
  /\ IF Stored(token) /\ ~ tokens[token] THEN Goto(s, "revoke") ELSE End(s)
  /\ UNCHANGED <<limiterVars, tables, begun, histories>>

\* The UPDATE waits for another one of the row.
Revoke(s) ==
  /\ At(s, "revoke")
  /\ \A r \in Others(s) : At(r, "commit-logout") => session[r].token # session[s].token
  /\ Goto(s, "commit-logout")
  /\ UNCHANGED <<limiterVars, tables, begun, histories>>

CommitLogout(s) ==
  /\ At(s, "commit-logout")
  /\ tokens' = [tokens EXCEPT ![session[s].token] = TRUE]
  /\ Grant(s)
  /\ End(s)
  /\ UNCHANGED <<limiterVars, accounts, begun, held, welcomed, failed>>

-----------------------------------------------------------------------------
\* is_active is set in the database by whoever runs the system.
Deactivate ==
  \E e \in DOMAIN accounts :
    /\ accounts[e].active
    /\ accounts' = [accounts EXCEPT ![e].active = FALSE]
    /\ UNCHANGED <<limiterVars, tokens, session, begun, histories>>

\* The API process dies and is started again.
Restart ==
  /\ MayStop
  /\ session' = [s \in Sessions |-> Idle]
  /\ Forget
  /\ UNCHANGED <<clock, tables, begun, histories>>

Tick ==
  /\ clock < MaxTime
  /\ clock' = clock + 1
  /\ UNCHANGED <<bucket, accepted, verdict, tables, session, begun, histories>>

Register(s) ==
  \/ BeginRegister(s) \/ CheckEmail(s) \/ CheckUsername(s)
  \/ InsertUser(s) \/ CommitUser(s) \/ Welcome(s)

Login(s) ==
  \/ BeginLogin(s) \/ FindUser(s) \/ Expire(s) \/ Stamp(s)
  \/ InsertToken(s) \/ CommitToken(s) \/ HandOut(s)

Refresh(s) == BeginRefresh(s) \/ FindRefresh(s) \/ GrantAccess(s)

Logout(s) == BeginLogout(s) \/ FindLogout(s) \/ Revoke(s) \/ CommitLogout(s)

Next ==
  \/ \E s \in Sessions : Register(s) \/ Login(s) \/ Refresh(s) \/ Logout(s)
  \/ Deactivate \/ Restart \/ Tick

Spec == Init /\ [][Next]_vars

-----------------------------------------------------------------------------
\* No two logins answer with the same refresh token: tokens of one account signed in
\* the same second are equal, and only the unique token_hash (refresh_token.py:16)
\* keeps the logout of one device from being the logout of another.
TokensAreHandedOutOnce == \A t \in DOMAIN held : held[t] = 1

\* A refresh or a logout that begins when its token has been logged out or has
\* expired, or a refresh when its account is inactive, is not answered 200, whatever
\* it overlaps (auth_service.py:83, 86, 90, 108).
DeadTokensAreRefused == \A u \in used : u.alive

\* Whoever is answered 201 can log in: the account of that email, typed in any
\* case, has their password (auth_service.py:48, 65).
WelcomedOwnTheirAccount ==
  \A w \in welcomed :
    /\ Lower[w.email] \in DOMAIN accounts
    /\ accounts[Lower[w.email]].secret = w.client

\* A registration of a name that was stored, as it is typed, before it began is told
\* so with 409: only overlapping registrations and capitals reach the constraint and
\* are answered 500 (auth_service.py:37, 40).
TakenNamesAreSaidTaken == \A f \in failed : ~ f.taken
=============================================================================
