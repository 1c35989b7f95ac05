----------------------------- MODULE AuthSessions -----------------------------
(***************************************************************************)
(* Sign-up, sign-in (password and OIDC), refresh-token rotation, reuse      *)
(* detection, logout and account suspension: auth.Service, the HTTP         *)
(* handlers that call it, and the users, refresh_tokens and                 *)
(* federated_identities tables.                                             *)
(*                                                                          *)
(* Every handler is a sequence of separate database statements, and two     *)
(* handlers interleave between any two of them.  The first statement of a   *)
(* handler belongs to the action that starts it.  A statement that only     *)
(* leads to an error answer changes nothing and has no action.              *)
(*                                                                          *)
(* Abstractions.  A refresh token is a member of Tokens (its hash, its      *)
(* cookie value and its row are identified; the random values are fresh).   *)
(* The permissions of a user are represented by the roles they come from.   *)
(* Whether the password, the authorization code and the verified email are  *)
(* right is the caller's input: only right ones change anything.            *)
(***************************************************************************)
EXTENDS Integers, FiniteSets

CONSTANTS
    Users,       \* accounts, by email
    Federated,   \* those the identity provider vouches for
    Tokens,      \* refresh tokens
    NoToken,     \* no refresh token
    Roles,       \* rows of the roles table, "viewer" among them
    Requests,    \* goroutines serving /auth/register, login, refresh, callback
    Admins,      \* goroutines serving PUT /users/{id}/status
    RoleEdits,   \* the sets of roles administrators assign
    MaxFaults,   \* bound on statements that fail for a broken connection
    ClientsLeave \* whether a client may disconnect while its request runs

ASSUME SessionsAssumption ==
    /\ Users # {} /\ Federated \subseteq Users
    /\ NoToken \notin Tokens
    /\ "viewer" \in Roles /\ RoleEdits \subseteq SUBSET Roles
    /\ MaxFaults \in Nat
    /\ ClientsLeave \in BOOLEAN

VARIABLES
    users,     \* the users and user_roles tables
    linked,    \* users with a row in federated_identities
    tokens,    \* the refresh_tokens table
    known,     \* refresh tokens that reached a client in a Set-Cookie
    access,    \* unexpired access tokens that reached a client
    req,       \* local state of the handlers that issue tokens
    admin,     \* local state of SetUserStatus
    faults,
    ancestors, \* history: the tokens each token was rotated out of
    late,      \* history: the tokens stored for an account since it was last
               \* suspended, by requests that had passed their status check
    reused     \* history: tokens whose reuse was detected and acted on

history == <<ancestors, late, reused>>
vars == <<users, linked, tokens, known, access, req, admin, faults,
          ancestors, late, reused>>

UserRow == [status : {"absent", "active", "suspended"}, password : BOOLEAN,
            roles : SUBSET Roles]

TokenRow == [stored : BOOLEAN, user : Users, revoked : BOOLEAN, expired : BOOLEAN]

AccessToken == [user : Users, roles : SUBSET Roles, permissions : SUBSET Roles]

\* pc names the statement the handler is about to perform.  token: the one
\* presented to Refresh.  fresh: the one stored.  inside (history): the
\* account was suspended after the handler had passed its status check.
RequestState ==
    [op    : {"none", "register", "login", "oidc", "refresh"},
     pc    : {"idle", "assign", "federate", "read", "sweep", "rotate",
              "roles", "permissions", "store", "reply"},
     user  : Users, token : Tokens \cup {NoToken}, fresh : Tokens \cup {NoToken},
     roles : SUBSET Roles, permissions : SUBSET Roles,
     inside : BOOLEAN]

\* Every variable stays in its domain.
TypeOK ==
    /\ users \in [Users -> UserRow]
    /\ linked \in SUBSET Users
    /\ tokens \in [Tokens -> TokenRow]
    /\ known \in SUBSET Tokens
    /\ access \in SUBSET AccessToken
    /\ req \in [Requests -> RequestState]
    /\ admin \in [Admins -> [pc : {"idle", "sweep"}, user : Users]]
    /\ faults \in Nat
    /\ ancestors \in [Tokens -> SUBSET Tokens]
    /\ late \in SUBSET Tokens
    /\ reused \in SUBSET Tokens

AnyUser == CHOOSE u \in Users : TRUE

Idle == [op |-> "none", pc |-> "idle", user |-> AnyUser, token |-> NoToken,
         fresh |-> NoToken, roles |-> {}, permissions |-> {}, inside |-> FALSE]
IdleAdmin == [pc |-> "idle", user |-> AnyUser]

Init ==
    /\ users = [u \in Users |-> [status |-> "absent", password |-> FALSE, roles |-> {}]]
    /\ linked = {}
    /\ tokens = [t \in Tokens |-> [stored |-> FALSE, user |-> AnyUser,
                                   revoked |-> FALSE, expired |-> FALSE]]
    /\ known = {}
    /\ access = {}
    /\ req = [r \in Requests |-> Idle]
    /\ admin = [a \in Admins |-> IdleAdmin]
    /\ faults = 0
    /\ ancestors = [t \in Tokens |-> {}]
    /\ late = {}
    /\ reused = {}

-----------------------------------------------------------------------------
(* Statements.  One fails when the connection breaks, with or without effect *)
(* (the error can be the loss of the answer).                               *)

Breaks == faults < MaxFaults /\ faults' = faults + 1

Ends(r) == req' = [req EXCEPT ![r] = Idle]
Goes(r, pc) == req' = [req EXCEPT ![r].pc = pc]

\* A statement of request r fails without effect, and its handler returns.
GivesUp(r) == Breaks /\ Ends(r)

Live(t) == tokens[t].stored /\ ~tokens[t].revoked /\ ~tokens[t].expired

\* UPDATE refresh_tokens SET revoked_at ... WHERE token_hash = t
Revoked(t) == [tokens EXCEPT ![t].revoked = TRUE]

\* UPDATE refresh_tokens SET revoked_at ... WHERE user_id = u
AllRevoked(u) == [t \in Tokens |->
    IF tokens[t].stored /\ tokens[t].user = u
    THEN [tokens[t] EXCEPT !.revoked = TRUE] ELSE tokens[t]]

\* The requests on the way to issueTokenPair's INSERT whose handler looks at
\* the account's status no more.
Issuing(r) == req[r].pc \in {"assign", "rotate", "roles", "permissions", "store"}

\* History: which of them the new status s of account u finds under way.
MarkInside(u, s) ==
    /\ req' = [r \in Requests |-> IF Issuing(r) /\ req[r].user = u
                                  THEN [req[r] EXCEPT !.inside = (s = "suspended")]
                                  ELSE req[r]]
    /\ late' = {t \in late : tokens[t].user # u}

-----------------------------------------------------------------------------
(* POST /auth/register: INSERT the user, then INSERT its role, in separate  *)
(* statements of no transaction.                                            *)

Register(r, u) ==
    /\ req[r].pc = "idle"
    /\ users[u].status = "absent"
    /\ users' = [users EXCEPT ![u].status = "active", ![u].password = TRUE]
    /\ \/ /\ UNCHANGED faults
          /\ req' = [req EXCEPT ![r] = [Idle EXCEPT !.op = "register", !.pc = "assign",
                                                    !.user = u]]
       \/ Breaks /\ UNCHANGED req
    /\ UNCHANGED <<linked, tokens, known, access, admin, history>>

AssignRoles(r) ==
    LET u == req[r].user
        assigned == users' = [users EXCEPT ![u].roles = @ \cup {"viewer"}]
    IN
    /\ req[r].pc = "assign"
    /\ \/ UNCHANGED faults /\ assigned /\ Goes(r, "roles")
       \/ GivesUp(r) /\ UNCHANGED users
       \/ Breaks /\ Ends(r) /\ assigned
    /\ UNCHANGED <<linked, tokens, known, access, admin, history>>

\* POST /auth/login up to issueTokenPair.
Login(r, u) ==
    /\ req[r].pc = "idle"
    /\ users[u].status = "active" /\ users[u].password
    /\ req' = [req EXCEPT ![r] = [Idle EXCEPT !.op = "login", !.pc = "roles", !.user = u]]
    /\ UNCHANGED <<users, linked, tokens, known, access, admin, faults, history>>

\* GET /auth/oidc/{provider}/callback: is the identity linked already?
LoginWithOIDC(r, u) ==
    /\ req[r].pc = "idle"
    /\ u \in Federated
    /\ req' = [req EXCEPT ![r] =
                 [Idle EXCEPT !.op = "oidc", !.user = u,
                              !.pc = IF u \in linked THEN "read" ELSE "federate"]]
    /\ UNCHANGED <<users, linked, tokens, known, access, admin, faults, history>>

\* The transaction of UpsertFederatedUser: link the account with this email,
\* or create one with the viewer role and link it; a row that another request
\* has inserted since the transaction looked is a conflict, and nothing is
\* written.  Then the status check.
UpsertFederatedUser(r) ==
    LET u == req[r].user
        upserted ==
          /\ u \notin linked
          /\ linked' = linked \cup {u}
          /\ users' = IF users[u].status # "absent" THEN users
                      ELSE [users EXCEPT ![u] = [status |-> "active", password |-> FALSE,
                                                 roles |-> {"viewer"}]]
    IN
    /\ req[r].pc = "federate"
    /\ \/ /\ UNCHANGED faults /\ upserted
          /\ IF users[u].status = "suspended" THEN Ends(r) ELSE Goes(r, "roles")
       \/ /\ u \in linked \/ users[u].status # "absent"
          /\ UNCHANGED faults /\ Ends(r) /\ UNCHANGED <<users, linked>>
       \/ GivesUp(r) /\ UNCHANGED <<users, linked>>
       \/ Breaks /\ Ends(r) /\ upserted
    /\ UNCHANGED <<tokens, known, access, admin, history>>

-----------------------------------------------------------------------------
(* POST /auth/refresh.                                                      *)

\* GetRefreshToken: a live token goes on, a revoked one is taken for reuse,
\* an expired one is refused.
Refresh(r, t) ==
    /\ req[r].pc = "idle"
    /\ t \in known
    /\ Live(t) \/ tokens[t].revoked
    /\ req' = [req EXCEPT ![r] =
                 [Idle EXCEPT !.op = "refresh", !.user = tokens[t].user, !.token = t,
                              !.pc = IF tokens[t].revoked THEN "sweep" ELSE "read"]]
    /\ UNCHANGED <<users, linked, tokens, known, access, admin, faults, history>>

\* Reuse: RevokeUserRefreshTokens, its error ignored, then 401.
SweepReused(r) ==
    /\ req[r].pc = "sweep"
    /\ \/ /\ UNCHANGED faults /\ Ends(r)
          /\ tokens' = AllRevoked(req[r].user)
          /\ reused' = reused \cup {req[r].token}
       \/ GivesUp(r) /\ UNCHANGED <<tokens, reused>>
       \/ Breaks /\ Ends(r) /\ tokens' = AllRevoked(req[r].user) /\ UNCHANGED reused
    /\ UNCHANGED <<users, linked, known, access, admin, ancestors, late>>

\* Faulty variant: the account's status is not looked at.
ReadUserAnyStatus(r) ==
    /\ req[r].pc = "read"
    /\ \/ UNCHANGED faults /\ Goes(r, IF req[r].op = "refresh" THEN "rotate" ELSE "roles")
       \/ GivesUp(r)
    /\ UNCHANGED <<users, linked, tokens, known, access, admin, history>>

\* GetUserByID and the status check, of Refresh and of a linked OIDC login.
ReadUser(r) ==
    /\ req[r].pc = "read"
    /\ \/ /\ UNCHANGED faults
          /\ IF users[req[r].user].status = "suspended"
             THEN Ends(r)
             ELSE Goes(r, IF req[r].op = "refresh" THEN "rotate" ELSE "roles")
       \/ GivesUp(r)
    /\ UNCHANGED <<users, linked, tokens, known, access, admin, history>>

\* Faulty variant: the presented token is not revoked.
RotateKeepsToken(r) ==
    /\ req[r].pc = "rotate"
    /\ Goes(r, "roles")
    /\ UNCHANGED faults
    /\ UNCHANGED <<users, linked, tokens, known, access, admin, history>>

\* RevokeRefreshToken of the presented token; its error is ignored.
Rotate(r) ==
    /\ req[r].pc = "rotate"
    /\ Goes(r, "roles")
    /\ \/ UNCHANGED faults /\ tokens' = Revoked(req[r].token)
       \/ Breaks /\ (UNCHANGED tokens \/ tokens' = Revoked(req[r].token))
    /\ UNCHANGED <<users, linked, known, access, admin, history>>

-----------------------------------------------------------------------------
(* issueTokenPair, and the answer.                                          *)

\* The two queries of GetUserRolesAndPermissions.  The first never asks its rows
\* for an error: a connection that breaks while they are read ends the list early,
\* and the code goes on with the roles it has.
ReadRoles(r) ==
    LET held == users[req[r].user].roles
        reads(roles) == req' = [req EXCEPT ![r].pc = "permissions", ![r].roles = roles]
    IN
    /\ req[r].pc = "roles"
    /\ \/ UNCHANGED faults /\ reads(held)
       \/ Breaks /\ \E part \in SUBSET held : reads(part)
       \/ GivesUp(r)
    /\ UNCHANGED <<users, linked, tokens, known, access, admin, history>>

ReadPermissions(r) ==
    /\ req[r].pc = "permissions"
    /\ \/ /\ UNCHANGED faults
          /\ req' = [req EXCEPT ![r].pc = "store", ![r].permissions = users[req[r].user].roles]
       \/ GivesUp(r)
    /\ UNCHANGED <<users, linked, tokens, known, access, admin, history>>

\* StoreRefreshToken of a fresh token t.
StoreRefreshToken(r, t) ==
    LET u == req[r].user
        inserted ==
          /\ tokens' = [tokens EXCEPT ![t] = [stored |-> TRUE, user |-> u,
                                              revoked |-> FALSE, expired |-> FALSE]]
          /\ ancestors' = [ancestors EXCEPT ![t] =
                             IF req[r].op = "refresh"
                             THEN ancestors[req[r].token] \cup {req[r].token} ELSE {}]
          /\ late' = IF req[r].inside THEN late \cup {t} ELSE late
    IN
    /\ req[r].pc = "store"
    /\ ~tokens[t].stored
    /\ \/ UNCHANGED faults /\ inserted /\ req' = [req EXCEPT ![r].pc = "reply", ![r].fresh = t]
       \/ GivesUp(r) /\ UNCHANGED <<tokens, ancestors, late>>
       \/ Breaks /\ Ends(r) /\ inserted
    /\ UNCHANGED <<users, linked, known, access, admin, reused>>

\* The handlers look the roles up once more for the body (the callback does
\* not, and sends no access token).  Register does so before it sets the
\* cookie, login and refresh after: their 500 still carries the cookie.  Not
\* every query that breaks is noticed (see ReadRoles).
Reply(r) ==
    LET cookie == known' = known \cup {req[r].fresh}
    IN
    /\ req[r].pc = "reply"
    /\ \/ /\ cookie
          /\ UNCHANGED faults \/ (req[r].op # "oidc" /\ Breaks)
          /\ access' = IF req[r].op = "oidc" THEN access
                       ELSE access \cup {[user |-> req[r].user, roles |-> req[r].roles,
                                          permissions |-> req[r].permissions]}
       \/ /\ req[r].op # "oidc" /\ Breaks /\ UNCHANGED access
          /\ IF req[r].op = "register" THEN UNCHANGED known ELSE cookie
    /\ Ends(r)
    /\ UNCHANGED <<users, linked, tokens, admin, history>>

\* POST /auth/logout: RevokeRefreshToken, its error ignored (a second time
\* it changes nothing).
Logout(t) ==
    /\ t \in known /\ ~tokens[t].revoked
    /\ tokens' = Revoked(t)
    /\ UNCHANGED <<users, linked, known, access, req, admin, faults, history>>

-----------------------------------------------------------------------------
(* Administration, and time.                                                *)

\* Faulty variant: the call of RevokeUserSessions is missing.
SetUserStatusOnly(a, u, s) ==
    /\ admin[a].pc = "idle"
    /\ users[u].status # "absent"
    /\ users' = [users EXCEPT ![u].status = s]
    /\ MarkInside(u, s)
    /\ UNCHANGED <<linked, tokens, known, access, admin, faults, ancestors, reused>>

\* Faulty variant: the status in the body is not validated.
SetUserStatusUnchecked(a, u, s) ==
    /\ admin[a].pc = "idle"
    /\ users[u].status # "absent"
    /\ \E any \in {s, "disabled"} : users' = [users EXCEPT ![u].status = any]
    /\ admin' = IF s = "suspended"
                THEN [admin EXCEPT ![a] = [pc |-> "sweep", user |-> u]] ELSE admin
    /\ MarkInside(u, s)
    /\ UNCHANGED <<linked, tokens, known, access, faults, ancestors, reused>>

\* PUT /users/{id}/status: the UPDATE of users.  When its answer is lost the
\* handler answers 404 and leaves the sessions alone.
SetUserStatus(a, u, s) ==
    /\ admin[a].pc = "idle"
    /\ users[u].status # "absent"
    /\ users' = [users EXCEPT ![u].status = s]
    /\ \/ /\ admin' = IF s = "suspended"
                      THEN [admin EXCEPT ![a] = [pc |-> "sweep", user |-> u]] ELSE admin
          /\ UNCHANGED faults
       \/ Breaks /\ UNCHANGED admin
    /\ MarkInside(u, s)
    /\ UNCHANGED <<linked, tokens, known, access, ancestors, reused>>

\* ... and then, for a suspension, RevokeUserSessions, its error ignored (an
\* administrator who disconnects in between counts as a broken connection).
RevokeUserSessions(a) ==
    /\ admin[a].pc = "sweep"
    /\ admin' = [admin EXCEPT ![a] = IdleAdmin]
    /\ \/ tokens' = AllRevoked(admin[a].user) /\ UNCHANGED faults
       \/ Breaks /\ (UNCHANGED tokens \/ tokens' = AllRevoked(admin[a].user))
    /\ UNCHANGED <<users, linked, known, access, req, history>>

\* PUT /users/{id}/roles: one transaction.
SetUserRoles(u, roles) ==
    /\ users[u].status # "absent"
    /\ users' = [users EXCEPT ![u].roles = roles]
    /\ UNCHANGED <<linked, tokens, known, access, req, admin, faults, history>>

RefreshTokenExpires(t) ==
    /\ Live(t)
    /\ tokens' = [tokens EXCEPT ![t].expired = TRUE]
    /\ UNCHANGED <<users, linked, known, access, req, admin, faults, history>>

AccessTokenExpires(x) ==
    /\ access' = access \ {x}
    /\ UNCHANGED <<users, linked, tokens, known, req, admin, faults, history>>

\* A client disconnects: with the request's context cancelled none of its
\* later statements has an effect, and no answer reaches anyone.
ClientLeaves(r) ==
    /\ ClientsLeave
    /\ req[r].pc # "idle"
    /\ Ends(r)
    /\ UNCHANGED <<users, linked, tokens, known, access, admin, faults, history>>

-----------------------------------------------------------------------------
RequestStep(r) ==
    \/ AssignRoles(r) \/ UpsertFederatedUser(r) \/ SweepReused(r) \/ ReadUser(r)
    \/ Rotate(r) \/ ReadRoles(r) \/ ReadPermissions(r)
    \/ \E t \in Tokens : StoreRefreshToken(r, t)
    \/ Reply(r)

Next ==
    \/ \E r \in Requests, u \in Users : Register(r, u) \/ Login(r, u) \/ LoginWithOIDC(r, u)
    \/ \E r \in Requests, t \in Tokens : Refresh(r, t)
    \/ \E r \in Requests : RequestStep(r) \/ ClientLeaves(r)
    \/ \E t \in Tokens : Logout(t) \/ RefreshTokenExpires(t)
    \/ \E a \in Admins, u \in Users, s \in {"active", "suspended"} : SetUserStatus(a, u, s)
    \/ \E a \in Admins : RevokeUserSessions(a)
    \/ \E u \in Users, roles \in RoleEdits : SetUserRoles(u, roles)
    \/ \E x \in access : AccessTokenExpires(x)

Spec == Init /\ [][Next]_vars

-----------------------------------------------------------------------------
(* What holds whatever the interleaving.                                    *)

\* Suspension closes the door: while an account is suspended, the only
\* requests still on their way to a new token pair are those that had passed
\* their status check before the suspension (sign-in by password or OIDC,
\* refresh, registration).  This one needs no assumption on failures.
SuspensionClosesDoor ==
    \A r \in Requests : Issuing(r) /\ users[req[r].user].status = "suspended"
        => req[r].inside

SweepPending(u) == \E a \in Admins : admin[a].pc = "sweep" /\ admin[a].user = u

\* Because SetUserStatus writes the status before it revokes the sessions, a
\* refresh token of a suspended account that survives the revocation was stored
\* by one of those requests: no session that existed before is missed, as long as
\* no statement breaks.
SuspensionEndsSessions ==
    \A t \in Tokens :
        Live(t) /\ users[tokens[t].user].status = "suspended" /\ ~SweepPending(tokens[t].user)
            => t \in late

\* The tokens that have successors and are not revoked.
Unspent == {t \in Tokens : ~tokens[t].revoked /\ \E c \in Tokens : t \in ancestors[c]}

\* Rotation spends the token.  The error of the revocation is ignored, so a failed
\* statement may leave one token usable beside its successors: no more than one
\* each, however refreshes of the same token overlap, repeat and branch, and
\* whichever clients leave half way; with no failure there is none.
UnspentAreFaults == Cardinality(Unspent) <= faults

-----------------------------------------------------------------------------
(* What the documentation says and the code does not do.                    *)

\* What FR-02.7 suggests (suspending a user revokes all of its existing refresh
\* tokens): that a suspended account is left without a live one.
SuspensionRevokesAll ==
    \A t \in Tokens :
        Live(t) /\ users[tokens[t].user].status = "suspended" => SweepPending(tokens[t].user)

\* FR-01.3: a token is revoked once it has a successor.
RotationSpends == \A c \in Tokens : \A t \in ancestors[c] : tokens[t].revoked

\* FR-01.3: a used token cannot be used again, so the tokens rotated out of
\* one form a chain.
OneSuccessor ==
    \A c, d \in Tokens : ancestors[c] \cap ancestors[d] # {}
        => c = d \/ c \in ancestors[d] \/ d \in ancestors[c]

\* FR-01.3: once reuse of a token is detected, nothing rotated out of it is live.
ReuseRevokesTree == \A t \in Tokens : Live(t) => ancestors[t] \cap reused = {}

\* FR-01.6: an access token of a suspended account is rejected (Authenticate
\* accepts every unexpired one).
SuspendedIsRejected == \A x \in access : users[x.user].status # "suspended"

\* FR-01.6: a refresh refused because of suspension revokes the token presented.
SuspendedRefreshRevokes ==
    [][\A r \in Requests :
         (/\ req[r].pc = "read" /\ req[r].op = "refresh" /\ req'[r].pc = "idle"
          /\ users[req[r].user].status = "suspended"
          /\ ~SweepPending(req[r].user))
         => tokens'[req[r].token].revoked]_vars

\* GetUserRolesAndPermissions' comment: resolved in a single round trip, so
\* that a token's permissions are those of its roles.
RolesMatchPermissions == \A x \in access : x.roles = x.permissions

\* FR-02: a newly registered user has the viewer role, until an administrator
\* edits its roles (a run without RoleEdits).
RegisteredIsViewer ==
    \A u \in Users : users[u].status # "absent"
        => "viewer" \in users[u].roles \/ \E r \in Requests : req[r].pc = "assign" /\ req[r].user = u

=============================================================================
