-------------------------- MODULE AuthSessionsProofs --------------------------
(***************************************************************************)
(* Proofs about AuthSessions: type correctness, and the safety invariants   *)
(* that the runs AuthClean and AuthFaults check, for any accounts, tokens,  *)
(* requests and administrators.                                             *)
(***************************************************************************)
EXTENDS AuthSessions, FiniteSetTheorems, TLAPS

-----------------------------------------------------------------------------
(* Type correctness needs to know which handler is at which statement:      *)
(* only a refresh presents a token, only an answer has a fresh one.         *)

ReqLink ==
    \A r \in Requests :
        /\ req[r].op = "refresh" => req[r].token \in Tokens
        /\ req[r].pc \in {"sweep", "rotate"} => req[r].op = "refresh"
        /\ req[r].pc \in {"assign", "federate"} => req[r].op # "refresh"
        /\ req[r].pc = "reply" => req[r].fresh \in Tokens

TypeInv == TypeOK /\ ReqLink

\* The request and the administrator at rest are typed.
LEMMA IdleTyped == Idle \in RequestState /\ IdleAdmin \in [pc : {"idle", "sweep"}, user : Users]
  BY SessionsAssumption DEF Idle, IdleAdmin, RequestState, AnyUser

\* The rows of refresh_tokens keep their shape under the two revocations.
LEMMA RevokedTyped ==
  ASSUME tokens \in [Tokens -> TokenRow]
  PROVE  /\ \A t \in Tokens : Revoked(t) \in [Tokens -> TokenRow]
         /\ \A u \in Users : AllRevoked(u) \in [Tokens -> TokenRow]
  BY DEF Revoked, AllRevoked, TokenRow

\* TypeInv holds initially.
LEMMA TypeInitial == Init => TypeInv
<1> SUFFICES ASSUME Init PROVE TypeInv
  OBVIOUS
<1>1. AnyUser \in Users
  BY SessionsAssumption DEF AnyUser
<1>2. TypeOK
  BY <1>1, IdleTyped DEF Init, TypeOK, UserRow, TokenRow
<1>3. ReqLink
  BY DEF Init, ReqLink, Idle
<1> QED BY <1>2, <1>3 DEF TypeInv

\* A request that ends is typed.
LEMMA EndsTyped ==
  ASSUME TypeInv, NEW r \in Requests, Ends(r)
  PROVE  req' \in [Requests -> RequestState] /\ ReqLink'
<1>1. req' \in [Requests -> RequestState]
  BY IdleTyped DEF TypeInv, TypeOK, Ends
<1>2. ReqLink'
  BY DEF TypeInv, TypeOK, ReqLink, Ends, Idle
<1> QED BY <1>1, <1>2

\* The fields of a typed request.
LEMMA FieldsTyped ==
  ASSUME NEW q \in RequestState
  PROVE  /\ \A pc \in {"rotate", "roles", "permissions", "store"} :
              [q EXCEPT !.pc = pc] \in RequestState
         /\ \A x \in SUBSET Roles :
              /\ [q EXCEPT !.pc = "permissions", !.roles = x] \in RequestState
              /\ [q EXCEPT !.pc = "store", !.permissions = x] \in RequestState
         /\ \A t \in Tokens : [q EXCEPT !.pc = "reply", !.fresh = t] \in RequestState
         /\ \A b \in BOOLEAN : [q EXCEPT !.inside = b] \in RequestState
  BY DEF RequestState

\* The conjunct of ReqLink about one request.
RowLink(row) ==
    /\ row.op = "refresh" => row.token \in Tokens
    /\ row.pc \in {"sweep", "rotate"} => row.op = "refresh"
    /\ row.pc \in {"assign", "federate"} => row.op # "refresh"
    /\ row.pc = "reply" => row.fresh \in Tokens

\* A request whose local state becomes a typed one that keeps the link.
LEMMA BecomesTyped ==
  ASSUME TypeInv, NEW r \in Requests, NEW row \in RequestState, RowLink(row),
         req' = [req EXCEPT ![r] = row]
  PROVE  req' \in [Requests -> RequestState] /\ ReqLink'
<1>1. req \in [Requests -> RequestState] /\ ReqLink
  BY DEF TypeInv, TypeOK
<1>2. req' \in [Requests -> RequestState]
  BY <1>1
<1>3. req'[r] = row /\ \A q \in Requests \ {r} : req'[q] = req[q]
  BY <1>1
<1>4. \A q \in Requests : RowLink(req'[q])
  BY <1>1, <1>3 DEF ReqLink, RowLink
<1> QED BY <1>2, <1>4 DEF ReqLink, RowLink

\* A request that goes on to another step is typed.
LEMMA GoesTyped ==
  ASSUME TypeInv, NEW r \in Requests,
         NEW pc \in {"rotate", "roles", "permissions", "store"},
         pc = "rotate" => req[r].op = "refresh",
         Goes(r, pc)
  PROVE  req' \in [Requests -> RequestState] /\ ReqLink'
<1>1. req' \in [Requests -> RequestState]
<2>1. req[r] \in RequestState
  BY DEF TypeInv, TypeOK
<2>2. [req[r] EXCEPT !.pc = pc] \in RequestState
  BY <2>1, FieldsTyped
<2> QED BY <2>2 DEF TypeInv, TypeOK, Goes
<1>2. ReqLink'
  BY DEF TypeInv, TypeOK, ReqLink, Goes, RequestState
<1> QED BY <1>1, <1>2

\* The status change marks requests, and touches nothing else of them.
LEMMA MarkTyped ==
  ASSUME TypeInv, NEW u \in Users, NEW s \in {"active", "suspended"}, MarkInside(u, s)
  PROVE  req' \in [Requests -> RequestState] /\ ReqLink' /\ late' \in SUBSET Tokens
<1>1. \A r \in Requests : [req[r] EXCEPT !.inside = (s = "suspended")] \in RequestState
  BY FieldsTyped DEF TypeInv, TypeOK
<1>2. req' \in [Requests -> RequestState]
  BY <1>1 DEF TypeInv, TypeOK, MarkInside
<1>3. \A r \in Requests : /\ req'[r].op = req[r].op /\ req'[r].pc = req[r].pc
                          /\ req'[r].token = req[r].token /\ req'[r].fresh = req[r].fresh
  BY DEF TypeInv, TypeOK, MarkInside, RequestState
<1>4. ReqLink'
  BY <1>3 DEF TypeInv, ReqLink
<1>5. late' \in SUBSET Tokens
  BY DEF TypeInv, TypeOK, MarkInside
<1> QED BY <1>2, <1>4, <1>5

\* TypeInv is kept by every step, one case per action.
LEMMA TypeStep == TypeInv /\ [Next]_vars => TypeInv'
<1> SUFFICES ASSUME TypeInv, [Next]_vars PROVE TypeInv'
  OBVIOUS
<1>0. TypeOK /\ ReqLink
  BY DEF TypeInv
<1>1. ASSUME NEW r \in Requests, NEW u \in Users, Register(r, u) PROVE TypeInv'
  <2>1. users' \in [Users -> UserRow]
    <3>1. users \in [Users -> UserRow] /\ users[u] \in UserRow
      BY <1>0 DEF TypeOK
    <3>2. [users[u] EXCEPT !.status = "active", !.password = TRUE] \in UserRow
      BY <3>1 DEF UserRow
    <3>3. users' = [users EXCEPT ![u] = [users[u] EXCEPT !.status = "active", !.password = TRUE]]
      BY <1>1, <3>1 DEF Register
    <3> QED BY <3>1, <3>2, <3>3
  <2>2. [Idle EXCEPT !.op = "register", !.pc = "assign", !.user = u] \in RequestState
    BY IdleTyped DEF RequestState, Idle
  <2>3. req' \in [Requests -> RequestState] /\ faults' \in Nat
    BY <1>0, <1>1, <2>2 DEF Register, Breaks, TypeOK
  <2>4. ReqLink'
    <3>1. CASE UNCHANGED req
      BY <1>0, <3>1 DEF ReqLink
    <3>2. CASE req' = [req EXCEPT ![r] = [Idle EXCEPT !.op = "register", !.pc = "assign",
                                                      !.user = u]]
      BY <2>2, <3>2, BecomesTyped DEF RowLink, Idle
    <3> QED BY <1>1, <3>1, <3>2 DEF Register
  <2> QED BY <1>0, <1>1, <2>1, <2>3, <2>4 DEF Register, TypeInv, TypeOK, history
<1>2. ASSUME NEW r \in Requests, AssignRoles(r) PROVE TypeInv'
  <2>1. req[r].user \in Users
    BY <1>0 DEF TypeOK, RequestState
  <2>2. users' \in [Users -> UserRow]
    BY <1>0, <1>2, <2>1, SessionsAssumption DEF AssignRoles, TypeOK, UserRow
  <2>3. faults' \in Nat /\ (Goes(r, "roles") \/ Ends(r))
    BY <1>0, <1>2 DEF AssignRoles, GivesUp, Breaks, TypeOK
  <2>4. req' \in [Requests -> RequestState] /\ ReqLink'
    BY <2>3, GoesTyped, EndsTyped
  <2> QED BY <1>0, <1>2, <2>2, <2>3, <2>4 DEF AssignRoles, TypeInv, TypeOK, history
<1>3. ASSUME NEW r \in Requests, NEW u \in Users, Login(r, u) PROVE TypeInv'
  <2>1. [Idle EXCEPT !.op = "login", !.pc = "roles", !.user = u] \in RequestState
    BY IdleTyped DEF RequestState, Idle
  <2>2. req' \in [Requests -> RequestState] /\ ReqLink'
    BY <1>3, <2>1, BecomesTyped DEF Login, RowLink, Idle
  <2> QED BY <1>0, <1>3, <2>2 DEF Login, TypeInv, TypeOK, history
<1>4. ASSUME NEW r \in Requests, NEW u \in Users, LoginWithOIDC(r, u) PROVE TypeInv'
  <2>1. \A pc \in {"read", "federate"} :
          [Idle EXCEPT !.op = "oidc", !.user = u, !.pc = pc] \in RequestState
    BY IdleTyped DEF RequestState, Idle
  <2>2. req' \in [Requests -> RequestState] /\ ReqLink'
    BY <1>4, <2>1, BecomesTyped DEF LoginWithOIDC, RowLink, Idle
  <2> QED BY <1>0, <1>4, <2>2 DEF LoginWithOIDC, TypeInv, TypeOK, history
<1>5. ASSUME NEW r \in Requests, UpsertFederatedUser(r) PROVE TypeInv'
  <2>1. req[r].user \in Users
    BY <1>0 DEF TypeOK, RequestState
  <2>2. users' \in [Users -> UserRow] /\ linked' \in SUBSET Users
    <3>1. [status |-> "active", password |-> FALSE, roles |-> {"viewer"}] \in UserRow
      BY SessionsAssumption DEF UserRow
    <3> QED BY <1>0, <1>5, <2>1, <3>1 DEF UpsertFederatedUser, TypeOK
  <2>3. faults' \in Nat /\ (Goes(r, "roles") \/ Ends(r))
    BY <1>0, <1>5 DEF UpsertFederatedUser, GivesUp, Breaks, TypeOK
  <2>4. req' \in [Requests -> RequestState] /\ ReqLink'
    BY <2>3, GoesTyped, EndsTyped
  <2> QED BY <1>0, <1>5, <2>2, <2>3, <2>4 DEF UpsertFederatedUser, TypeInv, TypeOK, history
<1>6. ASSUME NEW r \in Requests, NEW t \in Tokens, Refresh(r, t) PROVE TypeInv'
  <2>1. tokens[t].user \in Users
    BY <1>0 DEF TypeOK, TokenRow
  <2>2. \A pc \in {"sweep", "read"} :
          [Idle EXCEPT !.op = "refresh", !.user = tokens[t].user, !.token = t, !.pc = pc]
             \in RequestState
    BY IdleTyped, <2>1 DEF RequestState, Idle
  <2>3. req' \in [Requests -> RequestState] /\ ReqLink'
    BY <1>6, <2>2, BecomesTyped DEF Refresh, RowLink, Idle
  <2> QED BY <1>0, <1>6, <2>3 DEF Refresh, TypeInv, TypeOK, history
<1>7. ASSUME NEW r \in Requests, SweepReused(r) PROVE TypeInv'
  <2>1. req[r].user \in Users /\ req[r].token \in Tokens
    BY <1>0, <1>7 DEF SweepReused, TypeOK, RequestState, ReqLink
  <2>2. tokens' \in [Tokens -> TokenRow] /\ reused' \in SUBSET Tokens
    BY <1>0, <1>7, <2>1, RevokedTyped DEF SweepReused, TypeOK
  <2>3. faults' \in Nat /\ Ends(r)
    BY <1>0, <1>7 DEF SweepReused, GivesUp, Breaks, TypeOK
  <2>4. req' \in [Requests -> RequestState] /\ ReqLink'
    BY <2>3, EndsTyped
  <2> QED BY <1>0, <1>7, <2>2, <2>3, <2>4 DEF SweepReused, TypeInv, TypeOK
<1>8. ASSUME NEW r \in Requests, ReadUser(r) PROVE TypeInv'
  <2>1. faults' \in Nat
    BY <1>0, <1>8 DEF ReadUser, GivesUp, Breaks, TypeOK
  <2>2. \/ Ends(r)
        \/ Goes(r, "rotate") /\ req[r].op = "refresh"
        \/ Goes(r, "roles")
    BY <1>8 DEF ReadUser, GivesUp
  <2>3. req' \in [Requests -> RequestState] /\ ReqLink'
    BY <2>2, GoesTyped, EndsTyped
  <2> QED BY <1>0, <1>8, <2>1, <2>3 DEF ReadUser, TypeInv, TypeOK, history
<1>9. ASSUME NEW r \in Requests, Rotate(r) PROVE TypeInv'
  <2>1. req[r].token \in Tokens
    BY <1>0, <1>9 DEF Rotate, ReqLink
  <2>2. tokens' \in [Tokens -> TokenRow] /\ faults' \in Nat
    BY <1>0, <1>9, <2>1, RevokedTyped DEF Rotate, Breaks, TypeOK
  <2>3. req' \in [Requests -> RequestState] /\ ReqLink'
    BY <1>9, GoesTyped DEF Rotate
  <2> QED BY <1>0, <1>9, <2>2, <2>3 DEF Rotate, TypeInv, TypeOK, history
<1>10. ASSUME NEW r \in Requests, ReadRoles(r) \/ ReadPermissions(r) PROVE TypeInv'
  <2>1. users[req[r].user].roles \in SUBSET Roles
    BY <1>0 DEF TypeOK, UserRow, RequestState
  <2>2. /\ \A part \in SUBSET Roles : [req[r] EXCEPT !.pc = "permissions", !.roles = part]
              \in RequestState
        /\ [req[r] EXCEPT !.pc = "store", !.permissions = users[req[r].user].roles]
              \in RequestState
    BY <1>0, <2>1, FieldsTyped DEF TypeOK
  <2>3. req' \in [Requests -> RequestState] /\ ReqLink'
    <3>1. CASE Ends(r)
      BY <3>1, EndsTyped
    <3>0. /\ req \in [Requests -> RequestState] /\ req[r] \in RequestState
          /\ req[r].op = "refresh" => req[r].token \in Tokens
      BY <1>0 DEF TypeOK, ReqLink
    <3>2. ASSUME NEW part \in SUBSET Roles,
                 req' = [req EXCEPT ![r].pc = "permissions", ![r].roles = part]
          PROVE  req' \in [Requests -> RequestState] /\ ReqLink'
      <4> DEFINE row == [req[r] EXCEPT !.pc = "permissions", !.roles = part]
      <4>1. req' = [req EXCEPT ![r] = row]
        BY <3>0, <3>2 DEF RequestState
      <4>2. RowLink(row)
        BY <3>0 DEF RowLink, RequestState
      <4> QED BY <2>2, <4>1, <4>2, BecomesTyped
    <3>3. CASE req' = [req EXCEPT ![r].pc = "store", ![r].permissions = users[req[r].user].roles]
      <4> DEFINE row == [req[r] EXCEPT !.pc = "store", !.permissions = users[req[r].user].roles]
      <4>1. req' = [req EXCEPT ![r] = row]
        BY <3>0, <3>3 DEF RequestState
      <4>2. RowLink(row)
        BY <3>0 DEF RowLink, RequestState
      <4> QED BY <2>2, <4>1, <4>2, BecomesTyped
    <3>4. CASE ReadRoles(r)
      <4>1. \/ \E part \in SUBSET users[req[r].user].roles :
                  req' = [req EXCEPT ![r].pc = "permissions", ![r].roles = part]
            \/ Ends(r)
        BY <3>4 DEF ReadRoles, GivesUp
      <4>2. SUBSET users[req[r].user].roles \subseteq SUBSET Roles
        BY <2>1
      <4> QED BY <3>1, <3>2, <4>1, <4>2
    <3> QED BY <1>10, <3>1, <3>3, <3>4 DEF ReadPermissions, GivesUp
  <2>4. faults' \in Nat
    BY <1>0, <1>10 DEF ReadRoles, ReadPermissions, GivesUp, Breaks, TypeOK
  <2> QED BY <1>0, <1>10, <2>3, <2>4 DEF ReadRoles, ReadPermissions, TypeInv, TypeOK, history
<1>11. ASSUME NEW r \in Requests, NEW t \in Tokens, StoreRefreshToken(r, t) PROVE TypeInv'
  <2>1. req[r].user \in Users /\ (req[r].op = "refresh" => req[r].token \in Tokens)
    BY <1>0 DEF TypeOK, RequestState, ReqLink
  <2>2. tokens' \in [Tokens -> TokenRow]
    <3>1. [stored |-> TRUE, user |-> req[r].user, revoked |-> FALSE, expired |-> FALSE]
             \in TokenRow
      BY <2>1 DEF TokenRow
    <3> QED BY <1>0, <1>11, <3>1 DEF StoreRefreshToken, TypeOK
  <2>3. ancestors' \in [Tokens -> SUBSET Tokens]
    BY <1>0, <1>11, <2>1 DEF StoreRefreshToken, TypeOK
  <2>4. late' \in SUBSET Tokens /\ faults' \in Nat
    BY <1>0, <1>11 DEF StoreRefreshToken, GivesUp, Breaks, TypeOK
  <2>5. [req[r] EXCEPT !.pc = "reply", !.fresh = t] \in RequestState
    BY <1>0, FieldsTyped DEF TypeOK
  <2>6. req' \in [Requests -> RequestState] /\ ReqLink'
    <3>1. CASE Ends(r)
      BY <3>1, EndsTyped
    <3>2. CASE req' = [req EXCEPT ![r].pc = "reply", ![r].fresh = t]
      <4> DEFINE row == [req[r] EXCEPT !.pc = "reply", !.fresh = t]
      <4>1. req \in [Requests -> RequestState] /\ req[r] \in RequestState
        BY <1>0 DEF TypeOK
      <4>2. req' = [req EXCEPT ![r] = row]
        BY <3>2, <4>1 DEF RequestState
      <4>3. RowLink(row)
        BY <2>1, <4>1 DEF RowLink, RequestState
      <4> QED BY <2>5, <4>2, <4>3, BecomesTyped
    <3> QED BY <1>11, <3>1, <3>2 DEF StoreRefreshToken, GivesUp
  <2> QED BY <1>0, <1>11, <2>2, <2>3, <2>4, <2>6 DEF StoreRefreshToken, TypeInv, TypeOK
<1>12. ASSUME NEW r \in Requests, Reply(r) PROVE TypeInv'
  <2>1. req[r].fresh \in Tokens /\ req[r] \in RequestState
    BY <1>0, <1>12 DEF Reply, ReqLink, TypeOK
  <2>2. [user |-> req[r].user, roles |-> req[r].roles, permissions |-> req[r].permissions]
           \in AccessToken
    BY <2>1 DEF RequestState, AccessToken
  <2>3. known' \in SUBSET Tokens /\ access' \in SUBSET AccessToken
    BY <1>0, <1>12, <2>1, <2>2 DEF Reply, TypeOK
  <2>4. faults' \in Nat
    BY <1>0, <1>12 DEF Reply, Breaks, TypeOK
  <2>5. req' \in [Requests -> RequestState] /\ ReqLink'
    BY <1>12, EndsTyped DEF Reply
  <2> QED BY <1>0, <1>12, <2>3, <2>4, <2>5 DEF Reply, TypeInv, TypeOK, history
<1>13. ASSUME NEW t \in Tokens, Logout(t) \/ RefreshTokenExpires(t) PROVE TypeInv'
  <2>1. tokens' \in [Tokens -> TokenRow]
    <3>1. [tokens[t] EXCEPT !.expired = TRUE] \in TokenRow
      BY <1>0 DEF TypeOK, TokenRow
    <3> QED BY <1>0, <1>13, <3>1, RevokedTyped DEF Logout, RefreshTokenExpires, TypeOK
  <2> QED BY <1>0, <1>13, <2>1
          DEF Logout, RefreshTokenExpires, TypeInv, TypeOK, ReqLink, history
<1>14. ASSUME NEW a \in Admins, NEW u \in Users, NEW s \in {"active", "suspended"},
              SetUserStatus(a, u, s)
       PROVE  TypeInv'
  <2>1. users' \in [Users -> UserRow]
    BY <1>0, <1>14 DEF SetUserStatus, TypeOK, UserRow
  <2>2. admin' \in [Admins -> [pc : {"idle", "sweep"}, user : Users]]
    BY <1>0, <1>14 DEF SetUserStatus, TypeOK
  <2>3. req' \in [Requests -> RequestState] /\ ReqLink' /\ late' \in SUBSET Tokens
    BY <1>14, MarkTyped DEF SetUserStatus
  <2>4. faults' \in Nat
    BY <1>0, <1>14 DEF SetUserStatus, Breaks, TypeOK
  <2> QED BY <1>0, <1>14, <2>1, <2>2, <2>3, <2>4 DEF SetUserStatus, TypeInv, TypeOK
<1>15. ASSUME NEW a \in Admins, RevokeUserSessions(a) PROVE TypeInv'
  <2>1. admin[a].user \in Users
    BY <1>0 DEF TypeOK
  <2>2. tokens' \in [Tokens -> TokenRow] /\ faults' \in Nat
    BY <1>0, <1>15, <2>1, RevokedTyped DEF RevokeUserSessions, Breaks, TypeOK
  <2>3. admin' \in [Admins -> [pc : {"idle", "sweep"}, user : Users]]
    BY <1>0, <1>15, IdleTyped DEF RevokeUserSessions, TypeOK
  <2> QED BY <1>0, <1>15, <2>2, <2>3 DEF RevokeUserSessions, TypeInv, TypeOK, ReqLink, history
<1>16. ASSUME NEW u \in Users, NEW roles \in RoleEdits, SetUserRoles(u, roles) PROVE TypeInv'
  <2>1. users' \in [Users -> UserRow]
    BY <1>0, <1>16, SessionsAssumption DEF SetUserRoles, TypeOK, UserRow
  <2> QED BY <1>0, <1>16, <2>1 DEF SetUserRoles, TypeInv, TypeOK, ReqLink, history
<1>17. ASSUME NEW x \in access, AccessTokenExpires(x) PROVE TypeInv'
  BY <1>0, <1>17 DEF AccessTokenExpires, TypeInv, TypeOK, ReqLink, history
<1>18. ASSUME NEW r \in Requests, ClientLeaves(r) PROVE TypeInv'
  <2>1. req' \in [Requests -> RequestState] /\ ReqLink'
    BY <1>18, EndsTyped DEF ClientLeaves
  <2> QED BY <1>0, <1>18, <2>1 DEF ClientLeaves, TypeInv, TypeOK, history
<1>19. CASE UNCHANGED vars
  BY <1>0, <1>19 DEF vars, TypeInv, TypeOK, ReqLink
<1> QED BY <1>1, <1>2, <1>3, <1>4, <1>5, <1>6, <1>7, <1>8, <1>9, <1>10, <1>11, <1>12,
           <1>13, <1>14, <1>15, <1>16, <1>17, <1>18, <1>19 DEF Next, RequestStep

\* Every variable of the session service stays in its domain, whatever the
\* interleaving of its handlers and the failures of their statements.
THEOREM SessionsTypeCorrect == Spec => []TypeOK
<1>1. TypeInv => TypeOK
  BY DEF TypeInv
<1> QED BY <1>1, TypeInitial, TypeStep, PTL DEF Spec

-----------------------------------------------------------------------------
(* A suspended account: only the requests that had passed their check go on. *)

\* What a step must leave alone to preserve SuspensionClosesDoor: no account
\* becomes suspended, and no request becomes an issuing one.
LEMMA DoorFrame ==
  ASSUME SuspensionClosesDoor,
         \A u \in Users : users'[u].status = "suspended" => users[u].status = "suspended",
         \A r \in Requests : Issuing(r)' =>
             \/ /\ Issuing(r)
                /\ req'[r].user = req[r].user /\ req'[r].inside = req[r].inside
             \/ users'[req'[r].user].status # "suspended",
         \A r \in Requests : req[r].user \in Users
  PROVE  SuspensionClosesDoor'
  BY DEF SuspensionClosesDoor

\* A request that ends issues nothing any more.
LEMMA EndsNotIssuing ==
  ASSUME TypeInv, NEW q \in Requests, Ends(q)
  PROVE  \A r \in Requests : Issuing(r)' => Issuing(r) /\ req'[r] = req[r]
  BY DEF TypeInv, TypeOK, Ends, Idle, Issuing

\* A request that goes on keeps its user and its tokens.
LEMMA GoesKeeps ==
  ASSUME TypeInv, NEW q \in Requests, NEW pc, Goes(q, pc)
  PROVE  /\ \A r \in Requests : req'[r].user = req[r].user /\ req'[r].inside = req[r].inside
         /\ \A r \in Requests \ {q} : req'[r] = req[r]
  BY DEF TypeInv, TypeOK, Goes, RequestState

\* Every step keeps a suspended account closed to requests that come later.
LEMMA DoorStep == TypeInv /\ SuspensionClosesDoor /\ [Next]_vars => SuspensionClosesDoor'
<1> SUFFICES ASSUME TypeInv, SuspensionClosesDoor, [Next]_vars
             PROVE  SuspensionClosesDoor'
  OBVIOUS
<1>0. /\ TypeOK
      /\ \A r \in Requests : req[r] \in RequestState /\ req[r].user \in Users
  BY DEF TypeInv, TypeOK, RequestState
<1>1. ASSUME NEW r \in Requests, NEW u \in Users, Register(r, u)
      PROVE  SuspensionClosesDoor'
  <2>1. users'[u].status = "active" /\ \A v \in Users \ {u} : users'[v] = users[v]
    BY <1>0, <1>1 DEF Register, TypeOK, UserRow
  <2>2. \/ req' = req
        \/ req'[r].user = u /\ \A q \in Requests \ {r} : req'[q] = req[q]
    BY <1>0, <1>1 DEF Register, TypeOK, Idle
  <2> QED BY <1>0, <2>1, <2>2, DoorFrame DEF Issuing
<1>2. ASSUME NEW r \in Requests, AssignRoles(r) PROVE SuspensionClosesDoor'
  <2>1. \A u \in Users : users'[u].status = users[u].status
    BY <1>0, <1>2 DEF AssignRoles, TypeOK, UserRow
  <2>2. CASE Ends(r)
    BY <1>0, <2>1, <2>2, EndsNotIssuing, DoorFrame
  <2>3. CASE Goes(r, "roles")
    BY <1>0, <1>2, <2>1, <2>3, GoesKeeps, DoorFrame DEF AssignRoles, Issuing
  <2> QED BY <1>2, <2>2, <2>3 DEF AssignRoles, GivesUp
<1>3. ASSUME NEW r \in Requests, NEW u \in Users, Login(r, u) PROVE SuspensionClosesDoor'
  <2>1. req'[r].user = u /\ \A q \in Requests \ {r} : req'[q] = req[q]
    BY <1>0, <1>3 DEF Login, TypeOK, Idle
  <2>2. users' = users /\ users[u].status = "active"
    BY <1>3 DEF Login
  <2> QED BY <1>0, <2>1, <2>2, DoorFrame DEF Issuing
<1>4. ASSUME NEW r \in Requests,
             \/ \E u \in Users : LoginWithOIDC(r, u)
             \/ \E t \in Tokens : Refresh(r, t)
      PROVE  SuspensionClosesDoor'
  <2>1. users' = users
    BY <1>4 DEF LoginWithOIDC, Refresh
  <2>2. ~Issuing(r)' /\ \A q \in Requests \ {r} : req'[q] = req[q]
    <3>1. CASE \E u \in Users : LoginWithOIDC(r, u)
      BY <1>0, <3>1 DEF LoginWithOIDC, TypeOK, Idle, Issuing
    <3>2. CASE \E t \in Tokens : Refresh(r, t)
      BY <1>0, <3>2 DEF Refresh, TypeOK, Idle, Issuing
    <3> QED BY <1>4, <3>1, <3>2
  <2> QED BY <1>0, <2>1, <2>2, DoorFrame DEF Issuing
<1>5. ASSUME NEW r \in Requests, UpsertFederatedUser(r) PROVE SuspensionClosesDoor'
  <2> DEFINE u == req[r].user
  <2>1. \A v \in Users : users'[v].status = "suspended" => users[v].status = "suspended"
    BY <1>0, <1>5 DEF UpsertFederatedUser, TypeOK, UserRow
  <2>2. CASE Ends(r)
    BY <1>0, <2>1, <2>2, EndsNotIssuing, DoorFrame
  <2>3. CASE Goes(r, "roles") /\ users[u].status # "suspended"
    BY <1>0, <2>1, <2>3, GoesKeeps, DoorFrame DEF Issuing
  <2> QED BY <1>5, <2>2, <2>3 DEF UpsertFederatedUser, GivesUp
<1>6. ASSUME NEW r \in Requests, ReadUser(r) PROVE SuspensionClosesDoor'
  <2>1. users' = users
    BY <1>6 DEF ReadUser
  <2>2. CASE Ends(r)
    BY <1>0, <2>1, <2>2, EndsNotIssuing, DoorFrame
  <2>3. CASE /\ Goes(r, IF req[r].op = "refresh" THEN "rotate" ELSE "roles")
             /\ users[req[r].user].status # "suspended"
    BY <1>0, <2>1, <2>3, GoesKeeps, DoorFrame DEF Issuing
  <2> QED BY <1>6, <2>2, <2>3 DEF ReadUser, GivesUp
<1>7. ASSUME NEW r \in Requests, Rotate(r) PROVE SuspensionClosesDoor'
  <2>1. users' = users /\ Goes(r, "roles") /\ Issuing(r)
    BY <1>7 DEF Rotate, Issuing
  <2> QED BY <1>0, <2>1, GoesKeeps, DoorFrame DEF Issuing
<1>8. ASSUME NEW r \in Requests,
             ReadRoles(r) \/ ReadPermissions(r) \/ \E t \in Tokens : StoreRefreshToken(r, t)
      PROVE  SuspensionClosesDoor'
  <2>1. users' = users /\ Issuing(r)
    BY <1>8 DEF ReadRoles, ReadPermissions, StoreRefreshToken, Issuing
  <2>2. CASE Ends(r)
    BY <1>0, <2>1, <2>2, EndsNotIssuing, DoorFrame
  <2>3. CASE ~Ends(r)
    <3>1. /\ req'[r].user = req[r].user /\ req'[r].inside = req[r].inside
          /\ \A q \in Requests \ {r} : req'[q] = req[q]
      BY <1>0, <1>8, <2>3
         DEF ReadRoles, ReadPermissions, StoreRefreshToken, GivesUp, TypeOK, RequestState
    <3> QED BY <1>0, <2>1, <3>1, DoorFrame DEF Issuing
  <2> QED BY <2>2, <2>3
<1>9. ASSUME NEW r \in Requests, SweepReused(r) \/ Reply(r) \/ ClientLeaves(r)
      PROVE  SuspensionClosesDoor'
  <2>1. users' = users /\ Ends(r)
    BY <1>9 DEF SweepReused, Reply, ClientLeaves, GivesUp
  <2> QED BY <1>0, <2>1, EndsNotIssuing, DoorFrame
<1>10. ASSUME NEW a \in Admins, NEW u \in Users, NEW s \in {"active", "suspended"},
              SetUserStatus(a, u, s)
       PROVE  SuspensionClosesDoor'
  <2>1. users'[u].status = s /\ \A v \in Users \ {u} : users'[v] = users[v]
    BY <1>0, <1>10 DEF SetUserStatus, TypeOK, UserRow
  <2>2. \A r \in Requests :
          /\ req'[r].user = req[r].user /\ Issuing(r)' = Issuing(r)
          /\ Issuing(r) /\ req[r].user = u => req'[r].inside = (s = "suspended")
          /\ req[r].user # u => req'[r] = req[r]
    BY <1>0, <1>10 DEF SetUserStatus, MarkInside, TypeOK, RequestState, Issuing
  <2>3. SUFFICES ASSUME NEW r \in Requests, Issuing(r)',
                        users'[req'[r].user].status = "suspended"
                 PROVE  req'[r].inside
    BY DEF SuspensionClosesDoor
  <2>4. CASE req[r].user = u
    BY <2>1, <2>2, <2>3, <2>4
  <2>5. CASE req[r].user # u
    BY <1>0, <2>1, <2>2, <2>3, <2>5 DEF SuspensionClosesDoor
  <2> QED BY <2>4, <2>5
<1>11. CASE \/ \E t \in Tokens : Logout(t) \/ RefreshTokenExpires(t)
            \/ \E a \in Admins : RevokeUserSessions(a)
            \/ \E x \in access : AccessTokenExpires(x)
            \/ UNCHANGED vars
  <2>1. users' = users /\ req' = req
    BY <1>11 DEF Logout, RefreshTokenExpires, RevokeUserSessions, AccessTokenExpires, vars
  <2> QED BY <2>1 DEF SuspensionClosesDoor, Issuing
<1>12. ASSUME NEW u \in Users, NEW roles \in RoleEdits, SetUserRoles(u, roles)
       PROVE  SuspensionClosesDoor'
  <2>1. req' = req /\ \A v \in Users : users'[v].status = users[v].status
    BY <1>0, <1>12 DEF SetUserRoles, TypeOK, UserRow
  <2> QED BY <1>0, <2>1 DEF SuspensionClosesDoor, Issuing
<1> QED BY <1>1, <1>2, <1>3, <1>4, <1>5, <1>6, <1>7, <1>8, <1>9, <1>10, <1>11, <1>12
        DEF Next, RequestStep

\* No request has come later than a suspension initially.
LEMMA DoorInitial == Init => SuspensionClosesDoor
  BY DEF Init, SuspensionClosesDoor, Issuing, Idle

\* Suspension closes the door for every account, whatever statement fails: a
\* request reaches the issuing part of a suspended account's sign-in or refresh
\* only if it was past its status check when the status was written.
THEOREM SuspensionClosesTheDoor == Spec => []SuspensionClosesDoor
<1>1. Init => TypeInv /\ SuspensionClosesDoor
  BY TypeInitial, DoorInitial
<1>2. TypeInv /\ SuspensionClosesDoor /\ [Next]_vars => (TypeInv /\ SuspensionClosesDoor)'
  BY TypeStep, DoorStep
<1> QED BY <1>1, <1>2, PTL DEF Spec

-----------------------------------------------------------------------------
(* As long as no statement breaks: the sessions of a suspended account.      *)

\* What a step must leave alone to preserve SuspensionEndsSessions: no account
\* becomes suspended, no sweep ends, no token becomes live or leaves late.
LEMMA SessionsFrame ==
  ASSUME SuspensionEndsSessions,
         \A t \in Tokens : tokens[t].user \in Users,
         \A u \in Users : users'[u].status = "suspended" => users[u].status = "suspended",
         admin' = admin, late \subseteq late',
         \A t \in Tokens : Live(t)' => \/ Live(t) /\ tokens'[t].user = tokens[t].user
                                       \/ t \in late'
                                       \/ users'[tokens'[t].user].status # "suspended"
  PROVE  SuspensionEndsSessions'
  BY DEF SuspensionEndsSessions, SweepPending

\* Revoking never revives a token, and revoking all leaves the user none.
LEMMA RevokedNotLive ==
  ASSUME TypeOK
  PROVE  /\ \A c, t \in Tokens : tokens' = Revoked(c) =>
               (Live(t)' => Live(t) /\ tokens'[t].user = tokens[t].user)
         /\ \A u \in Users, t \in Tokens : tokens' = AllRevoked(u) =>
               (Live(t)' => Live(t) /\ tokens'[t].user = tokens[t].user /\ tokens[t].user # u)
  BY DEF TypeOK, Revoked, AllRevoked, TokenRow, Live

\* Every step keeps what a suspension ended ended.
LEMMA SessionsStep ==
  ASSUME MaxFaults = 0
  PROVE  TypeInv /\ SuspensionClosesDoor /\ SuspensionEndsSessions /\ [Next]_vars
            => SuspensionEndsSessions'
<1> SUFFICES ASSUME TypeInv, SuspensionClosesDoor, SuspensionEndsSessions, [Next]_vars
             PROVE  SuspensionEndsSessions'
  OBVIOUS
<1>0. /\ TypeOK /\ ReqLink /\ ~Breaks
      /\ \A t \in Tokens : tokens[t] \in TokenRow /\ tokens[t].user \in Users
      /\ \A r \in Requests : req[r] \in RequestState /\ req[r].user \in Users
      /\ \A a \in Admins : admin[a].user \in Users
  BY DEF TypeInv, TypeOK, RequestState, TokenRow, Breaks
<1>1. ASSUME NEW r \in Requests, NEW u \in Users, Register(r, u)
      PROVE  SuspensionEndsSessions'
  <2>1. \A v \in Users : users'[v].status = "suspended" => users[v].status = "suspended"
    BY <1>0, <1>1 DEF Register, TypeOK, UserRow
  <2> QED BY <1>0, <1>1, <2>1, SessionsFrame DEF Register, Live, history
<1>2. ASSUME NEW r \in Requests, AssignRoles(r) \/ UpsertFederatedUser(r)
      PROVE  SuspensionEndsSessions'
  <2>1. \A v \in Users : users'[v].status = "suspended" => users[v].status = "suspended"
    <3>1. CASE AssignRoles(r)
      BY <1>0, <3>1 DEF AssignRoles, TypeOK, UserRow
    <3>2. CASE UpsertFederatedUser(r)
      BY <1>0, <3>2 DEF UpsertFederatedUser, TypeOK, UserRow
    <3> QED BY <1>2, <3>1, <3>2
  <2>2. tokens' = tokens /\ admin' = admin /\ late' = late
    BY <1>2 DEF AssignRoles, UpsertFederatedUser, history
  <2> QED BY <1>0, <2>1, <2>2, SessionsFrame DEF Live
<1>3. CASE \/ \E r \in Requests, u \in Users : Login(r, u) \/ LoginWithOIDC(r, u)
           \/ \E r \in Requests, t \in Tokens : Refresh(r, t)
           \/ \E r \in Requests : \/ ReadUser(r) \/ ReadRoles(r) \/ ReadPermissions(r)
                                  \/ Reply(r) \/ ClientLeaves(r)
           \/ \E x \in access : AccessTokenExpires(x)
           \/ UNCHANGED vars
  <2>1. users' = users /\ tokens' = tokens /\ admin' = admin /\ late' = late
    BY <1>3 DEF Login, LoginWithOIDC, Refresh, ReadUser, ReadRoles, ReadPermissions, Reply,
                ClientLeaves, AccessTokenExpires, vars, history
  <2> QED BY <1>0, <2>1, SessionsFrame DEF Live
<1>4. ASSUME NEW r \in Requests, SweepReused(r) \/ Rotate(r) PROVE SuspensionEndsSessions'
  <2>1. users' = users /\ admin' = admin /\ late' = late
    BY <1>4 DEF SweepReused, Rotate, history
  <2>2. tokens' = AllRevoked(req[r].user) \/ tokens' = Revoked(req[r].token)
    BY <1>0, <1>4 DEF SweepReused, Rotate, GivesUp
  <2>3. req[r].token \in Tokens
    BY <1>0, <1>4 DEF SweepReused, Rotate, ReqLink
  <2>4. \A t \in Tokens : Live(t)' => Live(t) /\ tokens'[t].user = tokens[t].user
    BY <1>0, <2>2, <2>3, RevokedNotLive
  <2> QED BY <1>0, <2>1, <2>4, SessionsFrame
<1>5. ASSUME NEW r \in Requests, NEW t \in Tokens, StoreRefreshToken(r, t)
      PROVE  SuspensionEndsSessions'
  <2>1. /\ users' = users /\ admin' = admin /\ late \subseteq late'
        /\ tokens' = [tokens EXCEPT ![t] = [stored |-> TRUE, user |-> req[r].user,
                                            revoked |-> FALSE, expired |-> FALSE]]
        /\ req[r].inside => t \in late'
    BY <1>0, <1>5 DEF StoreRefreshToken, GivesUp
  <2>2. users[req[r].user].status = "suspended" => req[r].inside
    BY <1>5 DEF StoreRefreshToken, SuspensionClosesDoor, Issuing
  <2>3. tokens'[t].user = req[r].user /\ \A c \in Tokens \ {t} : tokens'[c] = tokens[c]
    BY <1>0, <2>1 DEF TypeOK
  <2>4. \A c \in Tokens : Live(c)' => \/ Live(c) /\ tokens'[c].user = tokens[c].user
                                      \/ c \in late'
                                      \/ users'[tokens'[c].user].status # "suspended"
    BY <2>1, <2>2, <2>3 DEF Live
  <2> QED BY <1>0, <2>1, <2>4, SessionsFrame
<1>6. ASSUME NEW t \in Tokens, Logout(t) \/ RefreshTokenExpires(t)
      PROVE  SuspensionEndsSessions'
  <2>1. users' = users /\ admin' = admin /\ late' = late
    BY <1>6 DEF Logout, RefreshTokenExpires, history
  <2>2. \A c \in Tokens : Live(c)' => Live(c) /\ tokens'[c].user = tokens[c].user
    <3>1. CASE Logout(t)
      BY <1>0, <3>1, RevokedNotLive DEF Logout
    <3>2. CASE RefreshTokenExpires(t)
      BY <1>0, <3>2 DEF RefreshTokenExpires, Live, TypeOK, TokenRow
    <3> QED BY <1>6, <3>1, <3>2
  <2> QED BY <1>0, <2>1, <2>2, SessionsFrame
<1>7. ASSUME NEW a \in Admins, NEW u \in Users, NEW s \in {"active", "suspended"},
             SetUserStatus(a, u, s)
      PROVE  SuspensionEndsSessions'
  <2>1. /\ tokens' = tokens
        /\ users'[u].status = s /\ \A v \in Users \ {u} : users'[v] = users[v]
        /\ \A t \in late : tokens[t].user # u => t \in late'
    BY <1>0, <1>7 DEF SetUserStatus, MarkInside, TypeOK, UserRow
  <2>2. \A v \in Users : SweepPending(v) => SweepPending(v)'
    BY <1>0, <1>7 DEF SetUserStatus, SweepPending, TypeOK
  <2>3. s = "suspended" => SweepPending(u)'
    BY <1>0, <1>7 DEF SetUserStatus, SweepPending, TypeOK
  <2>4. ASSUME NEW t \in Tokens, Live(t), users'[tokens[t].user].status = "suspended",
               ~SweepPending(tokens[t].user)', tokens[t].user \in Users
        PROVE  t \in late'
    <3>1. tokens[t].user # u
      <4>1. tokens'[t].user = tokens[t].user
        BY <2>1
      <4> QED BY <2>1, <2>3, <2>4, <4>1 DEF SweepPending
    <3>2. ~SweepPending(tokens[t].user) /\ users[tokens[t].user].status = "suspended"
      BY <2>1, <2>2, <2>4, <3>1 DEF SweepPending
    <3> QED BY <2>1, <2>4, <3>1, <3>2 DEF SuspensionEndsSessions
  <2> QED BY <1>0, <2>1, <2>4 DEF SuspensionEndsSessions, SweepPending, Live
<1>8. ASSUME NEW a \in Admins, RevokeUserSessions(a) PROVE SuspensionEndsSessions'
  <2> DEFINE u == admin[a].user
  <2>1. tokens' = AllRevoked(u) /\ users' = users /\ late' = late
    BY <1>0, <1>8 DEF RevokeUserSessions, history
  <2>2. \A v \in Users \ {u} : SweepPending(v) => SweepPending(v)'
    BY <1>0, <1>8 DEF RevokeUserSessions, SweepPending, TypeOK
  <2>3. \A t \in Tokens : Live(t)' => /\ Live(t) /\ tokens'[t].user = tokens[t].user
                                      /\ tokens[t].user # u
    BY <1>0, <2>1, RevokedNotLive
  <2> QED BY <1>0, <2>1, <2>2, <2>3 DEF SuspensionEndsSessions, SweepPending
<1>9. ASSUME NEW u \in Users, NEW roles \in RoleEdits, SetUserRoles(u, roles)
      PROVE  SuspensionEndsSessions'
  <2>1. \A v \in Users : users'[v].status = users[v].status
    BY <1>0, <1>9 DEF SetUserRoles, TypeOK, UserRow
  <2>2. tokens' = tokens /\ admin' = admin /\ late' = late
    BY <1>9 DEF SetUserRoles, history
  <2> QED BY <1>0, <2>1, <2>2, SessionsFrame DEF Live
<1> QED BY <1>1, <1>2, <1>3, <1>4, <1>5, <1>6, <1>7, <1>8, <1>9 DEF Next, RequestStep

\* If no statement breaks, a suspension misses no session: the live refresh
\* tokens of a suspended account whose revocation has run were all stored, since
\* the suspension, by requests that had passed their status check before it.
THEOREM SuspensionEndsTheSessions ==
  ASSUME MaxFaults = 0
  PROVE  Spec => []SuspensionEndsSessions
<1> DEFINE Inv == TypeInv /\ SuspensionClosesDoor /\ SuspensionEndsSessions
<1>1. Init => Inv
  <2>1. Init => SuspensionEndsSessions
    BY SessionsAssumption DEF Init, SuspensionEndsSessions, Live
  <2> QED BY <2>1, TypeInitial, DoorInitial
<1>2. Inv /\ [Next]_vars => Inv'
  BY TypeStep, DoorStep, SessionsStep
<1>3. Inv => SuspensionEndsSessions
  OBVIOUS
<1> QED BY <1>1, <1>2, <1>3, PTL DEF Spec

-----------------------------------------------------------------------------
(* As long as no statement breaks: rotation.                                 *)

\* Only stored tokens are known, presented, answered or revoked.
StoredInv ==
    /\ \A t \in Tokens : tokens[t].revoked => tokens[t].stored
    /\ \A t \in known : tokens[t].stored
    /\ \A r \in Requests :
         /\ req[r].op = "refresh" => tokens[req[r].token].stored
         /\ req[r].pc = "reply" => tokens[req[r].fresh].stored

\* A refresh on its way to its new pair has revoked the token it presented.
Spent ==
    \A r \in Requests :
        req[r].op = "refresh" /\ req[r].pc \in {"roles", "permissions", "store"}
            => tokens[req[r].token].revoked

RotationInv == StoredInv /\ Spent /\ RotationSpends

\* What a step must leave alone to preserve RotationInv: no token is unstored or
\* unrevoked, and no request gets past its rotation.
TokensKept ==
    \A t \in Tokens : /\ tokens[t].stored => tokens'[t].stored
                      /\ tokens[t].revoked => tokens'[t].revoked
                      /\ tokens'[t].revoked => tokens'[t].stored

KnownKept == \A t \in known' : t \in known \/ (t \in Tokens /\ tokens[t].stored)

RequestKept(r) ==
    \/ req'[r].op # "refresh" /\ req'[r].pc # "reply"
    \/ /\ req'[r].op = req[r].op /\ req'[r].token = req[r].token
       /\ req'[r].pc = "reply" => req[r].pc = "reply" /\ req'[r].fresh = req[r].fresh
       /\ req'[r].pc \in {"roles", "permissions", "store"} =>
            \/ req[r].pc \in {"roles", "permissions", "store"}
            \/ req[r].op # "refresh"
            \/ tokens'[req[r].token].revoked

\* Refresh tokens that a step leaves alone stay spent.
LEMMA SameKept ==
  /\ \A r \in Requests : req'[r] = req[r] => RequestKept(r)
  /\ StoredInv /\ tokens' = tokens => TokensKept
  /\ known' = known => KnownKept
<1>1. \A r \in Requests : req'[r] = req[r] => RequestKept(r)
  BY Zenon DEF RequestKept
<1>2. StoredInv /\ tokens' = tokens => TokensKept
  BY DEF TokensKept, StoredInv
<1>3. ASSUME known' = known PROVE KnownKept
  <2>1. SUFFICES ASSUME NEW t \in known' PROVE t \in known
    BY DEF KnownKept
  <2> QED BY <1>3
<1> QED BY <1>1, <1>2, <1>3

\* A request that ends leaves the refresh tokens as they are.
LEMMA EndsKept ==
  ASSUME TypeInv, NEW q \in Requests, Ends(q)
  PROVE  \A r \in Requests : RequestKept(r)
<1>1. req'[q] = Idle /\ \A r \in Requests \ {q} : req'[r] = req[r]
  BY DEF Ends, TypeInv, TypeOK
<1>2. RequestKept(q)
  BY <1>1 DEF RequestKept, Idle
<1> QED BY <1>1, <1>2, SameKept

\* The steps that touch no refresh token.
LEMMA RotationFrame ==
  ASSUME TypeInv, RotationInv, ancestors' = ancestors, TokensKept, KnownKept,
         \A r \in Requests : RequestKept(r)
  PROVE  RotationInv'
<1>0. /\ TypeOK /\ ReqLink /\ StoredInv /\ Spent /\ RotationSpends
      /\ \A t \in Tokens : ancestors[t] \subseteq Tokens
      /\ known \subseteq Tokens
  BY DEF TypeInv, TypeOK, RotationInv
<1>1. StoredInv'
  BY <1>0 DEF StoredInv, ReqLink, TokensKept, KnownKept, RequestKept
<1>2. Spent'
  BY <1>0 DEF Spent, ReqLink, TokensKept, RequestKept
<1>3. RotationSpends'
  BY <1>0 DEF RotationSpends, TokensKept
<1> QED BY <1>1, <1>2, <1>3 DEF RotationInv

\* The two revocations only revoke, and only stored tokens.
LEMMA RevokedOnly ==
  ASSUME TypeOK, StoredInv
  PROVE  /\ \A c \in Tokens : tokens[c].stored /\ tokens' = Revoked(c) =>
              tokens'[c].revoked /\ TokensKept
         /\ \A u \in Users : tokens' = AllRevoked(u) => TokensKept
  BY DEF TypeOK, Revoked, AllRevoked, TokenRow, StoredInv, TokensKept

\* Every step keeps rotated tokens spent.
LEMMA RotationStep ==
  ASSUME MaxFaults = 0
  PROVE  TypeInv /\ RotationInv /\ [Next]_vars => RotationInv'
<1> SUFFICES ASSUME TypeInv, RotationInv, [Next]_vars PROVE RotationInv'
  OBVIOUS
<1>0. /\ TypeOK /\ ReqLink /\ StoredInv /\ Spent /\ RotationSpends /\ ~Breaks
      /\ \A t \in Tokens : tokens[t] \in TokenRow
      /\ \A r \in Requests : req[r] \in RequestState /\ req[r].user \in Users
      /\ \A a \in Admins : admin[a].user \in Users
  BY DEF TypeInv, TypeOK, RotationInv, RequestState, Breaks
<1>1. \A t \in Tokens : tokens[t].revoked => tokens[t].stored
  BY <1>0 DEF StoredInv
<1>2. ASSUME NEW r \in Requests, Ends(r), ancestors' = ancestors, tokens' = tokens, known' = known
      PROVE  RotationInv'
  BY <1>0, <1>2, EndsKept, SameKept, RotationFrame
<1>3. ASSUME NEW r \in Requests,
             \/ \E u \in Users : Register(r, u) \/ Login(r, u) \/ LoginWithOIDC(r, u)
             \/ AssignRoles(r) \/ UpsertFederatedUser(r)
             \/ ReadUser(r) \/ ReadRoles(r) \/ ReadPermissions(r) \/ ClientLeaves(r)
      PROVE  RotationInv'
  <2>1. ancestors' = ancestors /\ tokens' = tokens /\ known' = known
    BY <1>3 DEF Register, Login, LoginWithOIDC, AssignRoles, UpsertFederatedUser, ReadUser,
                ReadRoles, ReadPermissions, ClientLeaves, history
  <2>2. CASE Ends(r)
    BY <1>2, <2>1, <2>2
  <2>3. CASE \E u \in Users : Register(r, u) \/ Login(r, u) \/ LoginWithOIDC(r, u)
    <3>1. /\ req'[r].op # "refresh" /\ req'[r].pc # "reply"
          /\ \A q \in Requests \ {r} : req'[q] = req[q]
      <4>1. CASE \E u \in Users : Register(r, u)
        <5>1. PICK u \in Users : Register(r, u)
          BY <4>1
        <5>2. req' = [req EXCEPT ![r] = [Idle EXCEPT !.op = "register", !.pc = "assign",
                                                     !.user = u]]
          BY <1>0, <5>1 DEF Register
        <5> QED BY <1>0, <5>2 DEF TypeOK, Idle
      <4>2. CASE \E u \in Users : Login(r, u)
        BY <1>0, <4>2 DEF Login, TypeOK, Idle
      <4>3. CASE \E u \in Users : LoginWithOIDC(r, u)
        BY <1>0, <4>3 DEF LoginWithOIDC, TypeOK, Idle
      <4> QED BY <2>3, <4>1, <4>2, <4>3
    <3>2. \A q \in Requests : RequestKept(q)
      BY <3>1, SameKept DEF RequestKept
    <3> QED BY <1>0, <2>1, <3>2, SameKept, RotationFrame
  <2>4. CASE ~Ends(r) /\ \/ AssignRoles(r) \/ UpsertFederatedUser(r)
                         \/ ReadUser(r) \/ ReadRoles(r) \/ ReadPermissions(r)
    <3>1. /\ req'[r].op = req[r].op /\ req'[r].token = req[r].token /\ req'[r].pc # "reply"
          /\ \A q \in Requests \ {r} : req'[q] = req[q]
      <4>1. \/ Goes(r, "roles") \/ Goes(r, "rotate")
            \/ \E part \in SUBSET users[req[r].user].roles :
                 req' = [req EXCEPT ![r].pc = "permissions", ![r].roles = part]
            \/ req' = [req EXCEPT ![r].pc = "store", ![r].permissions = users[req[r].user].roles]
        BY <2>4 DEF AssignRoles, UpsertFederatedUser, ReadUser, ReadRoles, ReadPermissions,
                    GivesUp
      <4> QED BY <1>0, <4>1 DEF Goes, TypeOK, RequestState
    <3>2. req'[r].pc \in {"roles", "permissions", "store"} =>
            req[r].pc \in {"roles", "permissions", "store"} \/ req[r].op # "refresh"
      <4>1. CASE AssignRoles(r) \/ UpsertFederatedUser(r)
        BY <1>0, <4>1 DEF AssignRoles, UpsertFederatedUser, ReqLink
      <4>2. CASE ReadUser(r)
        BY <1>0, <2>4, <4>2 DEF ReadUser, GivesUp, Goes, TypeOK, RequestState
      <4>3. CASE ReadRoles(r) \/ ReadPermissions(r)
        BY <4>3 DEF ReadRoles, ReadPermissions
      <4> QED BY <2>4, <4>1, <4>2, <4>3
    <3>3. \A q \in Requests : RequestKept(q)
      BY <3>1, <3>2, SameKept DEF RequestKept
    <3> QED BY <1>0, <2>1, <3>3, SameKept, RotationFrame
  <2> QED BY <1>3, <2>2, <2>3, <2>4 DEF ClientLeaves
<1>4. ASSUME NEW r \in Requests, NEW t \in Tokens, Refresh(r, t) PROVE RotationInv'
  <2>1. /\ ancestors' = ancestors /\ tokens' = tokens /\ known' = known
        /\ tokens[t].stored
    BY <1>0, <1>4 DEF Refresh, history, StoredInv
  <2>2. /\ req'[r].op = "refresh" /\ req'[r].token = t /\ req'[r].pc \in {"sweep", "read"}
        /\ \A q \in Requests \ {r} : req'[q] = req[q]
    BY <1>0, <1>4 DEF Refresh, TypeOK, Idle
  <2>3. StoredInv'
    BY <1>0, <2>1, <2>2 DEF StoredInv
  <2>4. Spent'
    BY <1>0, <2>1, <2>2 DEF Spent
  <2> QED BY <1>0, <2>1, <2>3, <2>4 DEF RotationInv, RotationSpends
<1>5. ASSUME NEW r \in Requests, SweepReused(r) PROVE RotationInv'
  <2>1. /\ tokens' = AllRevoked(req[r].user) /\ ancestors' = ancestors /\ known' = known
        /\ Ends(r)
    BY <1>0, <1>5 DEF SweepReused, GivesUp
  <2> QED BY <1>0, <2>1, EndsKept, SameKept, RevokedOnly, RotationFrame
<1>6. ASSUME NEW r \in Requests, Rotate(r) PROVE RotationInv'
  <2>1. /\ tokens' = Revoked(req[r].token) /\ ancestors' = ancestors /\ known' = known
        /\ Goes(r, "roles") /\ req[r].op = "refresh"
    BY <1>0, <1>6 DEF Rotate, history, ReqLink
  <2>2. req[r].token \in Tokens /\ tokens[req[r].token].stored
    BY <1>0, <2>1 DEF ReqLink, StoredInv
  <2>3. /\ req'[r].op = req[r].op /\ req'[r].token = req[r].token /\ req'[r].pc = "roles"
        /\ \A q \in Requests \ {r} : req'[q] = req[q]
    BY <1>0, <2>1 DEF Goes, TypeOK, RequestState
  <2>4. tokens'[req[r].token].revoked
    BY <1>0, <2>1, <2>2, RevokedOnly
  <2>5. \A q \in Requests : RequestKept(q)
    BY <2>3, <2>4, SameKept DEF RequestKept
  <2> QED BY <1>0, <2>1, <2>2, <2>5, SameKept, RevokedOnly, RotationFrame
<1>7. ASSUME NEW r \in Requests, NEW t \in Tokens, StoreRefreshToken(r, t) PROVE RotationInv'
  <2>1. /\ tokens' = [tokens EXCEPT ![t] = [stored |-> TRUE, user |-> req[r].user,
                                            revoked |-> FALSE, expired |-> FALSE]]
        /\ ancestors' = [ancestors EXCEPT ![t] =
                           IF req[r].op = "refresh"
                           THEN ancestors[req[r].token] \cup {req[r].token} ELSE {}]
        /\ req' = [req EXCEPT ![r].pc = "reply", ![r].fresh = t]
        /\ known' = known /\ ~tokens[t].stored /\ req[r].pc = "store"
    BY <1>0, <1>7 DEF StoreRefreshToken, GivesUp
  <2>2. /\ req'[r].op = req[r].op /\ req'[r].token = req[r].token
        /\ req'[r].pc = "reply" /\ req'[r].fresh = t
        /\ \A q \in Requests \ {r} : req'[q] = req[q]
    BY <1>0, <2>1 DEF TypeOK, RequestState
  <2>3. /\ tokens'[t].stored /\ ~tokens'[t].revoked
        /\ \A c \in Tokens \ {t} : tokens'[c] = tokens[c]
    BY <1>0, <2>1 DEF TypeOK
  <2>4. \A c \in Tokens : tokens[c].stored => c # t
    BY <2>1
  <2>5. StoredInv'
    BY <1>0, <2>1, <2>2, <2>3, <2>4 DEF StoredInv, ReqLink, TypeOK
  <2>6. Spent'
    BY <1>0, <1>1, <2>2, <2>3, <2>4 DEF Spent, ReqLink
  <2>7. \A c \in Tokens \ {t} : ancestors'[c] = ancestors[c]
    BY <1>0, <2>1 DEF TypeOK
  <2>8. \A b \in Tokens : tokens[b].revoked => tokens'[b].revoked
    BY <1>1, <2>3, <2>4
  <2>9. \A b \in ancestors'[t] : tokens[b].revoked /\ b \in Tokens
    <3>1. CASE req[r].op = "refresh"
      <4>1. /\ ancestors'[t] = ancestors[req[r].token] \cup {req[r].token}
            /\ req[r].token \in Tokens
        BY <1>0, <2>1, <3>1 DEF TypeOK, ReqLink
      <4>2. tokens[req[r].token].revoked
        BY <1>0, <2>1, <3>1 DEF Spent
      <4> QED BY <1>0, <4>1, <4>2 DEF RotationSpends, TypeOK
    <3>2. CASE req[r].op # "refresh"
      BY <1>0, <2>1, <3>2 DEF TypeOK
    <3> QED BY <3>1, <3>2
  <2>10. RotationSpends'
    BY <1>0, <2>7, <2>8, <2>9 DEF RotationSpends, TypeOK
  <2> QED BY <2>5, <2>6, <2>10 DEF RotationInv
<1>8. ASSUME NEW r \in Requests, Reply(r) PROVE RotationInv'
  <2>1. /\ tokens' = tokens /\ ancestors' = ancestors /\ known' = known \cup {req[r].fresh}
        /\ Ends(r) /\ req[r].pc = "reply"
    BY <1>0, <1>8 DEF Reply, history
  <2>2. KnownKept
    BY <1>0, <2>1 DEF ReqLink, StoredInv, KnownKept
  <2> QED BY <1>0, <2>1, <2>2, EndsKept, SameKept, RotationFrame
<1>9. ASSUME NEW t \in Tokens, Logout(t) \/ RefreshTokenExpires(t) PROVE RotationInv'
  <2>1. ancestors' = ancestors /\ known' = known /\ req' = req
    BY <1>9 DEF Logout, RefreshTokenExpires, history
  <2>2. TokensKept
    <3>1. CASE Logout(t)
      <4>1. tokens[t].stored
        BY <1>0, <3>1 DEF Logout, StoredInv
      <4> QED BY <1>0, <3>1, <4>1, RevokedOnly DEF Logout
    <3>2. CASE RefreshTokenExpires(t)
      BY <1>0, <1>1, <3>2 DEF RefreshTokenExpires, TypeOK, TokenRow, TokensKept
    <3> QED BY <1>9, <3>1, <3>2
  <2>3. \A r \in Requests : RequestKept(r)
    BY <2>1, SameKept
  <2> QED BY <2>1, <2>2, <2>3, SameKept, RotationFrame
<1>10. ASSUME NEW a \in Admins, NEW u \in Users, NEW s \in {"active", "suspended"},
              SetUserStatus(a, u, s)
       PROVE  RotationInv'
  <2>1. tokens' = tokens /\ ancestors' = ancestors /\ known' = known
    BY <1>10 DEF SetUserStatus
  <2>2. \A r \in Requests : /\ req'[r].op = req[r].op /\ req'[r].pc = req[r].pc
                            /\ req'[r].token = req[r].token /\ req'[r].fresh = req[r].fresh
    BY <1>0, <1>10 DEF SetUserStatus, MarkInside, RequestState
  <2>3. \A r \in Requests : RequestKept(r)
    BY <2>2 DEF RequestKept
  <2> QED BY <1>0, <2>1, <2>3, SameKept, RotationFrame
<1>11. ASSUME NEW a \in Admins, RevokeUserSessions(a) PROVE RotationInv'
  <2>1. /\ tokens' = AllRevoked(admin[a].user) /\ ancestors' = ancestors /\ known' = known
        /\ req' = req
    BY <1>0, <1>11 DEF RevokeUserSessions, history
  <2> QED BY <1>0, <2>1, SameKept, RevokedOnly, RotationFrame
<1>12. CASE \/ \E u \in Users, roles \in RoleEdits : SetUserRoles(u, roles)
            \/ \E x \in access : AccessTokenExpires(x)
            \/ UNCHANGED vars
  <2>1. tokens' = tokens /\ ancestors' = ancestors /\ known' = known /\ req' = req
    BY <1>12 DEF SetUserRoles, AccessTokenExpires, vars, history
  <2> QED BY <1>0, <2>1, SameKept, RotationFrame
<1> QED BY <1>3, <1>4, <1>5, <1>6, <1>7, <1>8, <1>9, <1>10, <1>11, <1>12 DEF Next, RequestStep

\* If no statement breaks, a token that has been rotated is revoked for good,
\* however the refreshes of one token, the sweeps and the logouts interleave.
THEOREM RotationSpendsTheToken ==
  ASSUME MaxFaults = 0
  PROVE  Spec => []RotationSpends
<1> DEFINE Inv == TypeInv /\ RotationInv
<1>1. Init => Inv
  <2>1. Init => RotationInv
    BY DEF Init, RotationInv, StoredInv, Spent, RotationSpends, Idle
  <2> QED BY <2>1, TypeInitial
<1>2. Inv /\ [Next]_vars => Inv'
  BY TypeStep, RotationStep
<1>3. Inv => RotationSpends
  BY DEF RotationInv
<1> QED BY <1>1, <1>2, <1>3, PTL DEF Spec

-----------------------------------------------------------------------------
(* Reuse and succession, which interleavings of two refreshes break, hold as *)
(* long as the refreshes of one account do not overlap.                      *)

\* Of two requests that refresh, each is for an account of its own.
RefreshesApart ==
    \A q, r \in Requests :
        q # r /\ req[q].op = "refresh" /\ req[r].op = "refresh" => req[q].user # req[r].user

\* The tokens rotated out of one another are of one account, and a request
\* that refreshes is for the account of the token it presents.
OwnInv ==
    /\ StoredInv
    /\ \A t \in Tokens : \A a \in ancestors[t] :
         tokens[a].stored /\ tokens[a].user = tokens[t].user
    /\ \A r \in Requests : req[r].op = "refresh" => tokens[req[r].token].user = req[r].user
    /\ \A t \in reused : tokens[t].revoked

\* A refresh that has found its token live is for a tree where no reuse has
\* been caught.
CaughtInv ==
    \A r \in Requests :
        req[r].op = "refresh" /\ req[r].pc # "sweep" =>
            req[r].token \notin reused /\ ancestors[req[r].token] \cap reused = {}

\* What a step may do to a token, but for storing it.
TokensAge ==
    \A t \in Tokens :
        /\ tokens'[t].stored = tokens[t].stored /\ tokens'[t].user = tokens[t].user
        /\ tokens[t].revoked => tokens'[t].revoked
        /\ tokens[t].expired => tokens'[t].expired
        /\ tokens'[t].revoked => tokens[t].revoked \/ tokens[t].stored

\* What it may do to a request: end it or start it without a token, let it go
\* on, or present a token.
Moves(r) ==
    \/ req'[r].op # "refresh" /\ req'[r].pc # "reply"
    \/ /\ req'[r].op = req[r].op /\ req'[r].token = req[r].token /\ req'[r].user = req[r].user
       /\ (req'[r].pc = "sweep") = (req[r].pc = "sweep")
       /\ (req'[r].pc = "reply") = (req[r].pc = "reply")
       /\ req'[r].pc = "reply" => req'[r].fresh = req[r].fresh
    \/ \E t \in known :
         /\ req'[r].op = "refresh" /\ req'[r].token = t /\ req'[r].user = tokens[t].user
         /\ (req'[r].pc = "sweep" \/ (req'[r].pc = "read" /\ Live(t)))

KnownGrows == \A t \in known' : t \in known \/ \E r \in Requests : req[r].pc = "reply" /\ req[r].fresh = t

\* A reuse that is acted on.
Sweeps(r) ==
    /\ req[r].pc = "sweep" /\ Ends(r)
    /\ tokens' = AllRevoked(req[r].user)
    /\ reused' = reused \cup {req[r].token}

Quiet == TokensAge /\ KnownGrows /\ ancestors' = ancestors /\ \A r \in Requests : Moves(r)

\* A request that stays as it is, ends, or goes on.
LEMMA StaysMoves ==
  /\ \A r \in Requests : req'[r] = req[r] => Moves(r)
  /\ tokens' = tokens => TokensAge
  /\ known' = known => KnownGrows
<1>1. \A r \in Requests : req'[r] = req[r] => Moves(r)
  BY Zenon DEF Moves
<1>2. tokens' = tokens => TokensAge
  BY Zenon DEF TokensAge
<1>3. known' = known => KnownGrows
  BY DEF KnownGrows
<1> QED BY <1>1, <1>2, <1>3

LEMMA EndsMoves ==
  ASSUME TypeInv, NEW q \in Requests, Ends(q)
  PROVE  \A r \in Requests : Moves(r)
<1>1. req'[q] = Idle /\ \A r \in Requests \ {q} : req'[r] = req[r]
  BY DEF Ends, TypeInv, TypeOK
<1>2. Moves(q)
  BY <1>1 DEF Moves, Idle
<1> QED BY <1>1, <1>2, StaysMoves

LEMMA GoesMoves ==
  ASSUME TypeInv, NEW q \in Requests, req[q].pc \notin {"sweep", "reply"},
         NEW pc \in {"rotate", "roles"}, Goes(q, pc)
  PROVE  \A r \in Requests : Moves(r)
<1>1. /\ \A r \in Requests \ {q} : req'[r] = req[r]
      /\ req'[q].op = req[q].op /\ req'[q].token = req[q].token /\ req'[q].user = req[q].user
      /\ req'[q].pc = pc
  BY DEF Goes, TypeInv, TypeOK, RequestState
<1>2. Moves(q)
  BY <1>1 DEF Moves
<1> QED BY <1>1, <1>2, StaysMoves

\* Revoking makes stored tokens older.
LEMMA RevokedAge ==
  ASSUME TypeInv
  PROVE  /\ \A c \in Tokens : tokens[c].stored /\ tokens' = Revoked(c) => TokensAge
         /\ \A u \in Users : tokens' = AllRevoked(u) => TokensAge
  BY DEF TypeInv, TypeOK, Revoked, AllRevoked, TokenRow, TokensAge

\* Every step but the storing of a token is quiet.
LEMMA QuietSteps ==
  ASSUME TypeInv, StoredInv, [Next]_vars,
         ~ \E r \in Requests, t \in Tokens : StoreRefreshToken(r, t)
  PROVE  /\ Quiet
         /\ \/ reused' = reused
            \/ \E r \in Requests : Sweeps(r)
<1>0. /\ TypeOK /\ ReqLink
      /\ \A t \in Tokens : tokens[t] \in TokenRow
      /\ \A r \in Requests : req[r] \in RequestState /\ req[r].user \in Users
      /\ \A a \in Admins : admin[a].user \in Users
  BY DEF TypeInv, TypeOK, RequestState
<1>1. ASSUME NEW r \in Requests,
             \/ \E u \in Users : Register(r, u) \/ Login(r, u) \/ LoginWithOIDC(r, u)
             \/ AssignRoles(r) \/ UpsertFederatedUser(r)
             \/ ReadUser(r) \/ ReadRoles(r) \/ ReadPermissions(r) \/ ClientLeaves(r)
      PROVE  Quiet /\ reused' = reused
  <2>1. ancestors' = ancestors /\ tokens' = tokens /\ known' = known /\ reused' = reused
    BY <1>1 DEF Register, Login, LoginWithOIDC, AssignRoles, UpsertFederatedUser, ReadUser,
                ReadRoles, ReadPermissions, ClientLeaves, history
  <2>2. CASE Ends(r)
    BY <2>1, <2>2, EndsMoves, StaysMoves DEF Quiet
  <2>3. CASE UNCHANGED req
    BY <2>1, <2>3, StaysMoves DEF Quiet
  <2>4. CASE ~Ends(r) /\ ~UNCHANGED req /\
             \E u \in Users : Register(r, u) \/ Login(r, u) \/ LoginWithOIDC(r, u)
    <3>1. /\ req'[r].op # "refresh" /\ req'[r].pc # "reply"
          /\ \A q \in Requests \ {r} : req'[q] = req[q]
      <4>1. CASE \E u \in Users : Register(r, u)
        <5>1. PICK u \in Users : Register(r, u)
          BY <4>1
        <5>2. req' = [req EXCEPT ![r] = [Idle EXCEPT !.op = "register", !.pc = "assign",
                                                     !.user = u]]
          BY <2>4, <5>1 DEF Register
        <5> QED BY <1>0, <5>2 DEF TypeOK, Idle
      <4>2. CASE \E u \in Users : Login(r, u)
        BY <1>0, <4>2 DEF Login, TypeOK, Idle
      <4>3. CASE \E u \in Users : LoginWithOIDC(r, u)
        BY <1>0, <4>3 DEF LoginWithOIDC, TypeOK, Idle
      <4> QED BY <2>4, <4>1, <4>2, <4>3
    <3>2. \A q \in Requests : Moves(q)
      BY <3>1, StaysMoves DEF Moves
    <3> QED BY <2>1, <3>2, StaysMoves DEF Quiet
  <2>5. CASE ~Ends(r) /\ (AssignRoles(r) \/ UpsertFederatedUser(r) \/ ReadUser(r))
    <3>1. req[r].pc \notin {"sweep", "reply"} /\ (Goes(r, "roles") \/ Goes(r, "rotate"))
      BY <2>5 DEF AssignRoles, UpsertFederatedUser, ReadUser, GivesUp
    <3>2. \A q \in Requests : Moves(q)
      BY <3>1, GoesMoves
    <3> QED BY <2>1, <3>2, StaysMoves DEF Quiet
  <2>6. CASE ~Ends(r) /\ (ReadRoles(r) \/ ReadPermissions(r))
    <3>1. /\ \A q \in Requests \ {r} : req'[q] = req[q]
          /\ req'[r].op = req[r].op /\ req'[r].token = req[r].token /\ req'[r].user = req[r].user
          /\ req'[r].pc \notin {"sweep", "reply"} /\ req[r].pc \notin {"sweep", "reply"}
      <4>1. \/ \E part \in SUBSET users[req[r].user].roles :
                 req' = [req EXCEPT ![r].pc = "permissions", ![r].roles = part]
            \/ req' = [req EXCEPT ![r].pc = "store", ![r].permissions = users[req[r].user].roles]
        BY <2>6 DEF ReadRoles, ReadPermissions, GivesUp
      <4>2. req[r].pc \notin {"sweep", "reply"}
        BY <2>6 DEF ReadRoles, ReadPermissions
      <4> QED BY <1>0, <4>1, <4>2 DEF TypeOK, RequestState
    <3>2. \A q \in Requests : Moves(q)
      BY <3>1, StaysMoves DEF Moves
    <3> QED BY <2>1, <3>2, StaysMoves DEF Quiet
  <2> QED BY <1>1, <2>2, <2>3, <2>4, <2>5, <2>6 DEF ClientLeaves
<1>2. ASSUME NEW r \in Requests, NEW t \in Tokens, Refresh(r, t) PROVE Quiet /\ reused' = reused
  <2>1. /\ ancestors' = ancestors /\ tokens' = tokens /\ known' = known /\ reused' = reused
        /\ t \in known
    BY <1>2 DEF Refresh, history
  <2>2. /\ req'[r].op = "refresh" /\ req'[r].token = t /\ req'[r].user = tokens[t].user
        /\ (req'[r].pc = "sweep" \/ (req'[r].pc = "read" /\ Live(t)))
        /\ \A q \in Requests \ {r} : req'[q] = req[q]
    BY <1>0, <1>2 DEF Refresh, TypeOK, Idle
  <2>3. \A q \in Requests : Moves(q)
    BY <2>1, <2>2, StaysMoves DEF Moves
  <2> QED BY <2>1, <2>3, StaysMoves DEF Quiet
<1>3. ASSUME NEW r \in Requests, SweepReused(r)
      PROVE  /\ Quiet
             /\ reused' = reused \/ Sweeps(r)
  <2>1. /\ tokens' = AllRevoked(req[r].user) \/ tokens' = tokens
        /\ ancestors' = ancestors /\ known' = known /\ Ends(r) /\ req[r].pc = "sweep"
        /\ \/ reused' = reused
           \/ tokens' = AllRevoked(req[r].user) /\ reused' = reused \cup {req[r].token}
    BY <1>3 DEF SweepReused, GivesUp
  <2>2. TokensAge
    BY <1>0, <2>1, RevokedAge, StaysMoves
  <2> QED BY <2>1, <2>2, EndsMoves, StaysMoves DEF Quiet, Sweeps
<1>4. ASSUME NEW r \in Requests, Rotate(r) PROVE Quiet /\ reused' = reused
  <2>1. /\ tokens' = Revoked(req[r].token) \/ tokens' = tokens
        /\ ancestors' = ancestors /\ known' = known /\ reused' = reused
        /\ Goes(r, "roles") /\ req[r].pc = "rotate" /\ req[r].op = "refresh"
    BY <1>0, <1>4 DEF Rotate, history, ReqLink
  <2>2. req[r].token \in Tokens /\ tokens[req[r].token].stored
    BY <1>0, <2>1 DEF ReqLink, StoredInv
  <2>3. TokensAge
    BY <2>1, <2>2, RevokedAge, StaysMoves
  <2>4. \A q \in Requests : Moves(q)
    BY <2>1, GoesMoves
  <2> QED BY <2>1, <2>3, <2>4, StaysMoves DEF Quiet
<1>5. ASSUME NEW r \in Requests, Reply(r) PROVE Quiet /\ reused' = reused
  <2>1. /\ tokens' = tokens /\ ancestors' = ancestors /\ reused' = reused
        /\ known' = known \cup {req[r].fresh} \/ known' = known
        /\ Ends(r) /\ req[r].pc = "reply"
    BY <1>5 DEF Reply, history
  <2>2. KnownGrows
    BY <2>1 DEF KnownGrows
  <2> QED BY <2>1, <2>2, EndsMoves, StaysMoves DEF Quiet
<1>6. ASSUME NEW t \in Tokens, Logout(t) \/ RefreshTokenExpires(t) PROVE Quiet /\ reused' = reused
  <2>1. ancestors' = ancestors /\ known' = known /\ req' = req /\ reused' = reused
    BY <1>6 DEF Logout, RefreshTokenExpires, history
  <2>2. CASE Logout(t)
    <3>1. tokens[t].stored /\ tokens' = Revoked(t)
      BY <2>2 DEF Logout, StoredInv
    <3> QED BY <2>1, <3>1, RevokedAge, StaysMoves DEF Quiet
  <2>3. CASE RefreshTokenExpires(t)
    <3>1. TokensAge
      BY <1>0, <2>3 DEF RefreshTokenExpires, TypeOK, TokenRow, TokensAge
    <3> QED BY <2>1, <3>1, StaysMoves DEF Quiet
  <2> QED BY <1>6, <2>2, <2>3
<1>7. ASSUME NEW a \in Admins, NEW u \in Users, NEW s \in {"active", "suspended"},
             SetUserStatus(a, u, s)
      PROVE  Quiet /\ reused' = reused
  <2>1. tokens' = tokens /\ ancestors' = ancestors /\ known' = known /\ reused' = reused
    BY <1>7 DEF SetUserStatus
  <2>2. \A r \in Requests : /\ req'[r].op = req[r].op /\ req'[r].pc = req[r].pc
                            /\ req'[r].token = req[r].token /\ req'[r].fresh = req[r].fresh
                            /\ req'[r].user = req[r].user
    BY <1>0, <1>7 DEF SetUserStatus, MarkInside, RequestState
  <2>3. \A r \in Requests : Moves(r)
    BY <2>2 DEF Moves
  <2> QED BY <2>1, <2>3, StaysMoves DEF Quiet
<1>8. ASSUME NEW a \in Admins, RevokeUserSessions(a) PROVE Quiet /\ reused' = reused
  <2>1. /\ tokens' = AllRevoked(admin[a].user) \/ tokens' = tokens
        /\ ancestors' = ancestors /\ known' = known /\ reused' = reused /\ req' = req
    BY <1>8 DEF RevokeUserSessions, history
  <2>2. TokensAge
    BY <1>0, <2>1, RevokedAge, StaysMoves
  <2> QED BY <2>1, <2>2, StaysMoves DEF Quiet
<1>9. CASE \/ \E u \in Users, roles \in RoleEdits : SetUserRoles(u, roles)
           \/ \E x \in access : AccessTokenExpires(x)
           \/ UNCHANGED vars
  <2>1. tokens' = tokens /\ ancestors' = ancestors /\ known' = known /\ req' = req
        /\ reused' = reused
    BY <1>9 DEF SetUserRoles, AccessTokenExpires, vars, history
  <2> QED BY <2>1, StaysMoves DEF Quiet
<1> QED BY <1>1, <1>2, <1>3, <1>4, <1>5, <1>6, <1>7, <1>8, <1>9 DEF Next, RequestStep

\* The storing of a token, as far as the tokens' trees are concerned.
Stores(r, t) ==
    /\ req[r].pc = "store" /\ ~tokens[t].stored
    /\ tokens'[t] = [stored |-> TRUE, user |-> req[r].user, revoked |-> FALSE, expired |-> FALSE]
    /\ \A c \in Tokens \ {t} : tokens'[c] = tokens[c] /\ ancestors'[c] = ancestors[c]
    /\ ancestors'[t] = IF req[r].op = "refresh"
                       THEN ancestors[req[r].token] \cup {req[r].token} ELSE {}
    /\ \A q \in Requests \ {r} : req'[q] = req[q]
    /\ \/ req'[r].op = "none" /\ req'[r].pc = "idle"
       \/ /\ req'[r].op = req[r].op /\ req'[r].token = req[r].token /\ req'[r].user = req[r].user
          /\ req'[r].pc = "reply" /\ req'[r].fresh = t
    /\ known' = known /\ reused' = reused

LEMMA StoreSteps ==
  ASSUME TypeInv, StoredInv, NEW r \in Requests, NEW t \in Tokens, StoreRefreshToken(r, t)
  PROVE  Stores(r, t) \/ (Quiet /\ reused' = reused)
<1>0. TypeOK /\ ReqLink /\ req[r] \in RequestState
  BY DEF TypeInv, TypeOK
<1>1. req[r].pc = "store" /\ ~tokens[t].stored /\ known' = known /\ reused' = reused
  BY DEF StoreRefreshToken
<1>2. CASE GivesUp(r) /\ UNCHANGED <<tokens, ancestors, late>>
  BY <1>1, <1>2, EndsMoves, StaysMoves DEF Quiet, GivesUp
<1>3. CASE ~(GivesUp(r) /\ UNCHANGED <<tokens, ancestors, late>>)
  <2>1. /\ tokens' = [tokens EXCEPT ![t] = [stored |-> TRUE, user |-> req[r].user,
                                            revoked |-> FALSE, expired |-> FALSE]]
        /\ ancestors' = [ancestors EXCEPT ![t] =
                           IF req[r].op = "refresh"
                           THEN ancestors[req[r].token] \cup {req[r].token} ELSE {}]
        /\ req' = [req EXCEPT ![r].pc = "reply", ![r].fresh = t] \/ Ends(r)
    BY <1>3 DEF StoreRefreshToken
  <2>2. /\ tokens'[t] = [stored |-> TRUE, user |-> req[r].user, revoked |-> FALSE, expired |-> FALSE]
        /\ \A c \in Tokens \ {t} : tokens'[c] = tokens[c] /\ ancestors'[c] = ancestors[c]
        /\ ancestors'[t] = IF req[r].op = "refresh"
                           THEN ancestors[req[r].token] \cup {req[r].token} ELSE {}
    BY <1>0, <2>1 DEF TypeOK
  <2>3. /\ \A q \in Requests \ {r} : req'[q] = req[q]
        /\ \/ req'[r].op = "none" /\ req'[r].pc = "idle"
           \/ /\ req'[r].op = req[r].op /\ req'[r].token = req[r].token
              /\ req'[r].user = req[r].user
              /\ req'[r].pc = "reply" /\ req'[r].fresh = t
    <3>1. CASE req' = [req EXCEPT ![r].pc = "reply", ![r].fresh = t]
      BY <1>0, <3>1 DEF TypeOK, RequestState
    <3>2. CASE Ends(r)
      BY <1>0, <3>2 DEF TypeOK, Ends, Idle
    <3> QED BY <2>1, <3>1, <3>2
  <2> QED BY <1>1, <2>2, <2>3 DEF Stores
<1> QED BY <1>2, <1>3

\* Trees stay of one account, whatever fails.
LEMMA OwnStep == TypeInv /\ OwnInv /\ [Next]_vars => OwnInv'
<1> SUFFICES ASSUME TypeInv, OwnInv, [Next]_vars PROVE OwnInv'
  OBVIOUS
<1>0. /\ TypeOK /\ ReqLink /\ StoredInv
      /\ \A t \in Tokens : ancestors[t] \subseteq Tokens
      /\ known \subseteq Tokens /\ reused \subseteq Tokens
  BY DEF TypeInv, TypeOK, OwnInv
<1>1. ASSUME Quiet,
             reused' = reused \/ \E r \in Requests : Sweeps(r)
      PROVE  OwnInv'
  <2>1. TokensAge /\ KnownGrows /\ ancestors' = ancestors /\ \A r \in Requests : Moves(r)
    BY <1>1 DEF Quiet
  <2>2. ASSUME NEW r \in Requests, req'[r].op = "refresh"
        PROVE  /\ req'[r].token \in Tokens
               /\ tokens[req'[r].token].stored /\ tokens[req'[r].token].user = req'[r].user
    <3>1. Moves(r)
      BY <2>1
    <3> QED BY <1>0, <2>2, <3>1 DEF Moves, OwnInv, ReqLink, StoredInv
  <2>3. ASSUME NEW r \in Requests, req'[r].pc = "reply"
        PROVE  req'[r].fresh \in Tokens /\ tokens[req'[r].fresh].stored
    <3>1. Moves(r)
      BY <2>1
    <3> QED BY <1>0, <2>3, <3>1 DEF Moves, ReqLink, StoredInv
  <2>4. StoredInv'
    <3>1. \A t \in Tokens : tokens'[t].revoked => tokens'[t].stored
      BY <1>0, <2>1 DEF TokensAge, StoredInv
    <3>2. \A t \in known' : tokens'[t].stored
      BY <1>0, <2>1 DEF TokensAge, KnownGrows, StoredInv, ReqLink
    <3> QED BY <2>1, <2>2, <2>3, <3>1, <3>2 DEF StoredInv, TokensAge
  <2>5. \A t \in Tokens : \A a \in ancestors'[t] :
           tokens'[a].stored /\ tokens'[a].user = tokens'[t].user
    BY <1>0, <2>1 DEF OwnInv, TokensAge
  <2>6. \A r \in Requests : req'[r].op = "refresh" => tokens'[req'[r].token].user = req'[r].user
    BY <2>1, <2>2 DEF TokensAge
  <2>7. \A t \in reused' : tokens'[t].revoked
    <3>1. CASE reused' = reused
      BY <1>0, <2>1, <3>1 DEF OwnInv, TokensAge
    <3>2. ASSUME NEW r \in Requests, Sweeps(r)
          PROVE  \A t \in reused' : tokens'[t].revoked
      <4>1. req[r].op = "refresh" /\ req[r].token \in Tokens
        BY <1>0, <3>2 DEF ReqLink, Sweeps
      <4>2. tokens[req[r].token].stored /\ tokens[req[r].token].user = req[r].user
        BY <4>1 DEF OwnInv, StoredInv
      <4>3. tokens'[req[r].token].revoked
        BY <1>0, <3>2, <4>1, <4>2 DEF Sweeps, AllRevoked, TypeOK, TokenRow
      <4> QED BY <1>0, <2>1, <3>2, <4>3 DEF Sweeps, OwnInv, TokensAge
    <3> QED BY <1>1, <3>1, <3>2
  <2> QED BY <2>4, <2>5, <2>6, <2>7 DEF OwnInv
<1>2. ASSUME NEW r \in Requests, NEW t \in Tokens, Stores(r, t) PROVE OwnInv'
  <2>1. \A c \in Tokens : tokens[c].stored => c # t
    BY <1>2 DEF Stores
  <2>2. tokens'[t].stored /\ tokens'[t].user = req[r].user /\ ~tokens'[t].revoked
    BY <1>2 DEF Stores
  <2>3. \A c \in Tokens : tokens[c].stored => tokens'[c] = tokens[c]
    BY <1>2, <2>1 DEF Stores
  <2>4. StoredInv'
    <3>1. \A c \in Tokens : tokens'[c].revoked => tokens'[c].stored
      BY <1>0, <1>2, <2>2 DEF Stores, StoredInv
    <3>2. \A c \in known' : tokens'[c].stored
      BY <1>0, <1>2, <2>3 DEF Stores, StoredInv
    <3>3. ASSUME NEW q \in Requests
          PROVE  /\ req'[q].op = "refresh" => tokens'[req'[q].token].stored
                 /\ req'[q].pc = "reply" => tokens'[req'[q].fresh].stored
      <4>1. CASE q # r
        BY <1>0, <1>2, <2>3, <4>1 DEF Stores, StoredInv, ReqLink
      <4>2. CASE q = r
        BY <1>0, <1>2, <2>2, <2>3, <4>2 DEF Stores, StoredInv, ReqLink
      <4> QED BY <4>1, <4>2
    <3> QED BY <3>1, <3>2, <3>3 DEF StoredInv
  <2>5. ASSUME NEW c \in Tokens, NEW a \in ancestors'[c]
        PROVE  tokens'[a].stored /\ tokens'[a].user = tokens'[c].user
    <3>1. CASE c # t
      <4>1. a \in Tokens /\ tokens[a].stored /\ tokens[a].user = tokens[c].user
        BY <1>0, <1>2, <2>5, <3>1 DEF Stores, OwnInv
      <4> QED BY <1>2, <2>3, <3>1, <4>1 DEF Stores
    <3>2. CASE c = t
      <4>1. /\ req[r].op = "refresh" /\ req[r].token \in Tokens
            /\ a \in ancestors[req[r].token] \cup {req[r].token}
        BY <1>0, <1>2, <2>5, <3>2 DEF Stores, ReqLink
      <4>2. a \in Tokens /\ tokens[a].stored /\ tokens[a].user = req[r].user
        BY <1>0, <4>1 DEF OwnInv, StoredInv
      <4> QED BY <2>2, <2>3, <3>2, <4>2
    <3> QED BY <3>1, <3>2
  <2>6. ASSUME NEW q \in Requests, req'[q].op = "refresh"
        PROVE  tokens'[req'[q].token].user = req'[q].user
    <3>1. req[q].op = "refresh" /\ req'[q].token = req[q].token /\ req'[q].user = req[q].user
      BY <1>2, <2>6 DEF Stores
    <3>2. req[q].token \in Tokens /\ tokens[req[q].token].stored
      BY <1>0, <3>1 DEF ReqLink, StoredInv
    <3> QED BY <2>3, <3>1, <3>2 DEF OwnInv
  <2>7. \A c \in reused' : tokens'[c].revoked
    BY <1>0, <1>2, <2>3 DEF Stores, OwnInv, StoredInv
  <2> QED BY <2>4, <2>5, <2>6, <2>7 DEF OwnInv
<1> QED BY <1>0, <1>1, <1>2, QuietSteps, StoreSteps

-----------------------------------------------------------------------------
(* Whatever fails: a token with successors is spent, but for one token for   *)
(* each failed statement.                                                    *)

\* A refresh that has its rotation behind it.
PastRotation(r) ==
    req[r].op = "refresh" /\ req[r].pc \in {"roles", "permissions", "store"}

\* The tokens that are not revoked and have successors, or a refresh on its way
\* to storing one.
Owed == {t \in Tokens :
           /\ ~tokens[t].revoked
           /\ \/ \E c \in Tokens : t \in ancestors[c]
              \/ \E r \in Requests : PastRotation(r) /\ req[r].token = t}

OwedInv == IsFiniteSet(Owed) /\ Cardinality(Owed) <= faults

\* A request gets its rotation behind it by Rotate alone.
LEMMA PassesByRotate ==
  ASSUME TypeInv, [Next]_vars, NEW r \in Requests, PastRotation(r)'
  PROVE  (PastRotation(r) /\ req'[r].token = req[r].token) \/ Rotate(r)
<1>0. /\ TypeOK /\ ReqLink
      /\ \A q \in Requests : req[q] \in RequestState
  BY DEF TypeInv, TypeOK
<1>1. SUFFICES ASSUME req'[r] # req[r], ~Rotate(r)
               PROVE  PastRotation(r) /\ req'[r].token = req[r].token
  BY DEF PastRotation
<1>2. req'[r].op = "refresh" /\ req'[r].pc \in {"roles", "permissions", "store"}
  BY DEF PastRotation
<1>3. ASSUME NEW q \in Requests, Ends(q) PROVE FALSE
  BY <1>0, <1>1, <1>2, <1>3 DEF Ends, Idle, TypeOK
<1>4. ASSUME NEW q \in Requests, NEW u \in Users,
             Register(q, u) \/ Login(q, u) \/ LoginWithOIDC(q, u)
      PROVE  FALSE
  <2>1. CASE Register(q, u)
    <3>1. req' = [req EXCEPT ![q] = [Idle EXCEPT !.op = "register", !.pc = "assign",
                                                 !.user = u]]
      BY <1>1, <2>1 DEF Register
    <3> QED BY <1>0, <1>1, <1>2, <3>1 DEF TypeOK, Idle
  <2>2. CASE Login(q, u)
    BY <1>0, <1>1, <1>2, <2>2 DEF Login, TypeOK, Idle
  <2>3. CASE LoginWithOIDC(q, u)
    BY <1>0, <1>1, <1>2, <2>3 DEF LoginWithOIDC, TypeOK, Idle
  <2> QED BY <1>4, <2>1, <2>2, <2>3
<1>5. ASSUME NEW q \in Requests, NEW t \in Tokens, Refresh(q, t) PROVE FALSE
  BY <1>0, <1>1, <1>2, <1>5 DEF Refresh, TypeOK, Idle
<1>6. ASSUME NEW q \in Requests, AssignRoles(q) \/ UpsertFederatedUser(q) \/ ReadUser(q)
      PROVE  FALSE
  <2>1. \/ Goes(q, "roles") /\ req[q].op # "refresh"
        \/ Goes(q, "rotate")
    BY <1>0, <1>3, <1>6 DEF AssignRoles, UpsertFederatedUser, ReadUser, GivesUp, ReqLink
  <2> QED BY <1>0, <1>1, <1>2, <2>1 DEF Goes, TypeOK, RequestState
<1>7. ASSUME NEW q \in Requests, ReadRoles(q) \/ ReadPermissions(q)
      PROVE  PastRotation(r) /\ req'[r].token = req[r].token
  <2>1. \/ \E part : req' = [req EXCEPT ![q].pc = "permissions", ![q].roles = part]
        \/ req' = [req EXCEPT ![q].pc = "store", ![q].permissions = users[req[q].user].roles]
    BY <1>3, <1>7 DEF ReadRoles, ReadPermissions, GivesUp
  <2>2. req'[q].op = req[q].op /\ req'[q].token = req[q].token /\ q = r
    BY <1>0, <1>1, <2>1 DEF TypeOK, RequestState
  <2>3. req[q].pc \in {"roles", "permissions"}
    BY <1>7 DEF ReadRoles, ReadPermissions
  <2> QED BY <1>2, <2>2, <2>3 DEF PastRotation
<1>8. ASSUME NEW q \in Requests, NEW t \in Tokens, StoreRefreshToken(q, t) PROVE FALSE
  <2>1. req' = [req EXCEPT ![q].pc = "reply", ![q].fresh = t]
    BY <1>3, <1>8 DEF StoreRefreshToken, GivesUp
  <2> QED BY <1>0, <1>1, <1>2, <2>1 DEF TypeOK, RequestState
<1>9. ASSUME NEW q \in Requests, SweepReused(q) \/ Reply(q) \/ ClientLeaves(q) PROVE FALSE
  BY <1>3, <1>9 DEF SweepReused, Reply, ClientLeaves, GivesUp
<1>10. ASSUME NEW q \in Requests, Rotate(q) PROVE FALSE
  <2>1. q # r /\ Goes(q, "roles")
    BY <1>1, <1>10 DEF Rotate
  <2> QED BY <1>0, <1>1, <2>1 DEF Goes, TypeOK
<1>11. ASSUME NEW a \in Admins, NEW u \in Users, NEW s \in {"active", "suspended"},
              SetUserStatus(a, u, s)
       PROVE  PastRotation(r) /\ req'[r].token = req[r].token
  BY <1>0, <1>2, <1>11 DEF SetUserStatus, MarkInside, PastRotation, RequestState
<1>12. CASE \/ \E t \in Tokens : Logout(t) \/ RefreshTokenExpires(t)
            \/ \E a \in Admins : RevokeUserSessions(a)
            \/ \E u \in Users, roles \in RoleEdits : SetUserRoles(u, roles)
            \/ \E x \in access : AccessTokenExpires(x)
            \/ UNCHANGED vars
  BY <1>1, <1>12 DEF Logout, RefreshTokenExpires, RevokeUserSessions, SetUserRoles,
                     AccessTokenExpires, vars, history
<1> QED BY <1>4, <1>5, <1>6, <1>7, <1>8, <1>9, <1>10, <1>11, <1>12 DEF Next, RequestStep

\* Failed statements are only counted.
LEMMA FaultsCounted == [Next]_vars => faults' = faults \/ faults' = faults + 1
<1> SUFFICES ASSUME [Next]_vars PROVE faults' = faults \/ faults' = faults + 1
  OBVIOUS
<1>1. ASSUME NEW r \in Requests, RequestStep(r) PROVE faults' = faults \/ faults' = faults + 1
  BY <1>1 DEF RequestStep, AssignRoles, UpsertFederatedUser, SweepReused, ReadUser, Rotate,
              ReadRoles, ReadPermissions, StoreRefreshToken, Reply, GivesUp, Breaks
<1>2. CASE \/ \E r \in Requests, u \in Users : Register(r, u) \/ Login(r, u) \/ LoginWithOIDC(r, u)
           \/ \E r \in Requests, t \in Tokens : Refresh(r, t)
           \/ \E r \in Requests : ClientLeaves(r)
  BY <1>2 DEF Register, Login, LoginWithOIDC, Refresh, ClientLeaves, Breaks
<1>3. CASE \/ \E t \in Tokens : Logout(t) \/ RefreshTokenExpires(t)
           \/ \E a \in Admins, u \in Users, s \in {"active", "suspended"} : SetUserStatus(a, u, s)
           \/ \E a \in Admins : RevokeUserSessions(a)
           \/ \E u \in Users, roles \in RoleEdits : SetUserRoles(u, roles)
           \/ \E x \in access : AccessTokenExpires(x)
           \/ UNCHANGED vars
  BY <1>3 DEF Logout, RefreshTokenExpires, SetUserStatus, RevokeUserSessions, SetUserRoles,
              AccessTokenExpires, Breaks, vars
<1> QED BY <1>1, <1>2, <1>3 DEF Next

\* No step owes a token, but for a rotation whose statement fails.
LEMMA OwedStep ==
  ASSUME TypeInv, OwnInv, [Next]_vars
  PROVE  \/ Owed' \subseteq Owed
         \/ faults' = faults + 1 /\ \E t \in Tokens : Owed' \subseteq Owed \cup {t}
<1>0. /\ TypeOK /\ ReqLink /\ StoredInv
      /\ \A t \in Tokens : ancestors[t] \subseteq Tokens
  BY DEF TypeInv, TypeOK, OwnInv
<1>1. ASSUME NEW r \in Requests, NEW t \in Tokens, Stores(r, t) PROVE Owed' \subseteq Owed
  <2>1. SUFFICES ASSUME NEW c \in Tokens, c \in Owed' PROVE c \in Owed
    BY DEF Owed
  <2>2. \A d \in Tokens : tokens[d].stored => tokens'[d] = tokens[d]
    BY <1>1 DEF Stores
  <2>3. ~tokens'[c].revoked
    BY <2>1 DEF Owed
  <2>4. ASSUME NEW q \in Requests, PastRotation(q), req[q].token = c PROVE c \in Owed
    <3>1. tokens[c].stored
      BY <1>0, <2>4 DEF PastRotation, StoredInv
    <3> QED BY <2>2, <2>3, <2>4, <3>1 DEF Owed
  <2>5. ASSUME NEW d \in Tokens, c \in ancestors[d] PROVE c \in Owed
    <3>1. tokens[c].stored
      BY <2>5 DEF OwnInv
    <3> QED BY <2>2, <2>3, <2>5, <3>1 DEF Owed
  <2>6. CASE \E q \in Requests : PastRotation(q)' /\ req'[q].token = c
    <3>1. PICK q \in Requests : PastRotation(q)' /\ req'[q].token = c
      BY <2>6
    <3>2. q # r
      BY <1>1, <3>1 DEF Stores, PastRotation
    <3>3. req'[q] = req[q]
      BY <1>1, <3>2 DEF Stores
    <3>4. PastRotation(q) /\ req[q].token = c
      BY <3>1, <3>3 DEF PastRotation
    <3> QED BY <2>4, <3>4
  <2>7. ASSUME NEW d \in Tokens, c \in ancestors'[d] PROVE c \in Owed
    <3>1. CASE d # t
      BY <1>1, <2>5, <2>7, <3>1 DEF Stores
    <3>2. CASE d = t
      <4>1. /\ req[r].op = "refresh" /\ req[r].pc = "store" /\ req[r].token \in Tokens
            /\ c \in ancestors[req[r].token] \cup {req[r].token}
        BY <1>0, <1>1, <2>7, <3>2 DEF Stores, ReqLink
      <4> QED BY <2>4, <2>5, <4>1 DEF PastRotation
    <3> QED BY <3>1, <3>2
  <2> QED BY <2>1, <2>6, <2>7 DEF Owed
<1>2. ASSUME Quiet, ~ \E r \in Requests : Rotate(r) PROVE Owed' \subseteq Owed
  <2>1. SUFFICES ASSUME NEW c \in Tokens, c \in Owed' PROVE c \in Owed
    BY DEF Owed
  <2>2. ~tokens[c].revoked
    BY <1>2, <2>1 DEF Quiet, TokensAge, Owed
  <2>3. CASE \E q \in Requests : PastRotation(q)' /\ req'[q].token = c
    BY <1>2, <2>2, <2>3, PassesByRotate DEF Owed
  <2>4. CASE \E d \in Tokens : c \in ancestors'[d]
    BY <1>2, <2>2, <2>4 DEF Quiet, Owed
  <2> QED BY <2>1, <2>3, <2>4 DEF Owed
<1>3. ASSUME Quiet, NEW r \in Requests, Rotate(r)
      PROVE  \/ Owed' \subseteq Owed
             \/ faults' = faults + 1 /\ \E t \in Tokens : Owed' \subseteq Owed \cup {t}
  <2>1. /\ req[r].token \in Tokens /\ Goes(r, "roles")
        /\ \/ faults' = faults + 1
           \/ tokens' = Revoked(req[r].token)
    BY <1>0, <1>3 DEF Rotate, Breaks, ReqLink
  <2>2. \A q \in Requests \ {r} : req'[q] = req[q]
    BY <1>0, <2>1 DEF Goes, TypeOK
  <2>3. req'[r].token = req[r].token
    BY <1>0, <2>1 DEF Goes, TypeOK, RequestState
  <2>4. ASSUME NEW c \in Tokens, c \in Owed' PROVE c \in Owed \cup {req[r].token}
    <3>1. ~tokens[c].revoked
      BY <1>3, <2>4 DEF Quiet, TokensAge, Owed
    <3>2. CASE \E q \in Requests : PastRotation(q)' /\ req'[q].token = c
      <4>1. PICK q \in Requests : PastRotation(q)' /\ req'[q].token = c
        BY <3>2
      <4>2. CASE q = r
        BY <2>3, <4>1, <4>2
      <4>3. CASE q # r
        BY <2>2, <3>1, <4>1, <4>3 DEF PastRotation, Owed
      <4> QED BY <4>2, <4>3
    <3>3. CASE \E d \in Tokens : c \in ancestors'[d]
      BY <1>3, <3>1, <3>3 DEF Quiet, Owed
    <3> QED BY <2>4, <3>2, <3>3 DEF Owed
  <2>5. Owed' \subseteq Owed \cup {req[r].token}
    BY <2>4 DEF Owed
  <2>6. CASE tokens' = Revoked(req[r].token)
    <3>1. tokens'[req[r].token].revoked
      BY <1>0, <2>1, <2>6 DEF Revoked, TypeOK, TokenRow
    <3>2. req[r].token \notin Owed'
      BY <3>1 DEF Owed
    <3> QED BY <2>5, <3>2
  <2> QED BY <2>1, <2>5, <2>6
<1> QED BY <1>0, <1>1, <1>2, <1>3, QuietSteps, StoreSteps

\* At most one token per failed statement stays usable beside its successors,
\* however the refreshes of it overlap, repeat and branch.  No assumption: any
\* accounts, requests and failures, refreshes of one account at the same time
\* included.
THEOREM UnspentTokensAreFaults == Spec => []UnspentAreFaults
<1> DEFINE Inv == TypeInv /\ OwnInv /\ OwedInv
<1>1. Init => Inv
  <2> SUFFICES ASSUME Init PROVE Inv
    OBVIOUS
  <2>1. OwnInv
    BY DEF Init, OwnInv, StoredInv, Idle
  <2>2. Owed = {}
    BY DEF Init, Owed, PastRotation, Idle
  <2> QED BY <2>1, <2>2, TypeInitial, FS_EmptySet DEF OwedInv, Init
<1>2. Inv /\ [Next]_vars => Inv'
  <2> SUFFICES ASSUME Inv, [Next]_vars PROVE OwedInv'
    BY TypeStep, OwnStep
  <2>1. /\ IsFiniteSet(Owed) /\ Cardinality(Owed) <= faults /\ faults \in Nat
        /\ Cardinality(Owed) \in Nat
    BY FS_CardinalityType DEF OwedInv, TypeInv, TypeOK
  <2>2. faults' = faults \/ faults' = faults + 1
    BY FaultsCounted
  <2>3. CASE Owed' \subseteq Owed
    <3>1. IsFiniteSet(Owed') /\ Cardinality(Owed') <= Cardinality(Owed)
      BY <2>1, <2>3, FS_Subset
    <3>2. Cardinality(Owed') \in Nat
      BY <3>1, FS_CardinalityType
    <3> QED BY <2>1, <2>2, <3>1, <3>2 DEF OwedInv
  <2>4. ASSUME faults' = faults + 1, NEW t \in Tokens, Owed' \subseteq Owed \cup {t}
        PROVE  OwedInv'
    <3>1. /\ IsFiniteSet(Owed \cup {t})
          /\ Cardinality(Owed \cup {t}) <= Cardinality(Owed) + 1
      <4>1. /\ IsFiniteSet(Owed \cup {t})
            /\ Cardinality(Owed \cup {t})
                 = IF t \in Owed THEN Cardinality(Owed) ELSE Cardinality(Owed) + 1
        BY <2>1, FS_AddElement, Zenon
      <4> QED BY <2>1, <4>1
    <3>2. IsFiniteSet(Owed') /\ Cardinality(Owed') <= Cardinality(Owed \cup {t})
      BY <2>4, <3>1, FS_Subset
    <3>3. Cardinality(Owed') \in Nat /\ Cardinality(Owed \cup {t}) \in Nat
      BY <3>1, <3>2, FS_CardinalityType
    <3> QED BY <2>1, <2>4, <3>1, <3>2, <3>3 DEF OwedInv
  <2> QED BY <2>3, <2>4, OwedStep
<1>3. Inv => UnspentAreFaults
  <2> SUFFICES ASSUME Inv PROVE Cardinality(Unspent) <= faults
    BY DEF UnspentAreFaults
  <2>1. Unspent \subseteq Owed
    BY DEF Unspent, Owed
  <2>2. /\ IsFiniteSet(Owed) /\ Cardinality(Owed) <= faults /\ faults \in Nat
        /\ Cardinality(Owed) \in Nat
    BY FS_CardinalityType DEF OwedInv, TypeInv, TypeOK
  <2>3. IsFiniteSet(Unspent) /\ Cardinality(Unspent) <= Cardinality(Owed)
    BY <2>1, <2>2, FS_Subset
  <2>4. Cardinality(Unspent) \in Nat
    BY <2>3, FS_CardinalityType
  <2> QED BY <2>2, <2>3, <2>4
<1> QED BY <1>1, <1>2, <1>3, PTL DEF Spec

-----------------------------------------------------------------------------
(* Reuse and succession as long as the refreshes of one account do not       *)
(* overlap, continued.                                                       *)

\* As long as refreshes of one account do not overlap, a token whose reuse has
\* been caught has no live descendant, and none is on its way.
LEMMA CaughtStep ==
  ASSUME TypeInv, OwnInv, RefreshesApart, CaughtInv, ReuseRevokesTree, [Next]_vars
  PROVE  CaughtInv' /\ ReuseRevokesTree'
<1>0. /\ TypeOK /\ ReqLink /\ StoredInv
      /\ \A t \in Tokens : ancestors[t] \subseteq Tokens
      /\ known \subseteq Tokens /\ reused \subseteq Tokens
  BY DEF TypeInv, TypeOK, OwnInv
<1>1. ASSUME Quiet, reused' = reused PROVE CaughtInv' /\ ReuseRevokesTree'
  <2>1. TokensAge /\ ancestors' = ancestors /\ \A r \in Requests : Moves(r)
    BY <1>1 DEF Quiet
  <2>2. \A t \in Tokens : Live(t)' => Live(t)
    BY <2>1 DEF TokensAge, Live
  <2>3. ReuseRevokesTree'
    BY <1>1, <2>1, <2>2 DEF ReuseRevokesTree
  <2>4. ASSUME NEW r \in Requests, req'[r].op = "refresh", req'[r].pc # "sweep"
        PROVE  req'[r].token \notin reused /\ ancestors[req'[r].token] \cap reused = {}
    <3>1. Moves(r)
      BY <2>1
    <3>2. \/ /\ req[r].op = "refresh" /\ req'[r].token = req[r].token /\ req[r].pc # "sweep"
          \/ req'[r].token \in known /\ Live(req'[r].token)
      BY <2>4, <3>1 DEF Moves
    <3>3. CASE req'[r].token \in known /\ Live(req'[r].token)
      BY <1>0, <3>3 DEF ReuseRevokesTree, OwnInv, Live
    <3> QED BY <3>2, <3>3 DEF CaughtInv
  <2> QED BY <1>1, <2>1, <2>3, <2>4 DEF CaughtInv
<1>2. ASSUME Quiet, NEW q \in Requests, Sweeps(q) PROVE CaughtInv' /\ ReuseRevokesTree'
  <2> DEFINE x == req[q].token
             u == req[q].user
  <2>1. /\ TokensAge /\ ancestors' = ancestors
        /\ req[q].pc = "sweep" /\ tokens' = AllRevoked(u) /\ reused' = reused \cup {x}
        /\ req'[q].op = "none" /\ \A r \in Requests \ {q} : req'[r] = req[r]
    BY <1>0, <1>2 DEF Quiet, Sweeps, Ends, Idle, TypeOK
  <2>2. req[q].op = "refresh" /\ x \in Tokens
    BY <1>0, <2>1 DEF ReqLink
  <2>3. tokens[x].stored /\ tokens[x].user = u
    BY <2>2 DEF OwnInv, StoredInv
  <2>4. \A t \in Tokens : Live(t)' => Live(t) /\ tokens[t].user # u
    <3>1. \A t \in Tokens : Live(t)' => Live(t)
      BY <2>1 DEF TokensAge, Live
    <3>2. \A t \in Tokens : tokens[t].stored /\ tokens[t].user = u => tokens'[t].revoked
      BY <1>0, <2>1 DEF AllRevoked, TypeOK, TokenRow
    <3> QED BY <3>1, <3>2 DEF Live
  <2>5. \A t \in Tokens : x \in ancestors[t] => tokens[t].user = u
    BY <2>3 DEF OwnInv
  <2>6. ReuseRevokesTree'
    BY <2>1, <2>4, <2>5 DEF ReuseRevokesTree
  <2>7. ASSUME NEW r \in Requests, req'[r].op = "refresh", req'[r].pc # "sweep"
        PROVE  req'[r].token \notin reused' /\ ancestors[req'[r].token] \cap reused' = {}
    <3>1. r # q /\ req'[r] = req[r]
      BY <2>1, <2>7
    <3>2. req[r].token \in Tokens /\ tokens[req[r].token].user = req[r].user
      BY <1>0, <2>7, <3>1 DEF ReqLink, OwnInv
    <3>3. req[r].user # u
      BY <2>2, <2>7, <3>1 DEF RefreshesApart
    <3>4. req[r].token # x /\ x \notin ancestors[req[r].token]
      BY <2>3, <2>5, <3>2, <3>3
    <3> QED BY <2>1, <2>7, <3>1, <3>4 DEF CaughtInv
  <2> QED BY <2>1, <2>6, <2>7 DEF CaughtInv
<1>3. ASSUME NEW r \in Requests, NEW t \in Tokens, Stores(r, t)
      PROVE  CaughtInv' /\ ReuseRevokesTree'
  <2>1. /\ \A c \in Tokens \ {t} : tokens'[c] = tokens[c] /\ ancestors'[c] = ancestors[c]
        /\ reused' = reused /\ ~tokens[t].stored /\ req[r].pc = "store"
    BY <1>3 DEF Stores
  <2>2. \A c \in Tokens : tokens[c].stored => c # t /\ ancestors'[c] = ancestors[c]
    BY <2>1
  <2>3. ancestors'[t] \cap reused = {}
    BY <1>0, <1>3 DEF Stores, CaughtInv
  <2>4. ReuseRevokesTree'
    <3>1. ASSUME NEW c \in Tokens \ {t}, Live(c)' PROVE ancestors'[c] \cap reused = {}
      BY <2>1, <3>1 DEF ReuseRevokesTree, Live
    <3> QED BY <2>1, <2>3, <3>1 DEF ReuseRevokesTree
  <2>5. ASSUME NEW q \in Requests, req'[q].op = "refresh", req'[q].pc # "sweep"
        PROVE  req'[q].token \notin reused /\ ancestors'[req'[q].token] \cap reused = {}
    <3>1. req[q].op = "refresh" /\ req'[q].token = req[q].token /\ req[q].pc # "sweep"
      BY <1>3, <2>5 DEF Stores
    <3>2. req[q].token \in Tokens /\ tokens[req[q].token].stored
      BY <1>0, <3>1 DEF ReqLink, StoredInv
    <3> QED BY <2>2, <3>1, <3>2 DEF CaughtInv
  <2> QED BY <2>1, <2>4, <2>5 DEF CaughtInv
<1> QED BY <1>0, <1>1, <1>2, <1>3, QuietSteps, StoreSteps

LEMMA OwnInitial == Init => OwnInv /\ CaughtInv /\ ReuseRevokesTree
  BY DEF Init, OwnInv, StoredInv, CaughtInv, ReuseRevokesTree, Idle

\* As long as an account's refreshes do not overlap, reuse detection does what
\* it is for: once a token has been caught being used again, nothing rotated out
\* of it is live, whatever statements break and whoever leaves.  That is all
\* that the interleaving of the refuted ReuseRevokesTree takes.
THEOREM ReuseEndsTheTree == Spec /\ []RefreshesApart => []ReuseRevokesTree
<1> DEFINE Inv == TypeInv /\ OwnInv /\ CaughtInv /\ ReuseRevokesTree
<1>1. Init => Inv
  BY TypeInitial, OwnInitial
<1>2. Inv /\ RefreshesApart /\ [Next]_vars => Inv'
  BY TypeStep, OwnStep, CaughtStep
<1>3. Inv => ReuseRevokesTree
  OBVIOUS
<1> QED BY <1>1, <1>2, <1>3, PTL DEF Spec

\* A refresh that has found its token live is the first to rotate it.
FirstInv ==
    \A r \in Requests :
        req[r].op = "refresh" /\ req[r].pc \notin {"sweep", "reply"} =>
            \A c \in Tokens : req[r].token \notin ancestors[c]

LEMMA ChainStep ==
  ASSUME TypeInv, OwnInv, RotationSpends, RefreshesApart, FirstInv, OneSuccessor, [Next]_vars
  PROVE  FirstInv' /\ OneSuccessor'
<1>0. /\ TypeOK /\ ReqLink /\ StoredInv
      /\ \A t \in Tokens : ancestors[t] \subseteq Tokens
      /\ known \subseteq Tokens
  BY DEF TypeInv, TypeOK, OwnInv
<1>1. ASSUME Quiet PROVE FirstInv' /\ OneSuccessor'
  <2>1. ancestors' = ancestors /\ \A r \in Requests : Moves(r)
    BY <1>1 DEF Quiet
  <2>2. OneSuccessor'
    BY <2>1 DEF OneSuccessor
  <2>3. ASSUME NEW r \in Requests, req'[r].op = "refresh", req'[r].pc \notin {"sweep", "reply"},
               NEW c \in Tokens
        PROVE  req'[r].token \notin ancestors[c]
    <3>1. Moves(r)
      BY <2>1
    <3>2. \/ req[r].op = "refresh" /\ req'[r].token = req[r].token
             /\ req[r].pc \notin {"sweep", "reply"}
          \/ Live(req'[r].token)
      BY <2>3, <3>1 DEF Moves
    <3> QED BY <3>2 DEF FirstInv, RotationSpends, Live
  <2> QED BY <2>1, <2>2, <2>3 DEF FirstInv
<1>2. ASSUME NEW r \in Requests, NEW t \in Tokens, Stores(r, t) PROVE FirstInv' /\ OneSuccessor'
  <2> DEFINE y == req[r].token
  <2>1. /\ \A c \in Tokens \ {t} : ancestors'[c] = ancestors[c]
        /\ ~tokens[t].stored /\ req[r].pc = "store"
        /\ ancestors'[t] = IF req[r].op = "refresh" THEN ancestors[y] \cup {y} ELSE {}
    BY <1>2 DEF Stores
  <2>2. \A c \in Tokens \ {t} : t \notin ancestors[c]
    BY <2>1 DEF OwnInv
  <2>3. ASSUME req[r].op = "refresh"
        PROVE  /\ y \in Tokens \ {t} /\ tokens[y].user = req[r].user
               /\ \A c \in Tokens : y \notin ancestors[c]
               /\ \A a \in ancestors'[t] : tokens[a].user = req[r].user
    <3>1. y \in Tokens /\ tokens[y].stored /\ tokens[y].user = req[r].user
      BY <1>0, <2>3 DEF ReqLink, StoredInv, OwnInv
    <3>2. \A c \in Tokens : y \notin ancestors[c]
      BY <2>1, <2>3 DEF FirstInv
    <3> QED BY <2>1, <2>3, <3>1, <3>2 DEF OwnInv
  <2>4. ASSUME NEW c \in Tokens \ {t}, ancestors[c] \cap ancestors'[t] # {}
        PROVE  c \in ancestors'[t]
    <3>1. req[r].op = "refresh" /\ ancestors'[t] = ancestors[y] \cup {y}
      BY <2>1, <2>4
    <3>2. y \in Tokens /\ y \notin ancestors[c]
      BY <2>3, <3>1
    <3>3. ancestors[c] \cap ancestors[y] # {}
      BY <2>4, <3>1, <3>2
    <3>4. c = y \/ c \in ancestors[y]
      BY <3>2, <3>3 DEF OneSuccessor
    <3> QED BY <3>1, <3>4
  <2>5. OneSuccessor'
    <3>1. ASSUME NEW c \in Tokens, NEW d \in Tokens, ancestors'[c] \cap ancestors'[d] # {}
          PROVE  c = d \/ c \in ancestors'[d] \/ d \in ancestors'[c]
      <4>1. CASE c # t /\ d # t
        BY <2>1, <3>1, <4>1 DEF OneSuccessor
      <4>2. CASE c # t /\ d = t
        BY <2>1, <2>4, <3>1, <4>2
      <4>3. CASE c = t /\ d # t
        BY <2>1, <2>4, <3>1, <4>3
      <4> QED BY <4>1, <4>2, <4>3
    <3> QED BY <3>1 DEF OneSuccessor
  <2>6. ASSUME NEW q \in Requests, req'[q].op = "refresh", req'[q].pc \notin {"sweep", "reply"},
               NEW c \in Tokens
        PROVE  req'[q].token \notin ancestors'[c]
    <3>1. q # r /\ req'[q] = req[q]
      BY <1>2, <2>6 DEF Stores
    <3>2. \A b \in Tokens : req[q].token \notin ancestors[b]
      BY <2>6, <3>1 DEF FirstInv
    <3>3. CASE c # t
      BY <2>1, <3>1, <3>2, <3>3
    <3>4. CASE c = t /\ req[r].op = "refresh"
      <4>1. tokens[req[q].token].user = req[q].user /\ req[q].user # req[r].user
        BY <2>6, <3>1, <3>4 DEF OwnInv, RefreshesApart
      <4> QED BY <2>3, <3>1, <3>4, <4>1
    <3> QED BY <2>1, <3>3, <3>4
  <2> QED BY <2>5, <2>6 DEF FirstInv
<1> QED BY <1>0, <1>1, <1>2, QuietSteps, StoreSteps

\* As long as an account's refreshes do not overlap and no statement breaks, a
\* used token cannot be used again: the tokens rotated out of one form a chain.
THEOREM RotationIsAChain ==
  ASSUME MaxFaults = 0
  PROVE  Spec /\ []RefreshesApart => []OneSuccessor
<1> DEFINE Inv == TypeInv /\ RotationInv /\ OwnInv /\ FirstInv /\ OneSuccessor
<1>1. Init => Inv
  <2>1. Init => FirstInv /\ OneSuccessor
    BY DEF Init, FirstInv, OneSuccessor, Idle
  <2>2. Init => RotationInv
    BY DEF Init, RotationInv, StoredInv, Spent, RotationSpends, Idle
  <2> QED BY <2>1, <2>2, TypeInitial, OwnInitial
<1>2. Inv /\ RefreshesApart /\ [Next]_vars => Inv'
  BY TypeStep, RotationStep, OwnStep, ChainStep DEF RotationInv
<1>3. Inv => OneSuccessor
  OBVIOUS
<1> QED BY <1>1, <1>2, <1>3, PTL DEF Spec

-----------------------------------------------------------------------------
(* The roles and the permissions of an access token.                        *)

\* Nobody's roles change while a request is between the query for its user's
\* roles and the query for the permissions.
RolesHeld ==
    [][\A r \in Requests : req[r].pc = "permissions"
          => users'[req[r].user].roles = users[req[r].user].roles]_vars

\* No connection breaks while the rows of the first query are read (in a way that
\* the code does not notice; whatever else breaks).
RolesReadWhole ==
    [][\A r \in Requests : req[r].pc = "roles" /\ req'[r].pc = "permissions"
          => faults' = faults]_vars

\* What a request has read so far.
MatchInv ==
    /\ RolesMatchPermissions
    /\ \A r \in Requests :
         /\ req[r].pc = "permissions" => req[r].roles = users[req[r].user].roles
         /\ req[r].pc \in {"store", "reply"} => req[r].roles = req[r].permissions

\* What a request that is not at its queries may do.
Reads(r) ==
    \/ /\ req'[r].pc = req[r].pc /\ req'[r].user = req[r].user
       /\ req'[r].roles = req[r].roles /\ req'[r].permissions = req[r].permissions
    \/ req'[r].pc \notin {"permissions", "store", "reply"}

LEMMA EndsReads ==
  ASSUME TypeInv, NEW q \in Requests, Ends(q)
  PROVE  \A r \in Requests : Reads(r)
  BY DEF Ends, Reads, TypeInv, TypeOK, Idle

LEMMA StartsRead ==
  ASSUME TypeInv, NEW q \in Requests, NEW row, req' = [req EXCEPT ![q] = row],
         row.pc \notin {"permissions", "store", "reply"}
  PROVE  \A r \in Requests : Reads(r)
  BY DEF Reads, TypeInv, TypeOK

LEMMA GoesReads ==
  ASSUME TypeInv, NEW q \in Requests, NEW pc \in {"rotate", "roles"}, Goes(q, pc)
  PROVE  \A r \in Requests : Reads(r)
<1>1. req'[q].pc = pc /\ \A r \in Requests \ {q} : req'[r] = req[r]
  BY DEF Goes, TypeInv, TypeOK, RequestState
<1> QED BY <1>1 DEF Reads

\* Every step but those of the two queries, the INSERT and the answer.
LEMMA OtherReads ==
  ASSUME TypeInv, [Next]_vars,
         \A r \in Requests : /\ ~ReadRoles(r) /\ ~ReadPermissions(r) /\ ~Reply(r)
                             /\ \A t \in Tokens : ~StoreRefreshToken(r, t)
  PROVE  access' \subseteq access /\ \A r \in Requests : Reads(r)
<1>0. TypeOK
  BY DEF TypeInv
<1>1. ASSUME NEW r \in Requests, NEW u \in Users, Register(r, u) \/ Login(r, u) \/ LoginWithOIDC(r, u)
      PROVE  access' \subseteq access /\ \A q \in Requests : Reads(q)
  <2>1. access' = access
    BY <1>1 DEF Register, Login, LoginWithOIDC
  <2>2. \/ req' = req
        \/ \E row : /\ req' = [req EXCEPT ![r] = row]
                    /\ row.pc \notin {"permissions", "store", "reply"}
    <3>1. CASE Register(r, u)
      <4> DEFINE row == [Idle EXCEPT !.op = "register", !.pc = "assign", !.user = u]
      <4>1. row.pc = "assign"
        BY DEF Idle
      <4>2. req' = req \/ req' = [req EXCEPT ![r] = row]
        BY <3>1 DEF Register
      <4> HIDE DEF row
      <4> QED BY <4>1, <4>2
    <3>2. CASE Login(r, u)
      <4> DEFINE row == [Idle EXCEPT !.op = "login", !.pc = "roles", !.user = u]
      <4>1. row.pc = "roles"
        BY DEF Idle
      <4>2. req' = [req EXCEPT ![r] = row]
        BY <3>2 DEF Login
      <4> HIDE DEF row
      <4> QED BY <4>1, <4>2
    <3>3. CASE LoginWithOIDC(r, u)
      <4> DEFINE row == [Idle EXCEPT !.op = "oidc", !.user = u,
                                     !.pc = IF u \in linked THEN "read" ELSE "federate"]
      <4>1. row.pc \in {"read", "federate"}
        BY DEF Idle
      <4>2. req' = [req EXCEPT ![r] = row]
        BY <3>3 DEF LoginWithOIDC
      <4> HIDE DEF row
      <4> QED BY <4>1, <4>2
    <3> QED BY <1>1, <3>1, <3>2, <3>3
  <2>3. req' = req => \A q \in Requests : Reads(q)
    BY DEF Reads
  <2> QED BY <2>1, <2>2, <2>3, StartsRead
<1>2. ASSUME NEW r \in Requests, NEW t \in Tokens, Refresh(r, t)
      PROVE  access' \subseteq access /\ \A q \in Requests : Reads(q)
  <2>1. access' = access
    BY <1>2 DEF Refresh
  <2> DEFINE row == [Idle EXCEPT !.op = "refresh", !.user = tokens[t].user, !.token = t,
                                 !.pc = IF tokens[t].revoked THEN "sweep" ELSE "read"]
  <2>2. row.pc \in {"sweep", "read"}
    BY DEF Idle
  <2>3. req' = [req EXCEPT ![r] = row]
    BY <1>2 DEF Refresh
  <2> HIDE DEF row
  <2> QED BY <2>1, <2>2, <2>3, StartsRead
<1>3. ASSUME NEW r \in Requests,
             AssignRoles(r) \/ UpsertFederatedUser(r) \/ SweepReused(r) \/ ReadUser(r) \/ Rotate(r)
               \/ ClientLeaves(r)
      PROVE  access' \subseteq access /\ \A q \in Requests : Reads(q)
  <2>1. access' = access
    BY <1>3 DEF AssignRoles, UpsertFederatedUser, SweepReused, ReadUser, Rotate, ClientLeaves
  <2>2. Ends(r) \/ Goes(r, "roles") \/ Goes(r, "rotate")
    <3>1. CASE ReadUser(r)
      BY <3>1 DEF ReadUser, GivesUp
    <3>2. CASE UpsertFederatedUser(r)
      BY <3>2 DEF UpsertFederatedUser, GivesUp
    <3> QED BY <1>3, <3>1, <3>2 DEF AssignRoles, SweepReused, Rotate, ClientLeaves, GivesUp
  <2> QED BY <2>1, <2>2, EndsReads, GoesReads
<1>4. ASSUME NEW a \in Admins, NEW u \in Users, NEW s \in {"active", "suspended"},
             SetUserStatus(a, u, s)
      PROVE  access' \subseteq access /\ \A q \in Requests : Reads(q)
  <2>1. access' = access /\ MarkInside(u, s)
    BY <1>4 DEF SetUserStatus
  <2>2. \A q \in Requests : req'[q] = req[q] \/ req'[q] = [req[q] EXCEPT !.inside = (s = "suspended")]
    BY <2>1 DEF MarkInside
  <2> QED BY <1>0, <2>1, <2>2 DEF Reads, TypeOK, RequestState
<1>5. ASSUME req' = req /\ access' \subseteq access
      PROVE  access' \subseteq access /\ \A q \in Requests : Reads(q)
  BY <1>5 DEF Reads
<1>6. ASSUME NEW t \in Tokens, Logout(t) \/ RefreshTokenExpires(t)
      PROVE  req' = req /\ access' \subseteq access
  BY <1>6 DEF Logout, RefreshTokenExpires
<1>7. ASSUME NEW a \in Admins, RevokeUserSessions(a) PROVE req' = req /\ access' \subseteq access
  BY <1>7 DEF RevokeUserSessions
<1>8. ASSUME NEW u \in Users, NEW roles \in RoleEdits, SetUserRoles(u, roles)
      PROVE  req' = req /\ access' \subseteq access
  BY <1>8 DEF SetUserRoles
<1>9. ASSUME NEW x \in access, AccessTokenExpires(x) PROVE req' = req /\ access' \subseteq access
  BY <1>9 DEF AccessTokenExpires
<1>10. ASSUME UNCHANGED vars PROVE req' = req /\ access' \subseteq access
  BY <1>10 DEF vars
<1> QED BY <1>1, <1>2, <1>3, <1>4, <1>5, <1>6, <1>7, <1>8, <1>9, <1>10 DEF Next, RequestStep

LEMMA MatchStep ==
  ASSUME TypeInv, MatchInv, [Next]_vars,
         \A r \in Requests : req[r].pc = "permissions"
             => users'[req[r].user].roles = users[req[r].user].roles,
         \A r \in Requests : req[r].pc = "roles" /\ req'[r].pc = "permissions" => faults' = faults
  PROVE  MatchInv'
<1>0. TypeOK
  BY DEF TypeInv
<1>1. ASSUME access' \subseteq access, \A r \in Requests : Reads(r) PROVE MatchInv'
  <2>1. RolesMatchPermissions'
    BY <1>1 DEF MatchInv, RolesMatchPermissions
  <2> QED BY <1>1, <2>1 DEF MatchInv, Reads
<1>2. ASSUME NEW r \in Requests, access' = access, \A q \in Requests \ {r} : req'[q] = req[q],
             req'[r].pc = "permissions" => req'[r].roles = users'[req'[r].user].roles,
             req'[r].pc \in {"store", "reply"} => req'[r].roles = req'[r].permissions
      PROVE  MatchInv'
  <2>1. RolesMatchPermissions'
    BY <1>2 DEF MatchInv, RolesMatchPermissions
  <2>2. ASSUME NEW q \in Requests \ {r}
        PROVE  /\ req'[q].pc = "permissions" => req'[q].roles = users'[req'[q].user].roles
               /\ req'[q].pc \in {"store", "reply"} => req'[q].roles = req'[q].permissions
    BY <1>2, <2>2 DEF MatchInv
  <2> QED BY <1>2, <2>1, <2>2 DEF MatchInv
<1>3. ASSUME NEW r \in Requests, Ends(r), access' = access PROVE MatchInv'
  BY <1>1, <1>3, EndsReads
<1>4. ASSUME NEW r \in Requests, ReadRoles(r) PROVE MatchInv'
  <2>1. access' = access /\ users' = users
    BY <1>4 DEF ReadRoles
  <2>2. CASE req' = [req EXCEPT ![r].pc = "permissions", ![r].roles = users[req[r].user].roles]
    <3>1. /\ req'[r].pc = "permissions" /\ req'[r].roles = users[req'[r].user].roles
          /\ \A q \in Requests \ {r} : req'[q] = req[q]
      BY <1>0, <2>2 DEF TypeOK, RequestState
    <3> QED BY <1>2, <2>1, <3>1
  <2>3. ASSUME Breaks, NEW part, req' = [req EXCEPT ![r].pc = "permissions", ![r].roles = part]
        PROVE  FALSE
    <3>1. req[r].pc = "roles" /\ req'[r].pc = "permissions"
      BY <1>0, <1>4, <2>3 DEF ReadRoles, TypeOK, RequestState
    <3>2. faults \in Nat /\ faults' = faults + 1
      BY <1>0, <2>3 DEF TypeOK, Breaks
    <3> QED BY <3>1, <3>2
  <2> QED BY <1>3, <1>4, <2>1, <2>2, <2>3 DEF ReadRoles, GivesUp
<1>5. ASSUME NEW r \in Requests, ReadPermissions(r) PROVE MatchInv'
  <2>1. access' = access /\ req[r].pc = "permissions"
    BY <1>5 DEF ReadPermissions
  <2>2. CASE req' = [req EXCEPT ![r].pc = "store", ![r].permissions = users[req[r].user].roles]
    <3>1. /\ req'[r].pc = "store" /\ req'[r].roles = req[r].roles
          /\ req'[r].permissions = users[req[r].user].roles
          /\ \A q \in Requests \ {r} : req'[q] = req[q]
      BY <1>0, <2>2 DEF TypeOK, RequestState
    <3>2. req[r].roles = users[req[r].user].roles
      BY <2>1 DEF MatchInv
    <3> QED BY <1>2, <2>1, <3>1, <3>2
  <2> QED BY <1>3, <1>5, <2>1, <2>2 DEF ReadPermissions, GivesUp
<1>6. ASSUME NEW r \in Requests, NEW t \in Tokens, StoreRefreshToken(r, t) PROVE MatchInv'
  <2>1. access' = access /\ req[r].pc = "store"
    BY <1>6 DEF StoreRefreshToken
  <2>2. CASE req' = [req EXCEPT ![r].pc = "reply", ![r].fresh = t]
    <3>1. /\ req'[r].pc = "reply" /\ req'[r].roles = req[r].roles
          /\ req'[r].permissions = req[r].permissions
          /\ \A q \in Requests \ {r} : req'[q] = req[q]
      BY <1>0, <2>2 DEF TypeOK, RequestState
    <3>2. req[r].roles = req[r].permissions
      BY <2>1 DEF MatchInv
    <3> QED BY <1>2, <2>1, <3>1, <3>2
  <2> QED BY <1>3, <1>6, <2>1, <2>2 DEF StoreRefreshToken, GivesUp
<1>7. ASSUME NEW r \in Requests, Reply(r) PROVE MatchInv'
  <2>1. /\ Ends(r) /\ req[r].pc = "reply"
        /\ access' \subseteq access \cup {[user |-> req[r].user, roles |-> req[r].roles,
                                          permissions |-> req[r].permissions]}
    BY <1>7 DEF Reply
  <2>2. req[r].roles = req[r].permissions
    BY <2>1 DEF MatchInv
  <2>3. RolesMatchPermissions'
    BY <2>1, <2>2 DEF MatchInv, RolesMatchPermissions
  <2>4. \A q \in Requests : Reads(q)
    BY <2>1, EndsReads
  <2> QED BY <2>3, <2>4 DEF MatchInv, Reads
<1> QED BY <1>1, <1>4, <1>5, <1>6, <1>7, OtherReads

\* The two queries of GetUserRolesAndPermissions speak of one moment unless the
\* user's roles change in between (by an administrator's edit, or because the user
\* signs in before its own registration has given it any), or the connection
\* breaks while the rows of the first are read, which the code does not notice.
THEOREM TokensAreOfOneMoment == Spec /\ RolesHeld /\ RolesReadWhole => []RolesMatchPermissions
<1> DEFINE Held == \A r \in Requests : req[r].pc = "permissions"
                      => users'[req[r].user].roles = users[req[r].user].roles
<1> DEFINE Whole == \A r \in Requests :
                      req[r].pc = "roles" /\ req'[r].pc = "permissions" => faults' = faults
<1>1. Init => TypeInv /\ MatchInv
  <2>1. Init => MatchInv
    BY DEF Init, MatchInv, RolesMatchPermissions, Idle
  <2> QED BY <2>1, TypeInitial
<1>2. TypeInv /\ MatchInv /\ [Next]_vars /\ [Held]_vars /\ [Whole]_vars => TypeInv' /\ MatchInv'
  <2> SUFFICES ASSUME TypeInv, MatchInv, [Next]_vars, [Held]_vars, [Whole]_vars
               PROVE  TypeInv' /\ MatchInv'
    OBVIOUS
  <2>1. TypeInv'
    BY TypeStep
  <2>2. Held /\ Whole
    BY DEF vars
  <2> QED BY <2>1, <2>2, MatchStep
<1>3. MatchInv => RolesMatchPermissions
  BY DEF MatchInv
<1> QED BY <1>1, <1>2, <1>3, PTL DEF Spec, RolesHeld, RolesReadWhole

-----------------------------------------------------------------------------
(* The role of a new account.                                               *)

\* No administrator takes a role away.
RolesKept == [][\A u \in Users : users[u].roles \subseteq users'[u].roles]_vars

LEMMA ViewerStep ==
  ASSUME MaxFaults = 0, ~ClientsLeave, TypeInv, RegisteredIsViewer, [Next]_vars,
         \A u \in Users : users[u].roles \subseteq users'[u].roles
  PROVE  RegisteredIsViewer'
<1>0. TypeOK /\ ReqLink /\ ~Breaks
  BY DEF TypeInv, TypeOK, Breaks
<1>1. ASSUME \A u \in Users : users'[u].status # "absent" => users[u].status # "absent",
             \A r \in Requests : req[r].pc = "assign"
                => req'[r].pc = "assign" /\ req'[r].user = req[r].user
      PROVE  RegisteredIsViewer'
  BY <1>1 DEF RegisteredIsViewer
<1>2. ASSUME NEW r \in Requests, req[r].pc # "assign", NEW row, req' = [req EXCEPT ![r] = row]
      PROVE  \A q \in Requests : req[q].pc = "assign"
                => req'[q].pc = "assign" /\ req'[q].user = req[q].user
  BY <1>0, <1>2 DEF TypeOK
<1>3. ASSUME NEW r \in Requests, NEW u \in Users, Register(r, u) PROVE RegisteredIsViewer'
  <2>1. /\ req' = [req EXCEPT ![r] = [Idle EXCEPT !.op = "register", !.pc = "assign", !.user = u]]
        /\ req[r].pc # "assign"
    BY <1>0, <1>3 DEF Register
  <2>2. req'[r].pc = "assign" /\ req'[r].user = u
    BY <1>0, <2>1 DEF TypeOK, Idle
  <2>3. \A v \in Users \ {u} : users'[v] = users[v]
    BY <1>0, <1>3 DEF Register, TypeOK
  <2> QED BY <1>2, <2>1, <2>2, <2>3 DEF RegisteredIsViewer
<1>4. ASSUME NEW r \in Requests, AssignRoles(r) PROVE RegisteredIsViewer'
  <2>1. /\ users' = [users EXCEPT ![req[r].user].roles = @ \cup {"viewer"}]
        /\ Goes(r, "roles") /\ req[r].user \in Users
    BY <1>0, <1>4 DEF AssignRoles, GivesUp, TypeOK, RequestState
  <2>2. /\ "viewer" \in users'[req[r].user].roles
        /\ \A v \in Users : users'[v].status = users[v].status
    BY <1>0, <2>1 DEF TypeOK, UserRow
  <2>3. \A q \in Requests \ {r} : req'[q] = req[q]
    BY <1>0, <2>1 DEF Goes, TypeOK
  <2> QED BY <2>1, <2>2, <2>3 DEF RegisteredIsViewer
<1>5. ASSUME NEW r \in Requests, UpsertFederatedUser(r) PROVE RegisteredIsViewer'
  <2> DEFINE u == req[r].user
  <2>1. /\ u \in Users
        /\ \/ users' = users
           \/ /\ users[u].status = "absent"
              /\ users' = [users EXCEPT ![u] = [status |-> "active", password |-> FALSE,
                                                roles |-> {"viewer"}]]
    BY <1>0, <1>5 DEF UpsertFederatedUser, GivesUp, TypeOK, RequestState
  <2>2. \A q \in Requests : req[q].pc = "assign" => req'[q] = req[q]
    BY <1>0, <1>5 DEF UpsertFederatedUser, GivesUp, TypeOK, Ends, Goes
  <2>3. \A v \in Users : users'[v] = users[v] \/ "viewer" \in users'[v].roles
    BY <1>0, <2>1 DEF TypeOK
  <2> QED BY <2>2, <2>3 DEF RegisteredIsViewer
<1>6. ASSUME NEW a \in Admins, NEW u \in Users, NEW s \in {"active", "suspended"},
             SetUserStatus(a, u, s)
      PROVE  RegisteredIsViewer'
  <2>1. \A v \in Users : users'[v].status # "absent" => users[v].status # "absent"
    BY <1>0, <1>6 DEF SetUserStatus, TypeOK
  <2>2. \A q \in Requests : req'[q].pc = req[q].pc /\ req'[q].user = req[q].user
    <3>1. ASSUME NEW q \in Requests PROVE req'[q].pc = req[q].pc /\ req'[q].user = req[q].user
      <4>1. req[q] \in RequestState
        BY <1>0 DEF TypeOK
      <4>2. req'[q] = req[q] \/ req'[q] = [req[q] EXCEPT !.inside = (s = "suspended")]
        BY <1>6 DEF SetUserStatus, MarkInside
      <4> QED BY <4>1, <4>2 DEF RequestState
    <3> QED BY <3>1
  <2> QED BY <1>1, <2>1, <2>2
<1>7. ASSUME users' = users,
             \/ req' = req
             \/ \E r \in Requests : req[r].pc # "assign" /\ \E row : req' = [req EXCEPT ![r] = row]
      PROVE  RegisteredIsViewer'
  BY <1>1, <1>2, <1>7
<1>8. ASSUME NEW r \in Requests, NEW u \in Users, Login(r, u) \/ LoginWithOIDC(r, u)
      PROVE  RegisteredIsViewer'
  BY <1>7, <1>8 DEF Login, LoginWithOIDC
<1>9. ASSUME NEW r \in Requests, NEW t \in Tokens, Refresh(r, t) \/ StoreRefreshToken(r, t)
      PROVE  RegisteredIsViewer'
  BY <1>7, <1>9 DEF Refresh, StoreRefreshToken, GivesUp, Ends
<1>10. ASSUME NEW r \in Requests, SweepReused(r) \/ ReadUser(r) \/ Rotate(r) \/ Reply(r)
       PROVE  RegisteredIsViewer'
  <2>1. users' = users /\ req[r].pc # "assign" /\ \E row : req' = [req EXCEPT ![r] = row]
    <3>1. CASE ReadUser(r)
      BY <3>1 DEF ReadUser, GivesUp, Ends, Goes
    <3> QED BY <1>10, <3>1 DEF SweepReused, Rotate, Reply, GivesUp, Ends, Goes
  <2> QED BY <1>7, <2>1
<1>11. ASSUME NEW r \in Requests, ReadRoles(r) \/ ReadPermissions(r) PROVE RegisteredIsViewer'
  <2>1. users' = users /\ req[r].pc # "assign" /\ \E row : req' = [req EXCEPT ![r] = row]
    BY <1>11 DEF ReadRoles, ReadPermissions, GivesUp, Ends
  <2> QED BY <1>7, <2>1
<1>12. ASSUME NEW t \in Tokens, Logout(t) \/ RefreshTokenExpires(t) PROVE RegisteredIsViewer'
  BY <1>7, <1>12 DEF Logout, RefreshTokenExpires
<1>13. ASSUME NEW a \in Admins, RevokeUserSessions(a) PROVE RegisteredIsViewer'
  BY <1>7, <1>13 DEF RevokeUserSessions
<1>14. ASSUME NEW u \in Users, NEW roles \in RoleEdits, SetUserRoles(u, roles)
       PROVE  RegisteredIsViewer'
  <2>1. \A v \in Users : users'[v].status = users[v].status
    BY <1>0, <1>14 DEF SetUserRoles, TypeOK, UserRow
  <2> QED BY <1>1, <1>14, <2>1 DEF SetUserRoles
<1>15. ASSUME NEW x \in access, AccessTokenExpires(x) PROVE RegisteredIsViewer'
  BY <1>7, <1>15 DEF AccessTokenExpires
<1>16. CASE UNCHANGED vars
  BY <1>7, <1>16 DEF vars
<1>17. \A r \in Requests : ~ClientLeaves(r)
  BY DEF ClientLeaves
<1> QED BY <1>3, <1>4, <1>5, <1>6, <1>8, <1>9, <1>10, <1>11, <1>12, <1>13, <1>14, <1>15,
           <1>16, <1>17 DEF Next, RequestStep

\* An account without the viewer role comes from a registration that was cut
\* short between its two INSERTs, or from an administrator: where no statement
\* breaks, no client leaves and nobody takes roles away, there is none.
THEOREM NewAccountsAreViewers ==
  ASSUME MaxFaults = 0, ~ClientsLeave
  PROVE  Spec /\ RolesKept => []RegisteredIsViewer
<1> DEFINE Kept == \A u \in Users : users[u].roles \subseteq users'[u].roles
<1>1. Init => TypeInv /\ RegisteredIsViewer
  <2>1. Init => RegisteredIsViewer
    BY DEF Init, RegisteredIsViewer
  <2> QED BY <2>1, TypeInitial
<1>2. TypeInv /\ RegisteredIsViewer /\ [Next]_vars /\ [Kept]_vars => TypeInv' /\ RegisteredIsViewer'
  <2> SUFFICES ASSUME TypeInv, RegisteredIsViewer, [Next]_vars, [Kept]_vars
               PROVE  TypeInv' /\ RegisteredIsViewer'
    OBVIOUS
  <2>1. TypeInv'
    BY TypeStep
  <2>2. Kept
    BY DEF vars
  <2> QED BY <2>1, <2>2, ViewerStep
<1> QED BY <1>1, <1>2, PTL DEF Spec, RolesKept

=============================================================================
