---------------------------- MODULE UserSessions ----------------------------
(***************************************************************************)
(* User sessions and their refresh tokens (control-service app/app.go,     *)
(* httpapi/auth_handlers.go, admin_users.go, admin_sessions.go,            *)
(* directory_handlers.go).                                                 *)
(*                                                                         *)
(* A request is a sequence of database statements: requests interleave     *)
(* between them, and a request may end after any of them (an error, a      *)
(* crash). A transaction that holds the locks of all rows it reads is one  *)
(* step. The statement that revokes the tokens of a user is two: it may    *)
(* wait for a row that a refresh has locked, and it does not see the token *)
(* that the refresh inserts.                                               *)
(*                                                                         *)
(* Passwords are counted by the account's epoch: every password update and *)
(* every disabling of an account starts a new one.                         *)
(***************************************************************************)
EXTENDS Naturals, FiniteSets

CONSTANTS
    Users,
    Agents,     \* the users of kind "agent" that have an ephemeral profile
    Sessions,   \* session ids, in order of no importance
    Tokens,     \* refresh tokens
    Requests,   \* requests served at the same time
    MaxEpoch    \* bound on password updates and disablings of an account

ASSUME SessionsAssumption ==
    /\ Agents \subseteq Users
    /\ "none" \notin Users \cup Sessions
    /\ MaxEpoch \in Nat

VARIABLES
    users,      \* users: [status, must], must = require_password_change
    epoch,      \* auxiliary: the epoch of every account
    expired,    \* agents whose hard expiry has passed
    sessions,   \* user_sessions: [state, user], and auxiliary fields
    tokens,     \* user_session_tokens: [state, session], dead = revoked or expired
    req,        \* the requests under way
    cleared     \* auxiliary: the last epoch whose sign-out finished, by user

sessionVars == <<users, epoch, expired, sessions, tokens, req, cleared>>

NoUser    == "none"
NoSession == [state |-> "none", user |-> NoUser, epoch |-> 0, scoped |-> FALSE,
              crossed |-> FALSE, late |-> FALSE]
NoToken   == [state |-> "none", session |-> "none"]
Idle      == [kind |-> "none", step |-> "idle", user |-> NoUser, session |-> "none",
              epoch |-> 0, must |-> FALSE, snap |-> {}, crossed |-> FALSE, late |-> FALSE]

SessionInit ==
    /\ users    = [u \in Users |-> [status |-> "active", must |-> FALSE]]
    /\ epoch    = [u \in Users |-> 0]
    /\ expired  = {}
    /\ sessions = [s \in Sessions |-> NoSession]
    /\ tokens   = [t \in Tokens |-> NoToken]
    /\ req      = [r \in Requests |-> Idle]
    /\ cleared  = [u \in Users |-> 0]

\* A row that is revoked or deleted: what only an open session needs is dropped.
Closed(s, state) == [NoSession EXCEPT !.state = state, !.user = sessions[s].user]

Open(s)     == sessions[s].state = "open"
SessionsOf(u) == {s \in Sessions : sessions[s].user = u}
LiveTokens(s) == {t \in Tokens : tokens[t].state = "live" /\ tokens[t].session = s}

\* ValidateAccessSession: what every authenticated request is admitted by.
Admitted(s) == Open(s) /\ users[sessions[s].user].status = "active"

\* user_sessions.user_id REFERENCES users ON DELETE CASCADE.
UserExists(u) == users[u].status # "gone"

\* Session ids and tokens are random: never used before, nor promised.
FreshSession(s) == sessions[s] = NoSession /\ \A r \in Requests : req[r].session # s
FreshToken(t)   == tokens[t] = NoToken

Ended(r)   == req' = [req EXCEPT ![r] = Idle]

-----------------------------------------------------------------------------
(* passwordLogin, once the password is known to be right. *)

\* GetUserByUsername and the checks on the row.
LoginRead(r, u, s) ==
    /\ req[r] = Idle
    /\ FreshSession(s)
    /\ users[u].status = "active"
    /\ req' = [req EXCEPT ![r] = [Idle EXCEPT !.kind = "login", !.step = "issue",
                   !.user = u, !.session = s, !.epoch = epoch[u], !.must = users[u].must,
                   !.late = u \in expired]]
    /\ UNCHANGED <<users, epoch, expired, sessions, tokens, cleared>>

\* The outcomes of reading an agent's profile.
Lookups == {"ok", "failed"}

\* agentExpired: an error of the lookup counts as not expired.
AgentExpired(u, lookup) == u \in Agents /\ lookup = "ok" /\ u \in expired

\* The first part of IssueUserSession. The user row is the one read before.
IssueCheck(r, lookup) ==
    /\ req[r].step = "issue"
    /\ IF AgentExpired(req[r].user, lookup) THEN Ended(r)
       ELSE req' = [req EXCEPT ![r] = [req[r] EXCEPT !.step = "insert",
                                                      !.late = req[r].late /\ lookup = "ok"]]
    /\ UNCHANGED <<users, epoch, expired, sessions, tokens, cleared>>

\* The transaction of IssueUserSession. Its fan-out is in ControlEvents.
IssueInsert(r, t) ==
    /\ req[r].step = "insert"
    /\ FreshToken(t)
    /\ UserExists(req[r].user)
    /\ sessions' = [sessions EXCEPT ![req[r].session] =
           [state |-> "open", user |-> req[r].user, epoch |-> req[r].epoch,
            scoped |-> ~req[r].must, crossed |-> req[r].crossed, late |-> req[r].late]]
    /\ tokens' = [tokens EXCEPT ![t] = [state |-> "live", session |-> req[r].session]]
    /\ Ended(r)
    /\ UNCHANGED <<users, epoch, expired, cleared>>

-----------------------------------------------------------------------------
(* RefreshUserSession. *)

\* Mutant: the revocation of the session is not looked at.
RefreshableByToken(t) ==
    /\ tokens[t].state = "live"
    /\ sessions[tokens[t].session].state \in {"open", "revoked"}
    /\ users[sessions[tokens[t].session].user].status = "active"

\* The row that SELECT ... FOR UPDATE locks, as the checks want it.
Refreshable(t) ==
    /\ tokens[t].state = "live"
    /\ Open(tokens[t].session)
    /\ users[sessions[tokens[t].session].user].status = "active"

\* Mutant: the old token is not revoked.
AddedToken(t, new) == [tokens EXCEPT ![new] = [state |-> "live", session |-> tokens[t].session]]

Rotated(t, new) ==
    [tokens EXCEPT ![t].state = "dead",
                   ![new] = [state |-> "live", session |-> tokens[t].session]]

Refresh(t, new, lookup) ==
    /\ Refreshable(t)
    /\ FreshToken(new)
    /\ LET s == tokens[t].session
           u == sessions[s].user
       IN  /\ ~AgentExpired(u, lookup)
           /\ sessions' = [sessions EXCEPT ![s] = [sessions[s] EXCEPT
                  !.scoped = ~users[u].must,
                  !.late = sessions[s].late \/ (u \in expired /\ lookup = "ok")]]
    /\ tokens' = Rotated(t, new)
    /\ UNCHANGED <<users, epoch, expired, req, cleared>>

TokenExpires(t) ==
    /\ tokens[t].state = "live"
    /\ tokens' = [tokens EXCEPT ![t].state = "dead"]
    /\ UNCHANGED <<users, epoch, expired, sessions, req, cleared>>

-----------------------------------------------------------------------------
(* Password updates and disabling: the account first, then its sessions. *)

NewEpoch(u) ==
    /\ epoch[u] < MaxEpoch
    /\ epoch' = [epoch EXCEPT ![u] = @ + 1]

\* changePassword, admitted through session s; next is the new session's id.
ChangeBegin(r, s, next) ==
    /\ req[r] = Idle
    /\ Admitted(s)
    /\ FreshSession(next)
    /\ req' = [req EXCEPT ![r] = [Idle EXCEPT !.kind = "change", !.step = "update",
                                              !.user = sessions[s].user, !.session = next]]
    /\ UNCHANGED <<users, epoch, expired, sessions, tokens, cleared>>

\* What changePassword goes on with once UpdatePassword is done.
Changed(r) ==
    [req[r] EXCEPT !.step = "start", !.epoch = epoch[req[r].user] + 1, !.must = FALSE,
                   !.late = req[r].user \in expired]

ChangeUpdate(r) ==
    /\ req[r].step = "update"
    /\ UserExists(req[r].user)
    /\ NewEpoch(req[r].user)
    /\ users' = [users EXCEPT ![req[r].user].must = FALSE]
    /\ req' = [req EXCEPT ![r] = Changed(r)]
    /\ UNCHANGED <<expired, sessions, tokens, cleared>>

\* resetUserPassword of an administrator.
Reset(r, u, must) ==
    /\ req[r] = Idle
    /\ UserExists(u)
    /\ NewEpoch(u)
    /\ users' = [users EXCEPT ![u].must = must]
    /\ req' = [req EXCEPT ![r] = [Idle EXCEPT !.kind = "reset", !.step = "start", !.user = u,
                                              !.epoch = epoch[u] + 1]]
    /\ UNCHANGED <<expired, sessions, tokens, cleared>>

\* updateUser with the status "disabled".
Disable(r, u) ==
    /\ req[r] = Idle
    /\ UserExists(u)
    /\ NewEpoch(u)
    /\ users' = [users EXCEPT ![u].status = "disabled"]
    /\ req' = [req EXCEPT ![r] = [Idle EXCEPT !.kind = "disable", !.step = "start", !.user = u,
                                              !.epoch = epoch[u] + 1]]
    /\ UNCHANGED <<expired, sessions, tokens, cleared>>

\* updateUser with the status "active".
Enable(u) ==
    /\ users[u].status = "disabled"
    /\ users' = [users EXCEPT ![u].status = "active"]
    /\ UNCHANGED <<epoch, expired, sessions, tokens, req, cleared>>

-----------------------------------------------------------------------------
(* RevokeUserSessionSet: two statements, each committed by itself. *)

\* The first statement starts: the tokens it sees.
SweepStart(r) ==
    /\ req[r].step = "start"
    /\ req' = [req EXCEPT ![r] = [req[r] EXCEPT !.step = "tokens",
                   !.snap = UNION {LiveTokens(s) : s \in SessionsOf(req[r].user)}]]
    /\ UNCHANGED <<users, epoch, expired, sessions, tokens, cleared>>

\* It ends: rows that a refresh changed meanwhile are checked again.
Revoked(ts) == [t \in Tokens |->
    IF t \in ts /\ tokens[t].state = "live" THEN [tokens[t] EXCEPT !.state = "dead"]
    ELSE tokens[t]]

SweepTokens(r) ==
    /\ req[r].step = "tokens"
    /\ tokens' = Revoked(req[r].snap)
    /\ req' = [req EXCEPT ![r] = [req[r] EXCEPT !.step = "sessions", !.snap = {}]]
    /\ UNCHANGED <<users, epoch, expired, sessions, cleared>>

\* Mutant: only sessions without a live token are revoked.
SweptWithoutTokens(u) == [s \in Sessions |->
    IF s \in SessionsOf(u) /\ Open(s) /\ LiveTokens(s) = {}
    THEN Closed(s, "revoked") ELSE sessions[s]]

\* The second statement.
Swept(u) == [s \in Sessions |->
    IF s \in SessionsOf(u) /\ Open(s) THEN Closed(s, "revoked") ELSE sessions[s]]

\* Requests that hold an older row of the user and still go on to open a session.
Crossing(r) == {x \in Requests \ {r} :
    /\ req[x].user = req[r].user
    /\ \/ req[x].kind = "login"
       \/ req[x].kind = "change" /\ req[x].step # "update"
    /\ req[x].epoch < req[r].epoch}

SweepSessions(r) ==
    /\ req[r].step = "sessions"
    /\ sessions' = Swept(req[r].user)
    /\ cleared' = [cleared EXCEPT ![req[r].user] =
           IF req[r].epoch > @ THEN req[r].epoch ELSE @]
    /\ req' = [x \in Requests |->
           IF x = r THEN IF req[r].kind = "change" THEN [req[r] EXCEPT !.step = "issue"] ELSE Idle
           ELSE IF x \in Crossing(r) THEN [req[x] EXCEPT !.crossed = TRUE]
           ELSE req[x]]
    /\ UNCHANGED <<users, epoch, expired, tokens>>

-----------------------------------------------------------------------------
(* Revoking one session. *)

\* logout, admitted through session s: its first statement. The token is
\* whatever the client sends.
LogoutToken(r, s, t) ==
    /\ req[r] = Idle
    /\ Admitted(s)
    /\ tokens' = IF t \in LiveTokens(s) THEN Revoked({t}) ELSE tokens
    /\ req' = [req EXCEPT ![r] = [Idle EXCEPT !.kind = "logout", !.step = "close", !.session = s,
                                              !.user = sessions[s].user]]
    /\ UNCHANGED <<users, epoch, expired, sessions, cleared>>

CloseSession(s) ==
    sessions' = [sessions EXCEPT ![s] = IF Open(s) THEN Closed(s, "revoked") ELSE @]

LogoutSession(r) ==
    /\ req[r].kind = "logout"
    /\ CloseSession(req[r].session)
    /\ Ended(r)
    /\ UNCHANGED <<users, epoch, expired, tokens, cleared>>

\* RevokeUserSessionByID: one transaction, whose first statement may wait too.
AdminRevokeStart(r, s) ==
    /\ req[r] = Idle
    /\ sessions[s].state \in {"open", "revoked"}
    /\ req' = [req EXCEPT ![r] = [Idle EXCEPT !.kind = "admin", !.step = "revoke", !.session = s,
                                      !.user = sessions[s].user, !.snap = LiveTokens(s)]]
    /\ UNCHANGED <<users, epoch, expired, sessions, tokens, cleared>>

AdminRevokeCommit(r) ==
    /\ req[r].kind = "admin"
    /\ tokens' = Revoked(req[r].snap)
    /\ CloseSession(req[r].session)
    /\ Ended(r)
    /\ UNCHANGED <<users, epoch, expired, cleared>>

-----------------------------------------------------------------------------
(* Deleting accounts and rows. *)

\* Mutant: a deleted account leaves its sessions as they are.
LeftBehind(u) == sessions

\* The rows that go with an account.
Cascaded(u) == [s \in Sessions |->
    IF s \in SessionsOf(u) THEN Closed(s, "gone") ELSE sessions[s]]

\* DeleteUser: revocation and removal are one transaction.
DeleteUser(u) ==
    /\ UserExists(u)
    /\ users' = [users EXCEPT ![u].status = "gone"]
    /\ sessions' = Cascaded(u)
    /\ UNCHANGED <<epoch, expired, tokens, req, cleared>>

\* DeleteAgent: the count of its sessions ...
DeleteAgentCount(r, u) ==
    /\ req[r] = Idle
    /\ u \in Agents /\ UserExists(u)
    /\ \A s \in SessionsOf(u) : ~Open(s)
    /\ req' = [req EXCEPT ![r] = [Idle EXCEPT !.kind = "remove", !.step = "counted", !.user = u]]
    /\ UNCHANGED <<users, epoch, expired, sessions, tokens, cleared>>

\* ... and the deletions.
DeleteAgentRows(r) ==
    /\ req[r].step = "counted"
    /\ users' = [users EXCEPT ![req[r].user].status = "gone"]
    /\ sessions' = Cascaded(req[r].user)
    /\ Ended(r)
    /\ UNCHANGED <<epoch, expired, tokens, cleared>>

\* CleanupRetention on user_sessions. Removing dead tokens changes nothing that
\* is told apart here.
Retain(s) ==
    /\ \/ sessions[s].state = "revoked"
       \/ Open(s) /\ LiveTokens(s) = {}
    /\ sessions' = [sessions EXCEPT ![s] = Closed(s, "gone")]
    /\ UNCHANGED <<users, epoch, expired, tokens, req, cleared>>

-----------------------------------------------------------------------------
(* The environment. *)

\* The expiry of an ephemeral agent passes.
AgentExpires(u) ==
    /\ u \in Agents \ expired
    /\ expired' = expired \cup {u}
    /\ UNCHANGED <<users, epoch, sessions, tokens, req, cleared>>

\* A statement fails or the server stops: committed statements stay.
Abandon(r) ==
    /\ req[r] # Idle
    /\ Ended(r)
    /\ UNCHANGED <<users, epoch, expired, sessions, tokens, cleared>>

LoginStep(r) ==
    \/ \E u \in Users, s \in Sessions : LoginRead(r, u, s)
    \/ \E lookup \in Lookups : IssueCheck(r, lookup)
    \/ \E t \in Tokens : IssueInsert(r, t)

AccountStep(r) ==
    \/ \E s, next \in Sessions : ChangeBegin(r, s, next)
    \/ ChangeUpdate(r)
    \/ \E u \in Users, must \in BOOLEAN : Reset(r, u, must)
    \/ \E u \in Users : Disable(r, u)
    \/ SweepStart(r)
    \/ SweepTokens(r)
    \/ SweepSessions(r)

RevokeStep(r) ==
    \/ \E s \in Sessions, t \in Tokens : LogoutToken(r, s, t)
    \/ LogoutSession(r)
    \/ \E s \in Sessions : AdminRevokeStart(r, s)
    \/ AdminRevokeCommit(r)
    \/ \E u \in Users : DeleteAgentCount(r, u)
    \/ DeleteAgentRows(r)

SessionNext ==
    \/ \E r \in Requests : LoginStep(r) \/ AccountStep(r) \/ RevokeStep(r) \/ Abandon(r)
    \/ \E t, new \in Tokens, lookup \in Lookups : Refresh(t, new, lookup)
    \/ \E t \in Tokens : TokenExpires(t)
    \/ \E s \in Sessions : Retain(s)
    \/ \E u \in Users : Enable(u) \/ DeleteUser(u) \/ AgentExpires(u)

SessionSpec == SessionInit /\ [][SessionNext]_sessionVars

-----------------------------------------------------------------------------
(* Properties *)

SessionRecord ==
    [state : {"none", "open", "revoked", "gone"}, user : Users \cup {NoUser}, epoch : Nat,
     scoped : BOOLEAN, crossed : BOOLEAN, late : BOOLEAN]
TokenRecord ==
    [state : {"none", "live", "dead"}, session : Sessions \cup {"none"}]
RequestRecord ==
    [kind : {"none", "login", "change", "reset", "disable", "logout", "admin", "remove"},
     step : {"idle", "issue", "insert", "update", "start", "tokens", "sessions", "close",
             "revoke", "counted"},
     user : Users \cup {NoUser}, session : Sessions \cup {"none"}, epoch : Nat,
     must : BOOLEAN, snap : SUBSET Tokens, crossed : BOOLEAN, late : BOOLEAN]

(* The rows and the requests of the handlers have their types. *)
SessionTypeOK ==
    /\ users \in [Users -> [status : {"active", "disabled", "gone"}, must : BOOLEAN]]
    /\ epoch \in [Users -> 0 .. MaxEpoch]
    /\ expired \subseteq Agents
    /\ sessions \in [Sessions -> SessionRecord]
    /\ tokens \in [Tokens -> TokenRecord]
    /\ req \in [Requests -> RequestRecord]
    /\ cleared \in [Users -> 0 .. MaxEpoch]

(* Once changePassword, resetUserPassword or updateUser has revoked the     *)
(* sessions of an account, no session opened on the strength of an older   *)
(* account row is open, unless its login held that row while the           *)
(* revocation ran.                                                         *)
SignedOut ==
    \A s \in Sessions :
        Open(s) /\ ~sessions[s].crossed => sessions[s].epoch >= cleared[sessions[s].user]

(* RefreshUserSession rotates: however refreshes, revocations and logouts   *)
(* interleave, a session has at most one token that a refresh accepts.     *)
OneLiveToken == \A s \in Sessions : Cardinality(LiveTokens(s)) <= 1

(* A session that was opened in the current epoch of its account carries   *)
(* model scopes exactly when the account need not change its password.     *)
ScopesFollowPassword ==
    \A s \in Sessions :
        LET u == sessions[s].user
        IN  Open(s) /\ sessions[s].epoch = epoch[u] => (sessions[s].scoped <=> ~users[u].must)

(* DeleteUser and DeleteAgent leave no open session of the account, not    *)
(* even of a login that read the account before.                           *)
DeletedSignedOut ==
    \A s \in Sessions : Open(s) => UserExists(sessions[s].user)

(* A revoked session is over for good: it is never open again, and it      *)
(* never gets another refresh token, not even with the token that a        *)
(* racing refresh kept out of the revocation's sight.                      *)
RevokedIsOver ==
    [][\A s \in Sessions :
          sessions[s].state \in {"revoked", "gone"} =>
              /\ sessions'[s].state \in {"revoked", "gone"}
              /\ LiveTokens(s)' \subseteq LiveTokens(s)]_sessionVars

(* An agent that had expired when its login, password change or refresh    *)
(* arrived has no session from it, however long the request waited, unless *)
(* its profile could not be read: agentExpired then lets it in.            *)
ExpiredAgentsRefused == \A s \in Sessions : ~(Open(s) /\ sessions[s].late)

\* The types; sessions go with their account, carry the scopes that the password
\* allows, and are refused to expired agents.
SessionInvariant ==
    /\ SessionTypeOK
    /\ ScopesFollowPassword
    /\ DeletedSignedOut
    /\ ExpiredAgentsRefused
=============================================================================
