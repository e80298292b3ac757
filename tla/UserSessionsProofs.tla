------------------------- MODULE UserSessionsProofs -------------------------
(***************************************************************************)
(* Theorems about UserSessions, for every set of users, agents, sessions,  *)
(* tokens and requests and every bound on sign-outs.                       *)
(***************************************************************************)
EXTENDS UserSessions, FiniteSetTheorems, TLAPS

-----------------------------------------------------------------------------
(* The inductive invariant. *)

\* The steps of each kind of request; a request under way is of some user.
StepsOf(kind) ==
    CASE kind = "none"   -> {"idle"}
      [] kind = "login"  -> {"issue", "insert"}
      [] kind = "change" -> {"update", "start", "tokens", "sessions", "issue", "insert"}
      [] kind = "reset"   -> {"start", "tokens", "sessions"}
      [] kind = "disable" -> {"start", "tokens", "sessions"}
      [] kind = "logout" -> {"close"}
      [] kind = "admin"  -> {"revoke"}
      [] OTHER           -> {"counted"}

WellFormed(q) ==
    /\ q.step \in StepsOf(q.kind)
    /\ q.kind # "none" => q.user \in Users
    /\ q.kind \in {"login", "change"} => q.session \in Sessions

RequestsWellFormed == \A r \in Requests : WellFormed(req[r])

\* The id a request will give its session is nobody else's and not in use.
Issues(r) == req[r].kind \in {"login", "change"}
Promised ==
    \A r \in Requests : Issues(r) =>
        /\ sessions[req[r].session] = NoSession
        /\ \A x \in Requests \ {r} : Issues(x) => req[x].session # req[r].session

\* Rows have an owner; tokens belong to sessions that were opened, and no two live
\* ones to the same.
RowsOwned ==
    \A s \in Sessions : sessions[s] = NoSession \/ (sessions[s].state # "none" /\ sessions[s].user \in Users)
TokensOwned ==
    \A t \in Tokens : tokens[t].state # "none" =>
        tokens[t].session \in Sessions /\ sessions[tokens[t].session].state # "none"
TokensSingle ==
    \A t, v \in Tokens :
        tokens[t].state = "live" /\ tokens[v].state = "live" /\ tokens[t].session = tokens[v].session => t = v

\* Nothing is ahead of the epoch of its account.
EpochsPast ==
    /\ \A u \in Users : cleared[u] <= epoch[u]
    /\ \A s \in Sessions : Open(s) => sessions[s].epoch <= epoch[sessions[s].user]
    /\ \A r \in Requests : req[r].kind # "none" => req[r].epoch <= epoch[req[r].user]

\* A request that holds an account row knows its epoch: whether the row asks for
\* a new password while the epoch lasts, and that no later sign-out has ended.
Holds(r) == req[r].kind = "login" \/ (req[r].kind = "change" /\ req[r].step # "update")
RowsRemembered ==
    \A r \in Requests : Holds(r) =>
        /\ ~req[r].crossed => req[r].epoch >= cleared[req[r].user]
        /\ req[r].epoch = epoch[req[r].user] => (req[r].must <=> users[req[r].user].must)

\* A request that came late is of an expired agent and gets no session.
LateRefused ==
    \A r \in Requests :
        /\ req[r].late => req[r].user \in expired
        /\ req[r].step = "insert" => ~req[r].late

SessionInductive ==
    /\ SessionTypeOK
    /\ RequestsWellFormed /\ Promised
    /\ RowsOwned /\ TokensOwned /\ TokensSingle
    /\ EpochsPast /\ RowsRemembered /\ LateRefused
    /\ SignedOut /\ ScopesFollowPassword /\ DeletedSignedOut /\ ExpiredAgentsRefused
-----------------------------------------------------------------------------
(* Types. *)

LEMMA IdleTyped == Idle \in RequestRecord /\ NoSession \in SessionRecord /\ NoToken \in TokenRecord
  BY DEF Idle, NoSession, NoToken, NoUser, RequestRecord, SessionRecord, TokenRecord

\* Rows that are closed keep their type.
LEMMA ClosedTyped ==
    ASSUME SessionTypeOK, NEW s \in Sessions, NEW state \in {"revoked", "gone"}
    PROVE  /\ Closed(s, state) \in SessionRecord
           /\ Closed(s, state).state = state /\ Closed(s, state).user = sessions[s].user
  BY DEF Closed, SessionTypeOK, NoSession, NoUser, SessionRecord

\* Tables that change in one row keep their type.
LEMMA RequestsTyped ==
    ASSUME SessionTypeOK, NEW r \in Requests, NEW q \in RequestRecord, req' = [req EXCEPT ![r] = q]
    PROVE  req' \in [Requests -> RequestRecord]
  BY DEF SessionTypeOK
LEMMA SessionsTyped ==
    ASSUME SessionTypeOK, NEW s, NEW row \in SessionRecord, sessions' = [sessions EXCEPT ![s] = row]
    PROVE  sessions' \in [Sessions -> SessionRecord]
  BY DEF SessionTypeOK

\* Revoking tokens keeps their type.
LEMMA RevokedTyped ==
    ASSUME SessionTypeOK, NEW ts
    PROVE  /\ Revoked(ts) \in [Tokens -> TokenRecord]
           /\ \A t \in Tokens : /\ Revoked(ts)[t].session = tokens[t].session
                                /\ Revoked(ts)[t].state = tokens[t].state \/ (Revoked(ts)[t].state = "dead" /\ tokens[t].state = "live")
                                /\ t \in ts => Revoked(ts)[t].state # "live"
  BY DEF Revoked, SessionTypeOK, TokenRecord

\* What a request becomes.
LEMMA ChangesTyped ==
    ASSUME NEW q \in RequestRecord, NEW b \in BOOLEAN, NEW n \in Nat, NEW ts \in SUBSET Tokens
    PROVE  /\ [q EXCEPT !.step = "insert", !.late = b] \in RequestRecord
           /\ [q EXCEPT !.step = "start", !.epoch = n, !.must = FALSE, !.late = b] \in RequestRecord
           /\ [q EXCEPT !.step = "tokens", !.snap = ts] \in RequestRecord
           /\ [q EXCEPT !.step = "sessions", !.snap = ts] \in RequestRecord
           /\ [q EXCEPT !.step = "issue"] \in RequestRecord
           /\ [q EXCEPT !.crossed = TRUE] \in RequestRecord
<1>1. [q EXCEPT !.step = "insert", !.late = b] \in RequestRecord
  BY DEF RequestRecord
<1>2. [q EXCEPT !.step = "start", !.epoch = n, !.must = FALSE, !.late = b] \in RequestRecord
  BY DEF RequestRecord
<1>3. /\ [q EXCEPT !.step = "tokens", !.snap = ts] \in RequestRecord
      /\ [q EXCEPT !.step = "sessions", !.snap = ts] \in RequestRecord
  BY DEF RequestRecord
<1>4. [q EXCEPT !.step = "issue"] \in RequestRecord /\ [q EXCEPT !.crossed = TRUE] \in RequestRecord
  BY DEF RequestRecord
<1> QED
  BY <1>1, <1>2, <1>3, <1>4

LEMMA LoginTyped ==
    ASSUME NEW u \in Users, NEW s \in Sessions, NEW n \in Nat, NEW must \in BOOLEAN, NEW b \in BOOLEAN
    PROVE  [Idle EXCEPT !.kind = "login", !.step = "issue", !.user = u, !.session = s, !.epoch = n,
                        !.must = must, !.late = b] \in RequestRecord
  BY IdleTyped DEF RequestRecord

\* Every step keeps the types.
LEMMA TypeStep ==
    ASSUME SessionTypeOK, RequestsWellFormed, EpochsPast, [SessionNext]_sessionVars
    PROVE  SessionTypeOK'
<1> USE SessionsAssumption, IdleTyped
<1>1. ASSUME NEW r \in Requests, NEW u \in Users, NEW s \in Sessions, LoginRead(r, u, s) PROVE SessionTypeOK'
  <2>1. [Idle EXCEPT !.kind = "login", !.step = "issue",
                   !.user = u, !.session = s, !.epoch = epoch[u], !.must = users[u].must,
                   !.late = u \in expired] \in RequestRecord
    <3>1. epoch[u] \in Nat /\ users[u].must \in BOOLEAN /\ (u \in expired) \in BOOLEAN
      BY DEF SessionTypeOK
    <3> QED
      BY <3>1, LoginTyped
  <2> QED
    BY <1>1, <2>1, RequestsTyped DEF LoginRead, SessionTypeOK
<1>2. ASSUME NEW r \in Requests, NEW lookup \in Lookups, IssueCheck(r, lookup) PROVE SessionTypeOK'
  <2>1. [req[r] EXCEPT !.step = "insert", !.late = req[r].late /\ lookup = "ok"] \in RequestRecord
    BY ChangesTyped DEF SessionTypeOK
  <2>2. req' \in [Requests -> RequestRecord]
    BY <1>2, <2>1, RequestsTyped DEF IssueCheck, Ended
  <2> QED
    BY <1>2, <2>2 DEF IssueCheck, SessionTypeOK
<1>3. ASSUME NEW r \in Requests, NEW t \in Tokens, IssueInsert(r, t) PROVE SessionTypeOK'
  <2> DEFINE row == [state |-> "open", user |-> req[r].user, epoch |-> req[r].epoch,
                     scoped |-> ~req[r].must, crossed |-> req[r].crossed, late |-> req[r].late]
  <2>1. row \in SessionRecord
    BY DEF SessionTypeOK, SessionRecord, RequestRecord
  <2>2. sessions' \in [Sessions -> SessionRecord]
    <3> HIDE DEF row
    <3>1. sessions' = [sessions EXCEPT ![req[r].session] = row]
      BY <1>3 DEF IssueInsert, row
    <3> QED
      BY <2>1, <3>1, SessionsTyped
  <2>3. req' \in [Requests -> RequestRecord]
    BY <1>3, RequestsTyped DEF IssueInsert, Ended
  <2>4. tokens' \in [Tokens -> TokenRecord]
    BY <1>3 DEF IssueInsert, SessionTypeOK, TokenRecord, RequestRecord
  <2> QED
    BY <1>3, <2>2, <2>3, <2>4 DEF IssueInsert, SessionTypeOK
<1>4. ASSUME NEW t \in Tokens, NEW new \in Tokens, NEW lookup \in Lookups, Refresh(t, new, lookup) PROVE SessionTypeOK'
  <2> DEFINE s == tokens[t].session
             u == sessions[s].user
             row == [sessions[s] EXCEPT !.scoped = ~users[u].must,
                        !.late = sessions[s].late \/ (u \in expired /\ lookup = "ok")]
  <2>1. sessions' \in [Sessions -> SessionRecord]
    <3>1. CASE s \in Sessions
      <4>1. sessions[s] \in SessionRecord
        BY <3>1 DEF SessionTypeOK
      <4>2. row \in SessionRecord
        BY <4>1 DEF SessionRecord
      <4>3. sessions' = [sessions EXCEPT ![s] = row]
        BY <1>4 DEF Refresh
      <4> HIDE DEF row
      <4> QED
        BY <4>2, <4>3, SessionsTyped
    <3>2. CASE s \notin Sessions
      <4>1. sessions' = [sessions EXCEPT ![s] = row]
        BY <1>4 DEF Refresh
      <4>2. sessions' = sessions
        BY <3>2, <4>1 DEF SessionTypeOK
      <4> QED
        BY <4>2 DEF SessionTypeOK
    <3> QED
      BY <3>1, <3>2
  <2>2. tokens' \in [Tokens -> TokenRecord]
    BY <1>4 DEF Refresh, Rotated, SessionTypeOK, TokenRecord
  <2> QED
    BY <1>4, <2>1, <2>2 DEF Refresh, SessionTypeOK
<1>5. ASSUME NEW t \in Tokens, TokenExpires(t) PROVE SessionTypeOK'
  BY <1>5 DEF TokenExpires, SessionTypeOK, TokenRecord
<1>6. ASSUME NEW r \in Requests, NEW s \in Sessions, NEW next \in Sessions, ChangeBegin(r, s, next) PROVE SessionTypeOK'
  <2>1. [Idle EXCEPT !.kind = "change", !.step = "update", !.user = sessions[s].user, !.session = next] \in RequestRecord
    BY DEF SessionTypeOK, RequestRecord, SessionRecord
  <2> QED
    BY <1>6, <2>1, RequestsTyped DEF ChangeBegin, SessionTypeOK
<1>7. ASSUME NEW u \in Users, NewEpoch(u) PROVE epoch' \in [Users -> 0 .. MaxEpoch] /\ epoch[u] + 1 \in Nat
  BY <1>7 DEF NewEpoch, SessionTypeOK
<1>8. ASSUME NEW r \in Requests, ChangeUpdate(r) PROVE SessionTypeOK'
  <2>1. req[r].user \in Users
    BY <1>8 DEF ChangeUpdate, RequestsWellFormed, WellFormed, StepsOf, SessionTypeOK, RequestRecord
  <2>2. Changed(r) \in RequestRecord
    <3>1. req[r] \in RequestRecord /\ epoch[req[r].user] + 1 \in Nat /\ (req[r].user \in expired) \in BOOLEAN
      BY <1>7, <1>8, <2>1 DEF ChangeUpdate, SessionTypeOK
    <3> QED
      BY <3>1, ChangesTyped DEF Changed
  <2>3. users' \in [Users -> [status : {"active", "disabled", "gone"}, must : BOOLEAN]]
    BY <1>8 DEF ChangeUpdate, SessionTypeOK
  <2> QED
    BY <1>7, <1>8, <2>1, <2>2, <2>3, RequestsTyped DEF ChangeUpdate, SessionTypeOK
<1>9. ASSUME NEW r \in Requests, NEW u \in Users, NEW must \in BOOLEAN, Reset(r, u, must) PROVE SessionTypeOK'
  <2>1. [Idle EXCEPT !.kind = "reset", !.step = "start", !.user = u, !.epoch = epoch[u] + 1] \in RequestRecord
    BY <1>7, <1>9 DEF Reset, RequestRecord
  <2>2. users' \in [Users -> [status : {"active", "disabled", "gone"}, must : BOOLEAN]]
    BY <1>9 DEF Reset, SessionTypeOK
  <2> QED
    BY <1>7, <1>9, <2>1, <2>2, RequestsTyped DEF Reset, SessionTypeOK
<1>10. ASSUME NEW r \in Requests, NEW u \in Users, Disable(r, u) PROVE SessionTypeOK'
  <2>1. [Idle EXCEPT !.kind = "disable", !.step = "start", !.user = u, !.epoch = epoch[u] + 1] \in RequestRecord
    BY <1>7, <1>10 DEF Disable, RequestRecord
  <2>2. users' \in [Users -> [status : {"active", "disabled", "gone"}, must : BOOLEAN]]
    BY <1>10 DEF Disable, SessionTypeOK
  <2> QED
    BY <1>7, <1>10, <2>1, <2>2, RequestsTyped DEF Disable, SessionTypeOK
<1>11. ASSUME NEW u \in Users, Enable(u) PROVE SessionTypeOK'
  BY <1>11 DEF Enable, SessionTypeOK
<1>12. ASSUME NEW r \in Requests, SweepStart(r) PROVE SessionTypeOK'
  <2>1. UNION {LiveTokens(s) : s \in SessionsOf(req[r].user)} \in SUBSET Tokens
    BY DEF LiveTokens
  <2> DEFINE ts == UNION {LiveTokens(s) : s \in SessionsOf(req[r].user)}
  <2>2. [req[r] EXCEPT !.step = "tokens", !.snap = ts] \in RequestRecord
    <3> HIDE DEF ts
    <3> QED
      BY <2>1, ChangesTyped DEF SessionTypeOK, ts
  <2> QED
    BY <1>12, <2>2, RequestsTyped DEF SweepStart, SessionTypeOK
<1>13. ASSUME NEW r \in Requests, SweepTokens(r) PROVE SessionTypeOK'
  <2>1. [req[r] EXCEPT !.step = "sessions", !.snap = {}] \in RequestRecord
    BY ChangesTyped DEF SessionTypeOK
  <2> QED
    BY <1>13, <2>1, RequestsTyped, RevokedTyped DEF SweepTokens, SessionTypeOK
<1>14. ASSUME NEW u PROVE Swept(u) \in [Sessions -> SessionRecord] /\ Cascaded(u) \in [Sessions -> SessionRecord]
  BY ClosedTyped DEF Swept, Cascaded, SessionTypeOK
<1>15. ASSUME NEW r \in Requests, SweepSessions(r) PROVE SessionTypeOK'
  <2>1. req[r].user \in Users /\ req[r].kind # "none"
    BY <1>15 DEF SweepSessions, RequestsWellFormed, WellFormed, StepsOf, SessionTypeOK, RequestRecord
  <2>2. req[r].epoch \in 0 .. MaxEpoch
    BY <2>1 DEF EpochsPast, SessionTypeOK, RequestRecord
  <2>3. cleared' \in [Users -> 0 .. MaxEpoch]
    BY <1>15, <2>1, <2>2 DEF SweepSessions, SessionTypeOK
  <2>4. ASSUME NEW x \in Requests PROVE req'[x] \in RequestRecord
    <3>1. req'[x] \in {[req[x] EXCEPT !.step = "issue"], Idle, [req[x] EXCEPT !.crossed = TRUE], req[x]}
      BY <1>15 DEF SweepSessions
    <3>2. req[x] \in RequestRecord
      BY DEF SessionTypeOK
    <3>3. [req[x] EXCEPT !.step = "issue"] \in RequestRecord /\ [req[x] EXCEPT !.crossed = TRUE] \in RequestRecord
      BY <3>2, ChangesTyped
    <3> QED
      BY <3>1, <3>2, <3>3, Zenon
  <2>5. req' \in [Requests -> RequestRecord]
    BY <1>15, <2>4 DEF SweepSessions
  <2> QED
    BY <1>14, <1>15, <2>3, <2>5 DEF SweepSessions, SessionTypeOK
<1>16. ASSUME NEW s, CloseSession(s) PROVE sessions' \in [Sessions -> SessionRecord]
  BY <1>16, ClosedTyped DEF CloseSession, SessionTypeOK
<1>17. ASSUME NEW r \in Requests, NEW s \in Sessions, NEW t \in Tokens, LogoutToken(r, s, t) PROVE SessionTypeOK'
  <2>1. [Idle EXCEPT !.kind = "logout", !.step = "close", !.session = s, !.user = sessions[s].user] \in RequestRecord
    BY DEF SessionTypeOK, RequestRecord, SessionRecord
  <2> QED
    BY <1>17, <2>1, RequestsTyped, RevokedTyped DEF LogoutToken, SessionTypeOK
<1>18. ASSUME NEW r \in Requests, LogoutSession(r) PROVE SessionTypeOK'
  BY <1>16, <1>18, RequestsTyped DEF LogoutSession, Ended, SessionTypeOK
<1>19. ASSUME NEW r \in Requests, NEW s \in Sessions, AdminRevokeStart(r, s) PROVE SessionTypeOK'
  <2>1. [Idle EXCEPT !.kind = "admin", !.step = "revoke", !.session = s, !.user = sessions[s].user,
             !.snap = LiveTokens(s)] \in RequestRecord
    BY DEF SessionTypeOK, RequestRecord, SessionRecord, LiveTokens
  <2> QED
    BY <1>19, <2>1, RequestsTyped DEF AdminRevokeStart, SessionTypeOK
<1>20. ASSUME NEW r \in Requests, AdminRevokeCommit(r) PROVE SessionTypeOK'
  BY <1>16, <1>20, RequestsTyped, RevokedTyped DEF AdminRevokeCommit, Ended, SessionTypeOK
<1>21. ASSUME NEW u \in Users, DeleteUser(u) PROVE SessionTypeOK'
  <2>1. users' \in [Users -> [status : {"active", "disabled", "gone"}, must : BOOLEAN]]
    BY <1>21 DEF DeleteUser, SessionTypeOK
  <2> QED
    BY <1>14, <1>21, <2>1 DEF DeleteUser, SessionTypeOK
<1>22. ASSUME NEW r \in Requests, NEW u \in Users, DeleteAgentCount(r, u) PROVE SessionTypeOK'
  <2>1. [Idle EXCEPT !.kind = "remove", !.step = "counted", !.user = u] \in RequestRecord
    BY DEF RequestRecord
  <2> QED
    BY <1>22, <2>1, RequestsTyped DEF DeleteAgentCount, SessionTypeOK
<1>23. ASSUME NEW r \in Requests, DeleteAgentRows(r) PROVE SessionTypeOK'
  <2>1. users' \in [Users -> [status : {"active", "disabled", "gone"}, must : BOOLEAN]]
    BY <1>23 DEF DeleteAgentRows, SessionTypeOK
  <2> QED
    BY <1>14, <1>23, <2>1, RequestsTyped DEF DeleteAgentRows, Ended, SessionTypeOK
<1>24. ASSUME NEW s \in Sessions, Retain(s) PROVE SessionTypeOK'
  BY <1>24, ClosedTyped, SessionsTyped DEF Retain, SessionTypeOK
<1>25. ASSUME NEW u \in Users, AgentExpires(u) PROVE SessionTypeOK'
  BY <1>25 DEF AgentExpires, SessionTypeOK
<1>26. ASSUME NEW r \in Requests, Abandon(r) PROVE SessionTypeOK'
  BY <1>26, RequestsTyped DEF Abandon, Ended, SessionTypeOK
<1>27. ASSUME UNCHANGED sessionVars PROVE SessionTypeOK'
  BY <1>27 DEF sessionVars, SessionTypeOK
<1> QED
  BY <1>1, <1>2, <1>3, <1>4, <1>5, <1>6, <1>8, <1>9, <1>10, <1>11, <1>12, <1>13, <1>15, <1>17, <1>18,
     <1>19, <1>20, <1>21, <1>22, <1>23, <1>24, <1>25, <1>26, <1>27
     DEF SessionNext, LoginStep, AccountStep, RevokeStep
-----------------------------------------------------------------------------
(* Rows of sessions and tokens. *)

\* A step that opens no session and hands out no token: rows are kept or closed.
ClosesRows ==
    \A s \in Sessions :
        \/ sessions'[s] = sessions[s]
        \/ /\ sessions[s].state # "none" /\ sessions'[s].state \in {"revoked", "gone"}
           /\ sessions'[s].user = sessions[s].user
KillsTokens ==
    \A t \in Tokens :
        /\ tokens'[t].session = tokens[t].session
        /\ tokens'[t].state = tokens[t].state \/ (tokens[t].state = "live" /\ tokens'[t].state = "dead")

\* All steps are of that kind but the insert of a login and the refresh.
LEMMA QuietSteps ==
    ASSUME SessionTypeOK, RequestsWellFormed, RowsOwned, [SessionNext]_sessionVars
    PROVE  \/ ClosesRows /\ KillsTokens
           \/ \E r \in Requests, t \in Tokens : IssueInsert(r, t)
           \/ \E t, new \in Tokens, lookup \in Lookups : Refresh(t, new, lookup)
<1> DEFINE Goal == ClosesRows /\ KillsTokens
<1>1. UNCHANGED sessions => ClosesRows
  BY DEF ClosesRows
<1>2. UNCHANGED tokens => KillsTokens
  BY DEF KillsTokens
<1>3. ASSUME NEW ts, tokens' = Revoked(ts) PROVE KillsTokens
  BY <1>3, RevokedTyped DEF KillsTokens
<1>4. ASSUME NEW u, sessions' = Swept(u) PROVE ClosesRows
  BY <1>4, ClosedTyped DEF ClosesRows, Swept, Open
<1>5. ASSUME NEW u \in Users, sessions' = Cascaded(u) PROVE ClosesRows
  <2>1. \A s \in SessionsOf(u) : sessions[s].state # "none"
    BY SessionsAssumption DEF SessionsOf, RowsOwned, NoSession, NoUser
  <2> QED
    BY <1>5, <2>1, ClosedTyped DEF ClosesRows, Cascaded, SessionsOf
<1>6. ASSUME NEW s, CloseSession(s) PROVE ClosesRows
  BY <1>6, ClosedTyped DEF ClosesRows, CloseSession, Open, SessionTypeOK
<1>7. ASSUME NEW r \in Requests, LoginStep(r), \A t \in Tokens : ~IssueInsert(r, t) PROVE Goal
  <2>1. ASSUME NEW u \in Users, NEW s \in Sessions, LoginRead(r, u, s) PROVE UNCHANGED <<sessions, tokens>>
    BY <2>1 DEF LoginRead
  <2>2. ASSUME NEW lookup \in Lookups, IssueCheck(r, lookup) PROVE UNCHANGED <<sessions, tokens>>
    BY <2>2 DEF IssueCheck
  <2>3. UNCHANGED <<sessions, tokens>>
    BY <1>7, <2>1, <2>2, Zenon DEF LoginStep
  <2> QED
    BY <1>1, <1>2, <2>3
<1>8. ASSUME NEW r \in Requests, AccountStep(r) PROVE Goal
  <2>1. ASSUME NEW s \in Sessions, NEW next \in Sessions, ChangeBegin(r, s, next) PROVE Goal
    BY <1>1, <1>2, <2>1 DEF ChangeBegin
  <2>2. ASSUME ChangeUpdate(r) PROVE Goal
    BY <1>1, <1>2, <2>2 DEF ChangeUpdate
  <2>3. ASSUME NEW u \in Users, NEW must \in BOOLEAN, Reset(r, u, must) PROVE Goal
    BY <1>1, <1>2, <2>3 DEF Reset
  <2>4. ASSUME NEW u \in Users, Disable(r, u) PROVE Goal
    BY <1>1, <1>2, <2>4 DEF Disable
  <2>5. ASSUME SweepStart(r) PROVE Goal
    BY <1>1, <1>2, <2>5 DEF SweepStart
  <2>6. ASSUME SweepTokens(r) PROVE Goal
    BY <1>1, <1>3, <2>6 DEF SweepTokens
  <2>7. ASSUME SweepSessions(r) PROVE Goal
    BY <1>2, <1>4, <2>7 DEF SweepSessions
  <2> QED
    BY <1>8, <2>1, <2>2, <2>3, <2>4, <2>5, <2>6, <2>7 DEF AccountStep
<1>9. ASSUME NEW r \in Requests, RevokeStep(r) PROVE Goal
  <2>1. ASSUME NEW s \in Sessions, NEW t \in Tokens, LogoutToken(r, s, t) PROVE Goal
    BY <1>1, <1>2, <1>3, <2>1 DEF LogoutToken
  <2>2. ASSUME LogoutSession(r) PROVE Goal
    BY <1>2, <1>6, <2>2 DEF LogoutSession
  <2>3. ASSUME NEW s \in Sessions, AdminRevokeStart(r, s) PROVE Goal
    BY <1>1, <1>2, <2>3 DEF AdminRevokeStart
  <2>4. ASSUME AdminRevokeCommit(r) PROVE Goal
    BY <1>3, <1>6, <2>4 DEF AdminRevokeCommit
  <2>5. ASSUME NEW u \in Users, DeleteAgentCount(r, u) PROVE Goal
    BY <1>1, <1>2, <2>5 DEF DeleteAgentCount
  <2>6. ASSUME DeleteAgentRows(r) PROVE Goal
    <3>1. req[r].user \in Users
      BY <2>6 DEF DeleteAgentRows, RequestsWellFormed, WellFormed, StepsOf, SessionTypeOK, RequestRecord
    <3> QED
      BY <1>2, <1>5, <2>6, <3>1 DEF DeleteAgentRows
  <2> QED
    BY <1>9, <2>1, <2>2, <2>3, <2>4, <2>5, <2>6 DEF RevokeStep
<1>10. ASSUME NEW r \in Requests, Abandon(r) PROVE Goal
  BY <1>1, <1>2, <1>10 DEF Abandon
<1>11. ASSUME NEW t \in Tokens, TokenExpires(t) PROVE Goal
  <2>1. KillsTokens
    BY <1>11 DEF TokenExpires, KillsTokens, SessionTypeOK, TokenRecord
  <2> QED
    BY <1>1, <1>11, <2>1 DEF TokenExpires
<1>12. ASSUME NEW s \in Sessions, Retain(s) PROVE Goal
  <2>1. ClosesRows
    BY <1>12, ClosedTyped DEF Retain, ClosesRows, Open, SessionTypeOK
  <2> QED
    BY <1>2, <1>12, <2>1 DEF Retain
<1>13. ASSUME NEW u \in Users, Enable(u) \/ AgentExpires(u) PROVE Goal
  BY <1>1, <1>2, <1>13 DEF Enable, AgentExpires
<1>14. ASSUME NEW u \in Users, DeleteUser(u) PROVE Goal
  BY <1>2, <1>5, <1>14 DEF DeleteUser
<1>15. ASSUME UNCHANGED sessionVars PROVE Goal
  BY <1>1, <1>2, <1>15 DEF sessionVars
<1> HIDE DEF Goal
<1>16. Goal \/ (\E r \in Requests, t \in Tokens : IssueInsert(r, t))
            \/ \E t, new \in Tokens, lookup \in Lookups : Refresh(t, new, lookup)
  BY <1>7, <1>8, <1>9, <1>10, <1>11, <1>12, <1>13, <1>14, <1>15 DEF SessionNext
<1> QED
  BY <1>16 DEF Goal

\* The insert of a login: a row that was not there, and its token.
LEMMA InsertEffect ==
    ASSUME SessionTypeOK, RequestsWellFormed, NEW r \in Requests, NEW t \in Tokens, IssueInsert(r, t)
    PROVE  LET s == req[r].session IN
           /\ Issues(r) /\ s \in Sessions /\ req[r].user \in Users
           /\ sessions'[s].state = "open" /\ sessions'[s].user = req[r].user
           /\ sessions'[s].epoch = req[r].epoch /\ (sessions'[s].scoped <=> ~req[r].must)
           /\ (sessions'[s].crossed <=> req[r].crossed) /\ (sessions'[s].late <=> req[r].late)
           /\ \A x \in Sessions \ {s} : sessions'[x] = sessions[x]
           /\ tokens'[t].state = "live" /\ tokens'[t].session = s
           /\ \A x \in Tokens \ {t} : tokens'[x] = tokens[x]
<1> DEFINE s == req[r].session
           row == [state |-> "open", user |-> req[r].user, epoch |-> req[r].epoch,
                   scoped |-> ~req[r].must, crossed |-> req[r].crossed, late |-> req[r].late]
<1>1. req[r].step = "insert" /\ req[r] \in RequestRecord /\ WellFormed(req[r])
  BY DEF IssueInsert, SessionTypeOK, RequestsWellFormed
<1>2. Issues(r) /\ s \in Sessions /\ req[r].user \in Users
  BY <1>1 DEF WellFormed, StepsOf, Issues, RequestRecord
<1>3. sessions'[s] = row /\ \A x \in Sessions \ {s} : sessions'[x] = sessions[x]
  BY <1>2 DEF IssueInsert, SessionTypeOK
<1>4. /\ tokens'[t].state = "live" /\ tokens'[t].session = s
      /\ \A x \in Tokens \ {t} : tokens'[x] = tokens[x]
  BY DEF IssueInsert, SessionTypeOK
<1>5. /\ row.state = "open" /\ row.user = req[r].user /\ row.epoch = req[r].epoch
      /\ (row.scoped <=> ~req[r].must) /\ (row.crossed <=> req[r].crossed) /\ (row.late <=> req[r].late)
  BY <1>1 DEF RequestRecord
<1> HIDE DEF row
<1> QED
  BY <1>2, <1>3, <1>4, <1>5

\* The refresh: an open session of an active account gets a token for another.
LEMMA RefreshEffect ==
    ASSUME SessionTypeOK, TokensOwned, RowsOwned, ExpiredAgentsRefused, NEW t \in Tokens, NEW new \in Tokens,
           NEW lookup \in Lookups, Refresh(t, new, lookup)
    PROVE  LET s == tokens[t].session
               u == sessions[s].user IN
           /\ s \in Sessions /\ u \in Users /\ sessions[s].state = "open" /\ sessions'[s].state = "open"
           /\ sessions'[s].user = u /\ sessions'[s].epoch = sessions[s].epoch
           /\ (sessions'[s].scoped <=> ~users[u].must) /\ (sessions'[s].crossed <=> sessions[s].crossed)
           /\ ~sessions'[s].late
           /\ \A x \in Sessions \ {s} : sessions'[x] = sessions[x]
           /\ t # new /\ tokens[t].state = "live" /\ tokens'[t].state = "dead" /\ tokens'[t].session = s
           /\ tokens'[new].state = "live" /\ tokens'[new].session = s
           /\ \A x \in Tokens \ {t, new} : tokens'[x] = tokens[x]
<1> DEFINE s == tokens[t].session
           u == sessions[s].user
           late == sessions[s].late \/ (u \in expired /\ lookup = "ok")
           row == [sessions[s] EXCEPT !.scoped = ~users[u].must, !.late = late]
<1>1. s \in Sessions /\ sessions[s].state = "open" /\ tokens[t].state = "live" /\ tokens[new].state = "none"
  BY DEF Refresh, Refreshable, FreshToken, NoToken, Open, TokensOwned
<1>2. u \in Users /\ sessions[s] \in SessionRecord
  BY <1>1 DEF RowsOwned, NoSession, SessionTypeOK
<1>3. ~late
  <2>1. ~sessions[s].late
    BY <1>1 DEF ExpiredAgentsRefused, Open
  <2>2. ~(u \in expired /\ lookup = "ok")
    BY DEF Refresh, AgentExpired, SessionTypeOK
  <2> QED
    BY <2>1, <2>2
<1>4. sessions'[s] = row /\ \A x \in Sessions \ {s} : sessions'[x] = sessions[x]
  BY <1>1 DEF Refresh, SessionTypeOK
<1>5. /\ row.state = "open" /\ row.user = u /\ row.epoch = sessions[s].epoch
      /\ (row.scoped <=> ~users[u].must) /\ (row.crossed <=> sessions[s].crossed) /\ (row.late <=> late)
  <2> HIDE DEF late, u
  <2> QED
    BY <1>1, <1>2 DEF SessionRecord, u
<1>6. /\ t # new /\ tokens'[t].state = "dead" /\ tokens'[t].session = s
      /\ tokens'[new].state = "live" /\ tokens'[new].session = s
      /\ \A x \in Tokens \ {t, new} : tokens'[x] = tokens[x]
  BY <1>1 DEF Refresh, Rotated, SessionTypeOK, TokenRecord
<1> HIDE DEF row, late
<1> QED
  BY <1>1, <1>2, <1>3, <1>4, <1>5, <1>6
\* What a revoked session keeps: RevokedIsOver says it of every step.
StaysOver ==
    \A s \in Sessions :
        sessions[s].state \in {"revoked", "gone"} =>
            /\ sessions'[s].state \in {"revoked", "gone"}
            /\ LiveTokens(s)' \subseteq LiveTokens(s)

\* Rows keep their owners, tokens stay single, and what is over stays over.
LEMMA RowStep ==
    ASSUME SessionInductive, [SessionNext]_sessionVars
    PROVE  RowsOwned' /\ TokensOwned' /\ TokensSingle' /\ ExpiredAgentsRefused' /\ StaysOver
<1> USE DEF SessionInductive
<1> DEFINE Goal == RowsOwned' /\ TokensOwned' /\ TokensSingle' /\ ExpiredAgentsRefused' /\ StaysOver
<1>1. ASSUME ClosesRows, KillsTokens PROVE Goal
  <2>1. RowsOwned'
    <3>1. ASSUME NEW s \in Sessions
          PROVE  sessions'[s] = NoSession \/ (sessions'[s].state # "none" /\ sessions'[s].user \in Users)
      <4>1. CASE sessions'[s] = sessions[s]
        BY <4>1, Zenon DEF RowsOwned
      <4>2. CASE sessions'[s] # sessions[s]
        <5>1. /\ sessions[s].state # "none" /\ sessions'[s].state \in {"revoked", "gone"}
              /\ sessions'[s].user = sessions[s].user
          BY <1>1, <4>2, Zenon DEF ClosesRows
        <5>2. sessions[s] # NoSession
          BY <5>1 DEF NoSession
        <5>3. sessions[s].user \in Users
          BY <5>2, Zenon DEF RowsOwned
        <5> QED
          BY <5>1, <5>3
      <4> QED
        BY <4>1, <4>2
    <3> QED
      BY <3>1, Zenon DEF RowsOwned
  <2>2. TokensOwned'
    BY <1>1 DEF TokensOwned, ClosesRows, KillsTokens
  <2>3. TokensSingle'
    BY <1>1 DEF TokensSingle, KillsTokens
  <2>4. ExpiredAgentsRefused'
    BY <1>1 DEF ExpiredAgentsRefused, ClosesRows, Open
  <2>5. StaysOver
    BY <1>1 DEF StaysOver, ClosesRows, KillsTokens, LiveTokens
  <2> QED
    BY <2>1, <2>2, <2>3, <2>4, <2>5
<1>2. ASSUME NEW r \in Requests, NEW t \in Tokens, IssueInsert(r, t) PROVE Goal
  <2> DEFINE s == req[r].session
  <2>1. /\ Issues(r) /\ s \in Sessions /\ req[r].user \in Users
        /\ sessions'[s].state = "open" /\ sessions'[s].user = req[r].user /\ (sessions'[s].late <=> req[r].late)
        /\ \A x \in Sessions \ {s} : sessions'[x] = sessions[x]
        /\ tokens'[t].state = "live" /\ tokens'[t].session = s
        /\ \A x \in Tokens \ {t} : tokens'[x] = tokens[x]
    BY <1>2, InsertEffect
  <2>2. sessions[s].state = "none"
    BY <2>1 DEF Promised, NoSession
  <2>3. ~req[r].late
    BY <1>2 DEF IssueInsert, LateRefused
  <2>4. \A x \in Tokens : tokens[x].state = "live" => tokens[x].session # s
    BY <2>2 DEF TokensOwned
  <2> HIDE DEF s
  <2>5. RowsOwned'
    BY <2>1 DEF RowsOwned
  <2>6. TokensOwned'
    BY <2>1 DEF TokensOwned
  <2>7. TokensSingle'
    BY <2>1, <2>4 DEF TokensSingle
  <2>8. ExpiredAgentsRefused'
    BY <2>1, <2>3 DEF ExpiredAgentsRefused, Open
  <2>9. StaysOver
    BY <2>1, <2>2 DEF StaysOver, LiveTokens
  <2> QED
    BY <2>5, <2>6, <2>7, <2>8, <2>9
<1>3. ASSUME NEW t \in Tokens, NEW new \in Tokens, NEW lookup \in Lookups, Refresh(t, new, lookup) PROVE Goal
  <2> DEFINE s == tokens[t].session
  <2>1. /\ s \in Sessions /\ sessions[s].user \in Users /\ sessions[s].state = "open" /\ sessions'[s].state = "open"
        /\ sessions'[s].user = sessions[s].user /\ ~sessions'[s].late
        /\ \A x \in Sessions \ {s} : sessions'[x] = sessions[x]
        /\ t # new /\ tokens[t].state = "live" /\ tokens'[t].state = "dead" /\ tokens'[t].session = s
        /\ tokens'[new].state = "live" /\ tokens'[new].session = s
        /\ \A x \in Tokens \ {t, new} : tokens'[x] = tokens[x]
    BY <1>3, RefreshEffect
  <2>2. \A x \in Tokens : tokens[x].state = "live" /\ tokens[x].session = s => x = t
    BY <2>1 DEF TokensSingle
  <2> HIDE DEF s
  <2>3. RowsOwned'
    BY <2>1 DEF RowsOwned
  <2>4. TokensOwned'
    BY <2>1 DEF TokensOwned
  <2>5. TokensSingle'
    BY <2>1, <2>2 DEF TokensSingle
  <2>6. ExpiredAgentsRefused'
    BY <2>1 DEF ExpiredAgentsRefused, Open
  <2>7. StaysOver
    BY <2>1 DEF StaysOver, LiveTokens
  <2> QED
    BY <2>3, <2>4, <2>5, <2>6, <2>7
<1> HIDE DEF Goal
<1>4. Goal
  BY <1>1, <1>2, <1>3, QuietSteps
<1> QED
  BY <1>4 DEF Goal
-----------------------------------------------------------------------------
(* Requests. *)

\* A request goes on with what it holds.
Continued(q, p) ==
    /\ p.kind = q.kind /\ p.user = q.user /\ p.session = q.session /\ p.epoch = q.epoch
    /\ (p.must <=> q.must) /\ (q.crossed => p.crossed) /\ (p.late => q.late)
    /\ p.step \in StepsOf(q.kind) /\ q.step # "update" /\ p.step # "update"
    /\ p.step = "insert" => ~p.late \/ q.step = "insert"

\* A login has read the account row, and holds an id for its session.
LoginBegun(x, p) ==
    /\ req[x] = Idle
    /\ p.kind = "login" /\ p.step = "issue" /\ p.user \in Users /\ users[p.user].status = "active"
    /\ p.session \in Sessions /\ FreshSession(p.session)
    /\ p.epoch = epoch[p.user] /\ (p.must <=> users[p.user].must) /\ (p.late <=> p.user \in expired)
    /\ UNCHANGED <<users, epoch, cleared, expired>>

\* A password change holds an id for its session, and no row yet.
ChangeBegun(x, p) ==
    /\ req[x] = Idle
    /\ p.kind = "change" /\ p.step = "update" /\ p.user \in Users
    /\ p.session \in Sessions /\ FreshSession(p.session)
    /\ p.epoch = 0 /\ ~p.late

\* A password change has written the row.
ChangeWritten(q, p) ==
    /\ q.kind = "change" /\ p.kind = "change" /\ p.step = "start"
    /\ p.user = q.user /\ p.session = q.session /\ p.user \in Users
    /\ p.epoch = epoch[p.user] + 1 /\ epoch'[p.user] = epoch[p.user] + 1
    /\ ~p.must /\ ~users'[p.user].must /\ (p.late => p.user \in expired)
    /\ UNCHANGED <<cleared, expired>>

\* A request that opens no session.
OtherBegun(x, p) ==
    /\ req[x] = Idle
    /\ p.kind \in {"reset", "disable", "logout", "admin", "remove"}
    /\ p.step \in StepsOf(p.kind) /\ p.user \in Users
    /\ p.epoch <= epoch'[p.user] /\ ~p.late

RequestMoves(x) ==
    \/ req'[x] = req[x]
    \/ req'[x] = Idle
    \/ Continued(req[x], req'[x])
    \/ LoginBegun(x, req'[x])
    \/ ChangeBegun(x, req'[x])
    \/ ChangeWritten(req[x], req'[x])
    \/ OtherBegun(x, req'[x])

\* The ways in which requests go on.
LEMMA CheckedFields ==
    ASSUME NEW q \in RequestRecord, NEW b \in BOOLEAN, q.step # "update", q.kind \in {"login", "change"}, ~b
    PROVE  Continued(q, [q EXCEPT !.step = "insert", !.late = b])
  BY DEF Continued, StepsOf, RequestRecord
LEMMA SweepingFields ==
    ASSUME NEW q \in RequestRecord, NEW ts, q.step # "update", q.kind \in {"change", "reset", "disable"}
    PROVE  /\ Continued(q, [q EXCEPT !.step = "tokens", !.snap = ts])
           /\ Continued(q, [q EXCEPT !.step = "sessions", !.snap = ts])
  BY DEF Continued, StepsOf, RequestRecord
LEMMA SweptFields ==
    ASSUME NEW q \in RequestRecord, q.step # "update", q.kind = "change"
    PROVE  Continued(q, [q EXCEPT !.step = "issue"])
  BY DEF Continued, StepsOf, RequestRecord
LEMMA CrossedFields ==
    ASSUME NEW q \in RequestRecord, q.step # "update", q.step \in StepsOf(q.kind)
    PROVE  Continued(q, [q EXCEPT !.crossed = TRUE])
  BY DEF Continued, RequestRecord
Written(q, n, b) == [q EXCEPT !.step = "start", !.epoch = n, !.must = FALSE, !.late = b]
LEMMA WrittenFields ==
    ASSUME NEW q \in RequestRecord, NEW b \in BOOLEAN, NEW n
    PROVE  LET p == Written(q, n, b)
           IN  /\ p.kind = q.kind /\ p.step = "start" /\ p.user = q.user /\ p.session = q.session
               /\ p.epoch = n /\ ~p.must /\ (p.late <=> b)
  BY DEF RequestRecord, Written

\* The requests that an operation starts.
LoginRequest(u, s, n, must, b) ==
    [Idle EXCEPT !.kind = "login", !.step = "issue", !.user = u, !.session = s, !.epoch = n,
                 !.must = must, !.late = b]
LEMMA LoginFields ==
    ASSUME NEW u, NEW s, NEW n, NEW must \in BOOLEAN, NEW b \in BOOLEAN
    PROVE  LET p == LoginRequest(u, s, n, must, b)
           IN  /\ p.kind = "login" /\ p.step = "issue" /\ p.user = u /\ p.session = s /\ p.epoch = n
               /\ (p.must <=> must) /\ (p.late <=> b)
  BY DEF Idle, LoginRequest
LEMMA ChangeFields ==
    ASSUME NEW u, NEW s
    PROVE  LET p == [Idle EXCEPT !.kind = "change", !.step = "update", !.user = u, !.session = s]
           IN  /\ p.kind = "change" /\ p.step = "update" /\ p.user = u /\ p.session = s /\ p.epoch = 0
               /\ ~p.late
  BY DEF Idle
LEMMA SweepFields ==
    ASSUME NEW u, NEW n, NEW kind
    PROVE  LET p == [Idle EXCEPT !.kind = kind, !.step = "start", !.user = u, !.epoch = n]
           IN  p.kind = kind /\ p.step = "start" /\ p.user = u /\ p.epoch = n /\ ~p.late
  BY DEF Idle
LEMMA LogoutFields ==
    ASSUME NEW u, NEW s
    PROVE  LET p == [Idle EXCEPT !.kind = "logout", !.step = "close", !.session = s, !.user = u]
           IN  p.kind = "logout" /\ p.step = "close" /\ p.user = u /\ p.epoch = 0 /\ ~p.late
  BY DEF Idle
LEMMA AdminFields ==
    ASSUME NEW u, NEW s, NEW ts
    PROVE  LET p == [Idle EXCEPT !.kind = "admin", !.step = "revoke", !.session = s, !.user = u, !.snap = ts]
           IN  p.kind = "admin" /\ p.step = "revoke" /\ p.user = u /\ p.epoch = 0 /\ ~p.late
  BY DEF Idle
LEMMA RemoveFields ==
    ASSUME NEW u
    PROVE  LET p == [Idle EXCEPT !.kind = "remove", !.step = "counted", !.user = u]
           IN  p.kind = "remove" /\ p.step = "counted" /\ p.user = u /\ p.epoch = 0 /\ ~p.late
  BY DEF Idle

\* The kinds of the requests at each step.
LEMMA StepKinds ==
    ASSUME SessionTypeOK, RequestsWellFormed, NEW r \in Requests
    PROVE  /\ req[r] \in RequestRecord
           /\ req[r].step \in StepsOf(req[r].kind)
           /\ req[r].step = "issue" => req[r].kind \in {"login", "change"}
           /\ req[r].step = "update" => req[r].kind = "change"
           /\ req[r].step \in {"start", "tokens", "sessions"} => req[r].kind \in {"change", "reset", "disable"}
           /\ req[r].step = "counted" => req[r].kind = "remove"
           /\ req[r].step # "idle" => req[r].user \in Users
  BY DEF SessionTypeOK, RequestsWellFormed, WellFormed, StepsOf, RequestRecord
\* Every step moves every request in one of these ways.
LEMMA RequestsMove ==
    ASSUME SessionInductive, [SessionNext]_sessionVars, NEW x \in Requests
    PROVE  RequestMoves(x)
<1>0. SessionTypeOK /\ RequestsWellFormed /\ RowsOwned /\ LateRefused
  BY DEF SessionInductive
<1> DEFINE Goal == RequestMoves(x)
<1>1. UNCHANGED req => Goal
  BY DEF RequestMoves
<1>2. ASSUME NEW r \in Requests, NEW q, req' = [req EXCEPT ![r] = q] PROVE req'[x] = req[x] \/ (x = r /\ req'[x] = q)
  BY <1>0, <1>2 DEF SessionTypeOK
<1>3. ASSUME NEW r \in Requests, Ended(r) PROVE Goal
  BY <1>2, <1>3 DEF Ended, RequestMoves
<1>4. ASSUME NEW u \in Users, NewEpoch(u) PROVE epoch'[u] = epoch[u] + 1 /\ epoch[u] + 1 \in Nat
  BY <1>0, <1>4 DEF NewEpoch, SessionTypeOK
<1>5. \A u \in Users : epoch[u] \in Nat
  BY <1>0, SessionsAssumption DEF SessionTypeOK
<1>6. ASSUME NEW s \in Sessions, sessions[s].state # "none" PROVE sessions[s].user \in Users
  BY <1>0, <1>6 DEF RowsOwned, NoSession
<1>7. ASSUME NEW r \in Requests, LoginStep(r) PROVE Goal
  <2>1. ASSUME NEW u \in Users, NEW s \in Sessions, LoginRead(r, u, s) PROVE Goal
    <3> DEFINE must == users[u].must
               late == u \in expired
               p == LoginRequest(u, s, epoch[u], must, late)
    <3>1. req' = [req EXCEPT ![r] = p] /\ req[r] = Idle /\ FreshSession(s) /\ users[u].status = "active"
          /\ UNCHANGED <<users, epoch, cleared, expired>>
      BY <2>1 DEF LoginRead, LoginRequest
    <3>2. must \in BOOLEAN /\ late \in BOOLEAN
      BY <1>0 DEF SessionTypeOK
    <3>3. /\ p.kind = "login" /\ p.step = "issue" /\ p.user = u /\ p.session = s /\ p.epoch = epoch[u]
          /\ (p.must <=> must) /\ (p.late <=> late)
      <4> HIDE DEF must, late
      <4> QED
        BY <3>2, LoginFields
    <3> HIDE DEF p
    <3>4. LoginBegun(r, p)
      BY <3>1, <3>3 DEF LoginBegun
    <3>5. req'[x] = req[x] \/ (x = r /\ req'[x] = p)
      BY <3>1, <1>2
    <3> QED
      BY <3>4, <3>5, Zenon DEF RequestMoves
  <2>2. ASSUME NEW lookup \in Lookups, IssueCheck(r, lookup) PROVE Goal
    <3>1. CASE AgentExpired(req[r].user, lookup)
      BY <1>3, <2>2, <3>1 DEF IssueCheck
    <3>2. CASE ~AgentExpired(req[r].user, lookup)
      <4> DEFINE b == req[r].late /\ lookup = "ok"
                 p == [req[r] EXCEPT !.step = "insert", !.late = b]
      <4>1. req' = [req EXCEPT ![r] = p] /\ req[r].step = "issue"
        BY <2>2, <3>2 DEF IssueCheck
      <4>2. ~b /\ b \in BOOLEAN
        BY <1>0, <3>2 DEF AgentExpired, LateRefused, SessionTypeOK
      <4>5. req[r] \in RequestRecord /\ req[r].step # "update" /\ req[r].kind \in {"login", "change"}
        BY <1>0, <4>1, StepKinds
      <4>3. Continued(req[r], p)
        <5> HIDE DEF b
        <5> QED
          BY <4>2, <4>5, CheckedFields, Zenon
      <4> HIDE DEF p
      <4>4. req'[x] = req[x] \/ (x = r /\ req'[x] = p)
        BY <4>1, <1>2
      <4> QED
        BY <4>3, <4>4, Zenon DEF RequestMoves
    <3> QED
      BY <3>1, <3>2
  <2>3. ASSUME NEW t \in Tokens, IssueInsert(r, t) PROVE Goal
    BY <1>3, <2>3 DEF IssueInsert
  <2> QED
    BY <1>7, <2>1, <2>2, <2>3 DEF LoginStep
<1>8. ASSUME NEW r \in Requests, AccountStep(r) PROVE Goal
  <2>1. ASSUME NEW s \in Sessions, NEW next \in Sessions, ChangeBegin(r, s, next) PROVE Goal
    <3> DEFINE u == sessions[s].user
               p == [Idle EXCEPT !.kind = "change", !.step = "update", !.user = u, !.session = next]
    <3>1. req' = [req EXCEPT ![r] = p] /\ req[r] = Idle /\ FreshSession(next) /\ u \in Users
      BY <1>6, <2>1 DEF ChangeBegin, Admitted, Open
    <3>2. /\ p.kind = "change" /\ p.step = "update" /\ p.user = u /\ p.session = next /\ p.epoch = 0
          /\ ~p.late
      BY ChangeFields, Zenon
    <3> HIDE DEF p, u
    <3>3. ChangeBegun(r, p)
      BY <3>1, <3>2 DEF ChangeBegun
    <3>4. req'[x] = req[x] \/ (x = r /\ req'[x] = p)
      BY <3>1, <1>2
    <3> QED
      BY <3>3, <3>4, Zenon DEF RequestMoves
  <2>2. ASSUME ChangeUpdate(r) PROVE Goal
    <3> DEFINE p == Changed(r)
               u == req[r].user
               late == u \in expired
               n == epoch[u] + 1
    <3>1. req' = [req EXCEPT ![r] = p] /\ req[r].step = "update" /\ req[r].kind = "change" /\ u \in Users
          /\ req[r] \in RequestRecord
      BY <1>0, <2>2, StepKinds DEF ChangeUpdate
    <3>2. epoch'[u] = epoch[u] + 1 /\ ~users'[u].must /\ UNCHANGED <<cleared, expired>>
      BY <1>0, <1>4, <2>2, <3>1 DEF ChangeUpdate, SessionTypeOK
    <3>3. p = Written(req[r], n, late) /\ late \in BOOLEAN
      BY DEF Changed, Written
    <3> HIDE DEF p
    <3>4. /\ p.kind = "change" /\ p.step = "start" /\ p.user = u /\ p.session = req[r].session
          /\ p.epoch = n /\ ~p.must /\ (p.late <=> late)
      <4> HIDE DEF late, n, u
      <4>1. (p.late <=> late) /\ ~p.must
        BY <3>1, <3>3, WrittenFields
      <4> QED
        BY <3>1, <3>3, <4>1, WrittenFields DEF u
    <3>5. ChangeWritten(req[r], p)
      BY <3>1, <3>2, <3>4 DEF ChangeWritten
    <3>6. req'[x] = req[x] \/ (x = r /\ req'[x] = p)
      BY <3>1, <1>2
    <3> QED
      BY <3>5, <3>6, Zenon DEF RequestMoves
  <2>3. ASSUME NEW u \in Users, NEW must \in BOOLEAN, Reset(r, u, must) PROVE Goal
    <3> DEFINE p == [Idle EXCEPT !.kind = "reset", !.step = "start", !.user = u, !.epoch = epoch[u] + 1]
    <3>1. req' = [req EXCEPT ![r] = p] /\ req[r] = Idle /\ epoch'[u] = epoch[u] + 1 /\ epoch[u] + 1 \in Nat
      BY <1>4, <2>3 DEF Reset
    <3>2. p.kind = "reset" /\ p.step = "start" /\ p.user = u /\ p.epoch = epoch[u] + 1 /\ ~p.late
      BY SweepFields, Zenon
    <3> HIDE DEF p
    <3>3. OtherBegun(r, p)
      BY <3>1, <3>2 DEF OtherBegun, StepsOf
    <3>4. req'[x] = req[x] \/ (x = r /\ req'[x] = p)
      BY <3>1, <1>2
    <3> QED
      BY <3>3, <3>4, Zenon DEF RequestMoves
  <2>4. ASSUME NEW u \in Users, Disable(r, u) PROVE Goal
    <3> DEFINE p == [Idle EXCEPT !.kind = "disable", !.step = "start", !.user = u, !.epoch = epoch[u] + 1]
    <3>1. req' = [req EXCEPT ![r] = p] /\ req[r] = Idle /\ epoch'[u] = epoch[u] + 1 /\ epoch[u] + 1 \in Nat
      BY <1>4, <2>4 DEF Disable
    <3>2. p.kind = "disable" /\ p.step = "start" /\ p.user = u /\ p.epoch = epoch[u] + 1 /\ ~p.late
      BY SweepFields, Zenon
    <3> HIDE DEF p
    <3>3. OtherBegun(r, p)
      BY <3>1, <3>2 DEF OtherBegun, StepsOf
    <3>4. req'[x] = req[x] \/ (x = r /\ req'[x] = p)
      BY <3>1, <1>2
    <3> QED
      BY <3>3, <3>4, Zenon DEF RequestMoves
  <2>5. ASSUME SweepStart(r) PROVE Goal
    <3> DEFINE ts == UNION {LiveTokens(s) : s \in SessionsOf(req[r].user)}
               p == [req[r] EXCEPT !.step = "tokens", !.snap = ts]
    <3>1. req' = [req EXCEPT ![r] = p] /\ req[r].step = "start"
      BY <2>5 DEF SweepStart
    <3>2. Continued(req[r], p)
      <4>1. req[r] \in RequestRecord /\ req[r].step # "update" /\ req[r].kind \in {"change", "reset", "disable"}
        BY <1>0, <3>1, StepKinds
      <4> HIDE DEF ts
      <4> QED
        BY <4>1, SweepingFields, Zenon
    <3> HIDE DEF p
    <3>3. req'[x] = req[x] \/ (x = r /\ req'[x] = p)
      BY <3>1, <1>2
    <3> QED
      BY <3>2, <3>3, Zenon DEF RequestMoves
  <2>6. ASSUME SweepTokens(r) PROVE Goal
    <3> DEFINE p == [req[r] EXCEPT !.step = "sessions", !.snap = {}]
    <3>1. req' = [req EXCEPT ![r] = p] /\ req[r].step = "tokens"
      BY <2>6 DEF SweepTokens
    <3>2. Continued(req[r], p)
      <4>1. req[r] \in RequestRecord /\ req[r].step # "update" /\ req[r].kind \in {"change", "reset", "disable"}
        BY <1>0, <3>1, StepKinds
      <4> QED
        BY <4>1, SweepingFields, Zenon
    <3> HIDE DEF p
    <3>3. req'[x] = req[x] \/ (x = r /\ req'[x] = p)
      BY <3>1, <1>2
    <3> QED
      BY <3>2, <3>3, Zenon DEF RequestMoves
  <2>7. ASSUME SweepSessions(r) PROVE Goal
    <3>1. CASE x = r
      <4>1. req'[x] = Idle \/ (req[x].kind = "change" /\ req[x].step = "sessions" /\ req'[x] = [req[x] EXCEPT !.step = "issue"])
        BY <2>7, <3>1 DEF SweepSessions
      <4>2. CASE req'[x] = Idle
        BY <4>2 DEF RequestMoves
      <4>3. CASE req[x].kind = "change" /\ req[x].step = "sessions" /\ req'[x] = [req[x] EXCEPT !.step = "issue"]
        <5>1. Continued(req[x], [req[x] EXCEPT !.step = "issue"])
          <6>1. req[x] \in RequestRecord /\ req[x].step # "update" /\ req[x].kind = "change"
            BY <1>0, <4>3, StepKinds
          <6> QED
            BY <6>1, SweptFields, Zenon
        <5> QED
          BY <4>3, <5>1, Zenon DEF RequestMoves
      <4> QED
        BY <4>1, <4>2, <4>3
    <3>2. CASE x # r /\ x \in Crossing(r)
      <4>1. req'[x] = [req[x] EXCEPT !.crossed = TRUE]
        BY <2>7, <3>2 DEF SweepSessions
      <4>2. req[x].step # "update"
        BY <1>0, <3>2, StepKinds DEF Crossing
      <4>3. Continued(req[x], [req[x] EXCEPT !.crossed = TRUE])
        <5>1. req[x] \in RequestRecord /\ req[x].step \in StepsOf(req[x].kind)
          BY <1>0, StepKinds
        <5> QED
          BY <4>2, <5>1, CrossedFields, Zenon
      <4> QED
        BY <4>1, <4>3, Zenon DEF RequestMoves
    <3>3. CASE x # r /\ x \notin Crossing(r)
      BY <2>7, <3>3 DEF SweepSessions, RequestMoves
    <3> QED
      BY <3>1, <3>2, <3>3
  <2> QED
    BY <1>8, <2>1, <2>2, <2>3, <2>4, <2>5, <2>6, <2>7 DEF AccountStep
<1>9. ASSUME NEW r \in Requests, RevokeStep(r) PROVE Goal
  <2>1. ASSUME NEW s \in Sessions, NEW t \in Tokens, LogoutToken(r, s, t) PROVE Goal
    <3> DEFINE u == sessions[s].user
               p == [Idle EXCEPT !.kind = "logout", !.step = "close", !.session = s, !.user = u]
    <3>1. req' = [req EXCEPT ![r] = p] /\ req[r] = Idle /\ u \in Users /\ epoch' = epoch
      BY <1>6, <2>1 DEF LogoutToken, Admitted, Open
    <3>2. p.kind = "logout" /\ p.step = "close" /\ p.user = u /\ p.epoch = 0 /\ ~p.late
      BY LogoutFields, Zenon
    <3> HIDE DEF p, u
    <3>3. OtherBegun(r, p)
      BY <1>5, <3>1, <3>2 DEF OtherBegun, StepsOf
    <3>4. req'[x] = req[x] \/ (x = r /\ req'[x] = p)
      BY <3>1, <1>2
    <3> QED
      BY <3>3, <3>4, Zenon DEF RequestMoves
  <2>2. ASSUME LogoutSession(r) PROVE Goal
    BY <1>3, <2>2 DEF LogoutSession
  <2>3. ASSUME NEW s \in Sessions, AdminRevokeStart(r, s) PROVE Goal
    <3> DEFINE u == sessions[s].user
               ts == LiveTokens(s)
               p == [Idle EXCEPT !.kind = "admin", !.step = "revoke", !.session = s, !.user = u, !.snap = ts]
    <3>1. req' = [req EXCEPT ![r] = p] /\ req[r] = Idle /\ u \in Users /\ epoch' = epoch
      BY <1>6, <2>3 DEF AdminRevokeStart
    <3>2. p.kind = "admin" /\ p.step = "revoke" /\ p.user = u /\ p.epoch = 0 /\ ~p.late
      BY AdminFields, Zenon
    <3> HIDE DEF p, u
    <3>3. OtherBegun(r, p)
      BY <1>5, <3>1, <3>2 DEF OtherBegun, StepsOf
    <3>4. req'[x] = req[x] \/ (x = r /\ req'[x] = p)
      BY <3>1, <1>2
    <3> QED
      BY <3>3, <3>4, Zenon DEF RequestMoves
  <2>4. ASSUME AdminRevokeCommit(r) PROVE Goal
    BY <1>3, <2>4 DEF AdminRevokeCommit
  <2>5. ASSUME NEW u \in Users, DeleteAgentCount(r, u) PROVE Goal
    <3> DEFINE p == [Idle EXCEPT !.kind = "remove", !.step = "counted", !.user = u]
    <3>1. req' = [req EXCEPT ![r] = p] /\ req[r] = Idle /\ epoch' = epoch
      BY <2>5 DEF DeleteAgentCount
    <3>2. p.kind = "remove" /\ p.step = "counted" /\ p.user = u /\ p.epoch = 0 /\ ~p.late
      BY RemoveFields, Zenon
    <3> HIDE DEF p
    <3>3. OtherBegun(r, p)
      BY <1>5, <3>1, <3>2 DEF OtherBegun, StepsOf
    <3>4. req'[x] = req[x] \/ (x = r /\ req'[x] = p)
      BY <3>1, <1>2
    <3> QED
      BY <3>3, <3>4, Zenon DEF RequestMoves
  <2>6. ASSUME DeleteAgentRows(r) PROVE Goal
    BY <1>3, <2>6 DEF DeleteAgentRows
  <2> QED
    BY <1>9, <2>1, <2>2, <2>3, <2>4, <2>5, <2>6 DEF RevokeStep
<1>10. ASSUME NEW r \in Requests, Abandon(r) PROVE Goal
  BY <1>3, <1>10 DEF Abandon
<1>11. ASSUME NEW t \in Tokens, NEW new \in Tokens, NEW lookup \in Lookups, Refresh(t, new, lookup) PROVE Goal
  BY <1>1, <1>11 DEF Refresh
<1>12. ASSUME NEW t \in Tokens, TokenExpires(t) PROVE Goal
  BY <1>1, <1>12 DEF TokenExpires
<1>13. ASSUME NEW s \in Sessions, Retain(s) PROVE Goal
  BY <1>1, <1>13 DEF Retain
<1>14. ASSUME NEW u \in Users, Enable(u) \/ DeleteUser(u) \/ AgentExpires(u) PROVE Goal
  BY <1>1, <1>14 DEF Enable, DeleteUser, AgentExpires
<1>15. ASSUME UNCHANGED sessionVars PROVE Goal
  BY <1>1, <1>15 DEF sessionVars
<1> HIDE DEF Goal
<1>16. Goal
  BY <1>7, <1>8, <1>9, <1>10, <1>11, <1>12, <1>13, <1>14, <1>15 DEF SessionNext
<1> QED
  BY <1>16 DEF Goal
\* At most one request starts in a step.
LEMMA OneStarts ==
    ASSUME SessionTypeOK, [SessionNext]_sessionVars, NEW x \in Requests, NEW y \in Requests,
           req[x] = Idle, req'[x] # Idle, req[y] = Idle, req'[y] # Idle
    PROVE  x = y
<1>1. ASSUME NEW r \in Requests, NEW q, req' = [req EXCEPT ![r] = q] PROVE x = y
  BY <1>1 DEF SessionTypeOK
<1>2. UNCHANGED req => x = y
  OBVIOUS
<1>3. ASSUME NEW r \in Requests, LoginStep(r) PROVE x = y
  <2>1. ASSUME NEW u \in Users, NEW s \in Sessions, LoginRead(r, u, s) PROVE x = y
    BY <1>1, <2>1 DEF LoginRead
  <2>2. ASSUME NEW lookup \in Lookups, IssueCheck(r, lookup) PROVE x = y
    <3>1. \E q : req' = [req EXCEPT ![r] = q]
      BY <2>2, Zenon DEF IssueCheck, Ended
    <3> QED
      BY <1>1, <3>1
  <2>3. ASSUME NEW t \in Tokens, IssueInsert(r, t) PROVE x = y
    BY <1>1, <2>3 DEF IssueInsert, Ended
  <2> QED
    BY <1>3, <2>1, <2>2, <2>3 DEF LoginStep
<1>4. ASSUME NEW r \in Requests, AccountStep(r) PROVE x = y
  <2>1. ASSUME NEW s \in Sessions, NEW next \in Sessions, ChangeBegin(r, s, next) PROVE x = y
    BY <1>1, <2>1 DEF ChangeBegin
  <2>2. ASSUME ChangeUpdate(r) PROVE x = y
    BY <1>1, <2>2 DEF ChangeUpdate
  <2>3. ASSUME NEW u \in Users, NEW must \in BOOLEAN, Reset(r, u, must) PROVE x = y
    BY <1>1, <2>3 DEF Reset
  <2>4. ASSUME NEW u \in Users, Disable(r, u) PROVE x = y
    BY <1>1, <2>4 DEF Disable
  <2>5. ASSUME SweepStart(r) PROVE x = y
    <3>1. \E q : req' = [req EXCEPT ![r] = q]
      BY <2>5, Zenon DEF SweepStart
    <3> QED
      BY <1>1, <3>1
  <2>6. ASSUME SweepTokens(r) PROVE x = y
    BY <1>1, <2>6 DEF SweepTokens
  <2>7. ASSUME SweepSessions(r) PROVE x = y
    <3>1. \A z \in Requests \ {r} : z \notin Crossing(r) => req'[z] = req[z]
      BY <2>7 DEF SweepSessions
    <3>2. x \notin Crossing(r) /\ y \notin Crossing(r)
      <4>1. Idle.kind = "none"
        BY DEF Idle
      <4> QED
        BY <4>1 DEF Crossing
    <3> QED
      BY <3>1, <3>2
  <2> QED
    BY <1>4, <2>1, <2>2, <2>3, <2>4, <2>5, <2>6, <2>7 DEF AccountStep
<1>5. ASSUME NEW r \in Requests, RevokeStep(r) PROVE x = y
  <2>1. ASSUME NEW s \in Sessions, NEW t \in Tokens, LogoutToken(r, s, t) PROVE x = y
    BY <1>1, <2>1 DEF LogoutToken
  <2>2. ASSUME LogoutSession(r) PROVE x = y
    BY <1>1, <2>2 DEF LogoutSession, Ended
  <2>3. ASSUME NEW s \in Sessions, AdminRevokeStart(r, s) PROVE x = y
    BY <1>1, <2>3 DEF AdminRevokeStart
  <2>4. ASSUME AdminRevokeCommit(r) PROVE x = y
    BY <1>1, <2>4 DEF AdminRevokeCommit, Ended
  <2>5. ASSUME NEW u \in Users, DeleteAgentCount(r, u) PROVE x = y
    BY <1>1, <2>5 DEF DeleteAgentCount
  <2>6. ASSUME DeleteAgentRows(r) PROVE x = y
    BY <1>1, <2>6 DEF DeleteAgentRows, Ended
  <2> QED
    BY <1>5, <2>1, <2>2, <2>3, <2>4, <2>5, <2>6 DEF RevokeStep
<1>6. ASSUME NEW r \in Requests, Abandon(r) PROVE x = y
  BY <1>1, <1>6 DEF Abandon, Ended
<1>7. ASSUME NEW t \in Tokens, NEW new \in Tokens, NEW lookup \in Lookups, Refresh(t, new, lookup) PROVE x = y
  BY <1>2, <1>7 DEF Refresh
<1>8. ASSUME NEW t \in Tokens, TokenExpires(t) PROVE x = y
  BY <1>2, <1>8 DEF TokenExpires
<1>9. ASSUME NEW s \in Sessions, Retain(s) PROVE x = y
  BY <1>2, <1>9 DEF Retain
<1>10. ASSUME NEW u \in Users, Enable(u) \/ DeleteUser(u) \/ AgentExpires(u) PROVE x = y
  BY <1>2, <1>10 DEF Enable, DeleteUser, AgentExpires
<1>11. ASSUME UNCHANGED sessionVars PROVE x = y
  BY <1>2, <1>11 DEF sessionVars
<1> QED
  BY <1>3, <1>4, <1>5, <1>6, <1>7, <1>8, <1>9, <1>10, <1>11 DEF SessionNext

\* An id that is not in use stays so until the request that holds it inserts it.
LEMMA StaysUnused ==
    ASSUME SessionInductive, [SessionNext]_sessionVars, NEW s \in Sessions, sessions[s] = NoSession
    PROVE  \/ sessions'[s] = NoSession
           \/ \E r \in Requests : Issues(r) /\ req[r].session = s /\ req'[r] = Idle
<1>0. SessionTypeOK /\ RequestsWellFormed /\ RowsOwned /\ TokensOwned /\ ExpiredAgentsRefused
  BY DEF SessionInductive
<1>1. sessions[s].state = "none"
  BY DEF NoSession
<1>2. ASSUME ClosesRows PROVE sessions'[s] = NoSession
  BY <1>1, <1>2, Zenon DEF ClosesRows
<1>3. ASSUME NEW r \in Requests, NEW t \in Tokens, IssueInsert(r, t)
      PROVE  sessions'[s] = NoSession \/ (Issues(r) /\ req[r].session = s /\ req'[r] = Idle)
  <2>1. Issues(r) /\ \A z \in Sessions \ {req[r].session} : sessions'[z] = sessions[z]
    BY <1>0, <1>3, InsertEffect
  <2>2. req'[r] = Idle
    BY <1>0, <1>3 DEF IssueInsert, Ended, SessionTypeOK
  <2>3. CASE s # req[r].session
    BY <2>1, <2>3
  <2>4. CASE s = req[r].session
    BY <2>1, <2>2, <2>4
  <2> QED
    BY <2>3, <2>4
<1>4. ASSUME NEW t \in Tokens, NEW new \in Tokens, NEW lookup \in Lookups, Refresh(t, new, lookup)
      PROVE  sessions'[s] = NoSession
  <2>1. /\ sessions[tokens[t].session].state = "open"
        /\ \A z \in Sessions \ {tokens[t].session} : sessions'[z] = sessions[z]
    BY <1>0, <1>4, RefreshEffect
  <2>2. tokens[t].session # s
    BY <1>1, <2>1
  <2> QED
    BY <2>1, <2>2, Zenon
<1>5. \/ ClosesRows /\ KillsTokens
      \/ \E r \in Requests, t \in Tokens : IssueInsert(r, t)
      \/ \E t, new \in Tokens, lookup \in Lookups : Refresh(t, new, lookup)
  BY <1>0, QuietSteps
<1> QED
  BY <1>2, <1>3, <1>4, <1>5, Zenon
\* What a step does to the accounts: a password that is asked for or given starts
\* an epoch, an account that goes takes its sessions with it, and only the last
\* step of a sign-out records its end.
AccountMoves ==
    /\ expired \subseteq expired'
    /\ \A u \in Users : \/ epoch'[u] = epoch[u] /\ (users'[u].must <=> users[u].must)
                        \/ epoch'[u] = epoch[u] + 1
    /\ \A u \in Users : users'[u].status = "gone" => users[u].status = "gone" \/ sessions' = Cascaded(u)
    /\ UNCHANGED cleared \/ \E r \in Requests : SweepSessions(r)

LEMMA AccountsMove ==
    ASSUME SessionTypeOK, RequestsWellFormed, [SessionNext]_sessionVars
    PROVE  AccountMoves
<1>1. ASSUME UNCHANGED <<users, epoch, expired>>, UNCHANGED cleared \/ \E r \in Requests : SweepSessions(r)
      PROVE  AccountMoves
  BY <1>1 DEF AccountMoves
<1>2. ASSUME NEW u \in Users, NewEpoch(u) PROVE epoch'[u] = epoch[u] + 1 /\ \A v \in Users \ {u} : epoch'[v] = epoch[v]
  BY <1>2 DEF NewEpoch, SessionTypeOK
<1>3. ASSUME NEW u \in Users, NewEpoch(u), UNCHANGED <<expired, cleared>>,
             \A v \in Users \ {u} : users'[v] = users[v], users'[u].status # "gone" \/ users[u].status = "gone"
      PROVE  AccountMoves
  BY <1>2, <1>3 DEF AccountMoves
<1>4. ASSUME NEW u \in Users, UNCHANGED <<epoch, expired, cleared>>,
             \A v \in Users \ {u} : users'[v] = users[v], users'[u].must <=> users[u].must,
             users'[u].status # "gone" \/ sessions' = Cascaded(u)
      PROVE  AccountMoves
  BY <1>4 DEF AccountMoves
<1>5. ASSUME NEW r \in Requests, LoginStep(r) PROVE AccountMoves
  <2>1. ASSUME NEW u \in Users, NEW s \in Sessions, LoginRead(r, u, s) PROVE AccountMoves
    BY <1>1, <2>1 DEF LoginRead
  <2>2. ASSUME NEW lookup \in Lookups, IssueCheck(r, lookup) PROVE AccountMoves
    BY <1>1, <2>2 DEF IssueCheck
  <2>3. ASSUME NEW t \in Tokens, IssueInsert(r, t) PROVE AccountMoves
    BY <1>1, <2>3 DEF IssueInsert
  <2> QED
    BY <1>5, <2>1, <2>2, <2>3 DEF LoginStep
<1>6. ASSUME NEW r \in Requests, AccountStep(r) PROVE AccountMoves
  <2>1. ASSUME NEW s \in Sessions, NEW next \in Sessions, ChangeBegin(r, s, next) PROVE AccountMoves
    BY <1>1, <2>1 DEF ChangeBegin
  <2>2. ASSUME ChangeUpdate(r) PROVE AccountMoves
    <3>1. req[r].user \in Users
      BY <2>2, StepKinds DEF ChangeUpdate
    <3>2. /\ \A v \in Users \ {req[r].user} : users'[v] = users[v]
          /\ users'[req[r].user].status = users[req[r].user].status
      BY <2>2, <3>1 DEF ChangeUpdate, SessionTypeOK
    <3> QED
      BY <1>3, <2>2, <3>1, <3>2 DEF ChangeUpdate
  <2>3. ASSUME NEW u \in Users, NEW must \in BOOLEAN, Reset(r, u, must) PROVE AccountMoves
    <3>1. (\A v \in Users \ {u} : users'[v] = users[v]) /\ users'[u].status = users[u].status
      BY <2>3 DEF Reset, SessionTypeOK
    <3> QED
      BY <1>3, <2>3, <3>1 DEF Reset
  <2>4. ASSUME NEW u \in Users, Disable(r, u) PROVE AccountMoves
    <3>1. (\A v \in Users \ {u} : users'[v] = users[v]) /\ users'[u].status = "disabled"
      BY <2>4 DEF Disable, SessionTypeOK
    <3> QED
      BY <1>3, <2>4, <3>1 DEF Disable
  <2>5. ASSUME SweepStart(r) PROVE AccountMoves
    BY <1>1, <2>5 DEF SweepStart
  <2>6. ASSUME SweepTokens(r) PROVE AccountMoves
    BY <1>1, <2>6 DEF SweepTokens
  <2>7. ASSUME SweepSessions(r) PROVE AccountMoves
    <3>1. UNCHANGED <<users, epoch, expired>>
      BY <2>7 DEF SweepSessions
    <3> QED
      BY <1>1, <2>7, <3>1
  <2> QED
    BY <1>6, <2>1, <2>2, <2>3, <2>4, <2>5, <2>6, <2>7 DEF AccountStep
<1>7. ASSUME NEW r \in Requests, RevokeStep(r) PROVE AccountMoves
  <2>1. ASSUME NEW s \in Sessions, NEW t \in Tokens, LogoutToken(r, s, t) PROVE AccountMoves
    BY <1>1, <2>1 DEF LogoutToken
  <2>2. ASSUME LogoutSession(r) PROVE AccountMoves
    BY <1>1, <2>2 DEF LogoutSession
  <2>3. ASSUME NEW s \in Sessions, AdminRevokeStart(r, s) PROVE AccountMoves
    BY <1>1, <2>3 DEF AdminRevokeStart
  <2>4. ASSUME AdminRevokeCommit(r) PROVE AccountMoves
    BY <1>1, <2>4 DEF AdminRevokeCommit
  <2>5. ASSUME NEW u \in Users, DeleteAgentCount(r, u) PROVE AccountMoves
    BY <1>1, <2>5 DEF DeleteAgentCount
  <2>6. ASSUME DeleteAgentRows(r) PROVE AccountMoves
    <3>1. req[r].user \in Users
      BY <2>6, StepKinds DEF DeleteAgentRows
    <3>2. /\ \A v \in Users \ {req[r].user} : users'[v] = users[v]
          /\ users'[req[r].user].must <=> users[req[r].user].must
      BY <2>6, <3>1 DEF DeleteAgentRows, SessionTypeOK
    <3> QED
      BY <1>4, <2>6, <3>1, <3>2 DEF DeleteAgentRows
  <2> QED
    BY <1>7, <2>1, <2>2, <2>3, <2>4, <2>5, <2>6 DEF RevokeStep
<1>8. ASSUME NEW r \in Requests, Abandon(r) PROVE AccountMoves
  BY <1>1, <1>8 DEF Abandon
<1>9. ASSUME NEW t \in Tokens, NEW new \in Tokens, NEW lookup \in Lookups, Refresh(t, new, lookup) PROVE AccountMoves
  BY <1>1, <1>9 DEF Refresh
<1>10. ASSUME NEW t \in Tokens, TokenExpires(t) PROVE AccountMoves
  BY <1>1, <1>10 DEF TokenExpires
<1>11. ASSUME NEW s \in Sessions, Retain(s) PROVE AccountMoves
  BY <1>1, <1>11 DEF Retain
<1>12. ASSUME NEW u \in Users, Enable(u) PROVE AccountMoves
  <2>1. (\A v \in Users \ {u} : users'[v] = users[v]) /\ users'[u].status = "active" /\ (users'[u].must <=> users[u].must)
    BY <1>12 DEF Enable, SessionTypeOK
  <2> QED
    BY <1>4, <1>12, <2>1 DEF Enable
<1>13. ASSUME NEW u \in Users, DeleteUser(u) PROVE AccountMoves
  <2>1. (\A v \in Users \ {u} : users'[v] = users[v]) /\ (users'[u].must <=> users[u].must)
    BY <1>13 DEF DeleteUser, SessionTypeOK
  <2> QED
    BY <1>4, <1>13, <2>1 DEF DeleteUser
<1>14. ASSUME NEW u \in Users, AgentExpires(u) PROVE AccountMoves
  BY <1>14 DEF AgentExpires, AccountMoves
<1>15. ASSUME UNCHANGED sessionVars PROVE AccountMoves
  BY <1>1, <1>15 DEF sessionVars
<1> QED
  BY <1>5, <1>6, <1>7, <1>8, <1>9, <1>10, <1>11, <1>12, <1>13, <1>14, <1>15 DEF SessionNext

\* Requests keep their shape, their ids, and the refusal of late ones.
LEMMA RequestStep ==
    ASSUME SessionInductive, [SessionNext]_sessionVars
    PROVE  RequestsWellFormed' /\ Promised' /\ LateRefused'
<1>0. SessionTypeOK /\ RequestsWellFormed /\ Promised /\ LateRefused
  BY DEF SessionInductive
<1>1. Idle.kind = "none" /\ Idle.step = "idle" /\ ~Idle.late
  BY DEF Idle
<1>2. \A x \in Requests : RequestMoves(x)
  BY RequestsMove
<1>3. expired \subseteq expired'
  BY <1>0, AccountsMove DEF AccountMoves
<1>4. ASSUME NEW x \in Requests PROVE WellFormed(req'[x])
  <2>1. CASE req'[x] = req[x]
    BY <1>0, <2>1, Zenon DEF RequestsWellFormed
  <2>2. CASE req'[x] = Idle
    BY <1>1, <2>2 DEF WellFormed, StepsOf
  <2>3. CASE Continued(req[x], req'[x])
    BY <1>0, <2>3 DEF Continued, WellFormed, RequestsWellFormed
  <2>4. CASE LoginBegun(x, req'[x])
    BY <2>4 DEF LoginBegun, WellFormed, StepsOf
  <2>5. CASE ChangeBegun(x, req'[x])
    BY <2>5 DEF ChangeBegun, WellFormed, StepsOf
  <2>6. CASE ChangeWritten(req[x], req'[x])
    BY <1>0, <2>6 DEF ChangeWritten, WellFormed, StepsOf, RequestsWellFormed
  <2>7. CASE OtherBegun(x, req'[x])
    BY <2>7 DEF OtherBegun, WellFormed, StepsOf
  <2> QED
    BY <1>2, <2>1, <2>2, <2>3, <2>4, <2>5, <2>6, <2>7 DEF RequestMoves
<1>5. ASSUME NEW x \in Requests
      PROVE  (req'[x].late => req'[x].user \in expired') /\ (req'[x].step = "insert" => ~req'[x].late)
  <2>1. CASE req'[x] = req[x]
    BY <1>0, <1>3, <2>1 DEF LateRefused
  <2>2. CASE req'[x] = Idle
    BY <1>1, <2>2
  <2>3. CASE Continued(req[x], req'[x])
    BY <1>0, <1>3, <2>3 DEF Continued, LateRefused
  <2>4. CASE LoginBegun(x, req'[x])
    BY <1>3, <2>4 DEF LoginBegun
  <2>5. CASE ChangeBegun(x, req'[x])
    BY <2>5 DEF ChangeBegun
  <2>6. CASE ChangeWritten(req[x], req'[x])
    BY <1>3, <2>6 DEF ChangeWritten
  <2>7. CASE OtherBegun(x, req'[x])
    BY <2>7 DEF OtherBegun
  <2> QED
    BY <1>2, <2>1, <2>2, <2>3, <2>4, <2>5, <2>6, <2>7 DEF RequestMoves
<1> DEFINE Kept(x)  == Issues(x) /\ req'[x].session = req[x].session
           Fresh(x) == req[x] = Idle /\ FreshSession(req'[x].session) /\ req'[x] # Idle
           Issuing(x) == req'[x].kind \in {"login", "change"}
<1>6. ASSUME NEW x \in Requests, Issuing(x) PROVE Kept(x) \/ Fresh(x)
  <2>1. CASE req'[x] = req[x]
    BY <1>6, <2>1 DEF Issues
  <2>2. CASE req'[x] = Idle
    BY <1>1, <1>6, <2>2
  <2>3. CASE Continued(req[x], req'[x])
    BY <1>6, <2>3 DEF Continued, Issues
  <2>4. CASE LoginBegun(x, req'[x])
    BY <1>1, <2>4 DEF LoginBegun
  <2>5. CASE ChangeBegun(x, req'[x])
    BY <1>1, <2>5 DEF ChangeBegun
  <2>6. CASE ChangeWritten(req[x], req'[x])
    BY <2>6 DEF ChangeWritten, Issues
  <2>7. CASE OtherBegun(x, req'[x])
    BY <1>6, <2>7 DEF OtherBegun
  <2> QED
    BY <1>2, <2>1, <2>2, <2>3, <2>4, <2>5, <2>6, <2>7 DEF RequestMoves
<1>7. ASSUME NEW x \in Requests, Issuing(x) PROVE sessions'[req'[x].session] = NoSession
  <2> DEFINE s == req'[x].session
  <2>1. s \in Sessions
    BY <1>4, <1>7 DEF WellFormed
  <2>2. sessions[s] = NoSession
    BY <1>0, <1>6, <1>7 DEF Promised, FreshSession
  <2>3. ASSUME NEW r \in Requests, Issues(r), req[r].session = s, req'[r] = Idle PROVE FALSE
    <3>1. r # x
      BY <1>1, <1>7, <2>3
    <3> QED
      BY <1>0, <1>6, <1>7, <2>3, <3>1 DEF Promised, FreshSession
  <2> HIDE DEF s
  <2>4. sessions'[s] = NoSession
    BY <2>1, <2>2, <2>3, StaysUnused
  <2> QED
    BY <2>4 DEF s
<1>8. ASSUME NEW x \in Requests, NEW y \in Requests, x # y, Issuing(x), Issuing(y)
      PROVE  req'[y].session # req'[x].session
  <2>1. CASE Kept(x) /\ Kept(y)
    BY <1>0, <1>8, <2>1 DEF Promised
  <2>2. CASE Kept(x) /\ Fresh(y)
    BY <2>2 DEF FreshSession
  <2>3. CASE Fresh(x) /\ Kept(y)
    BY <2>3 DEF FreshSession
  <2>4. CASE Fresh(x) /\ Fresh(y)
    BY <1>0, <1>8, <2>4, OneStarts
  <2> QED
    BY <1>6, <1>8, <2>1, <2>2, <2>3, <2>4
<1>9. RequestsWellFormed'
  BY <1>4 DEF RequestsWellFormed, WellFormed
<1>10. LateRefused'
  BY <1>5 DEF LateRefused
<1>11. Promised'
  BY <1>7, <1>8 DEF Promised, Issues
<1> QED
  BY <1>9, <1>10, <1>11
-----------------------------------------------------------------------------
(* Epochs. *)

\* An open session is one that was open, one just inserted, or one just refreshed.
Inserted(s, r) ==
    /\ Issues(r) /\ req[r].step = "insert" /\ req[r].user \in Users /\ UserExists(req[r].user)
    /\ sessions'[s].user = req[r].user /\ sessions'[s].epoch = req[r].epoch
    /\ (sessions'[s].scoped <=> ~req[r].must) /\ (sessions'[s].crossed <=> req[r].crossed)
    /\ UNCHANGED <<users, epoch, cleared>>
Refreshed(s) ==
    /\ Open(s) /\ sessions[s].user \in Users
    /\ sessions'[s].user = sessions[s].user /\ sessions'[s].epoch = sessions[s].epoch
    /\ (sessions'[s].scoped <=> ~users[sessions[s].user].must) /\ (sessions'[s].crossed <=> sessions[s].crossed)
    /\ UNCHANGED <<users, epoch, cleared>>

LEMMA OpenRows ==
    ASSUME SessionInductive, [SessionNext]_sessionVars, NEW s \in Sessions, sessions'[s].state = "open"
    PROVE  \/ sessions'[s] = sessions[s] /\ Open(s) /\ sessions[s].user \in Users
           \/ \E r \in Requests : Inserted(s, r)
           \/ Refreshed(s)
<1> DEFINE Same == sessions'[s] = sessions[s] /\ Open(s) /\ sessions[s].user \in Users
<1>0. SessionTypeOK /\ RequestsWellFormed /\ RowsOwned /\ TokensOwned /\ ExpiredAgentsRefused
  BY DEF SessionInductive
<1>1. ASSUME sessions'[s] = sessions[s] PROVE Same
  <2>1. Open(s)
    BY <1>1 DEF Open
  <2>2. sessions[s].user \in Users
    BY <1>0, <2>1 DEF RowsOwned, NoSession, Open
  <2> QED
    BY <1>1, <2>1, <2>2
<1>2. ASSUME ClosesRows PROVE Same
  BY <1>1, <1>2 DEF ClosesRows
<1>3. ASSUME NEW r \in Requests, NEW t \in Tokens, IssueInsert(r, t) PROVE Same \/ Inserted(s, r)
  <2>1. CASE s # req[r].session
    BY <1>0, <1>1, <1>3, <2>1, InsertEffect
  <2>2. CASE s = req[r].session
    <3>1. UNCHANGED <<users, epoch, cleared>> /\ UserExists(req[r].user) /\ req[r].step = "insert"
      BY <1>3 DEF IssueInsert
    <3>2. /\ Issues(r) /\ req[r].user \in Users
          /\ sessions'[s].user = req[r].user /\ sessions'[s].epoch = req[r].epoch
          /\ (sessions'[s].scoped <=> ~req[r].must) /\ (sessions'[s].crossed <=> req[r].crossed)
      BY <1>0, <1>3, <2>2, InsertEffect
    <3> QED
      BY <3>1, <3>2 DEF Inserted
  <2> QED
    BY <2>1, <2>2
<1>4. ASSUME NEW t \in Tokens, NEW new \in Tokens, NEW lookup \in Lookups, Refresh(t, new, lookup) PROVE Same \/ Refreshed(s)
  <2>1. CASE s # tokens[t].session
    BY <1>0, <1>1, <1>4, <2>1, RefreshEffect
  <2>2. CASE s = tokens[t].session
    <3>1. UNCHANGED <<users, epoch, cleared>>
      BY <1>4 DEF Refresh
    <3>2. /\ sessions[s].state = "open" /\ sessions[s].user \in Users
          /\ sessions'[s].user = sessions[s].user /\ sessions'[s].epoch = sessions[s].epoch
          /\ (sessions'[s].scoped <=> ~users[sessions[s].user].must) /\ (sessions'[s].crossed <=> sessions[s].crossed)
      BY <1>0, <1>4, <2>2, RefreshEffect
    <3> QED
      BY <3>1, <3>2 DEF Refreshed, Open
  <2> QED
    BY <2>1, <2>2
<1>5. \/ ClosesRows /\ KillsTokens
      \/ \E r \in Requests, t \in Tokens : IssueInsert(r, t)
      \/ \E t, new \in Tokens, lookup \in Lookups : Refresh(t, new, lookup)
  BY <1>0, QuietSteps
<1> HIDE DEF Same
<1>6. Same \/ (\E r \in Requests : Inserted(s, r)) \/ Refreshed(s)
  BY <1>2, <1>3, <1>4, <1>5, Zenon
<1> QED
  BY <1>6 DEF Same

\* What an account carries is never ahead of it, and sessions follow the account.
LEMMA EpochStep ==
    ASSUME SessionInductive, [SessionNext]_sessionVars, SessionTypeOK'
    PROVE  EpochsPast' /\ ScopesFollowPassword' /\ DeletedSignedOut'
<1>0. SessionTypeOK /\ RequestsWellFormed /\ EpochsPast /\ RowsRemembered /\ ScopesFollowPassword /\ DeletedSignedOut
  BY DEF SessionInductive
<1>1. /\ \A u \in Users : \/ epoch'[u] = epoch[u] /\ (users'[u].must <=> users[u].must)
                          \/ epoch'[u] = epoch[u] + 1
      /\ \A u \in Users : users'[u].status = "gone" => users[u].status = "gone" \/ sessions' = Cascaded(u)
      /\ UNCHANGED cleared \/ \E r \in Requests : SweepSessions(r)
  BY <1>0, AccountsMove DEF AccountMoves
<1>2. /\ \A u \in Users : epoch[u] \in Nat /\ epoch'[u] \in Nat /\ cleared[u] \in Nat /\ cleared'[u] \in Nat
      /\ \A s \in Sessions : sessions[s].epoch \in Nat /\ sessions'[s].epoch \in Nat
      /\ \A r \in Requests : req[r].epoch \in Nat /\ req'[r].epoch \in Nat
  BY <1>0, SessionsAssumption DEF SessionTypeOK, SessionRecord, RequestRecord
<1>3. \A u \in Users : epoch[u] <= epoch'[u]
  BY <1>1, <1>2
<1>4. ASSUME NEW u \in Users PROVE cleared'[u] <= epoch'[u]
  <2>1. CASE UNCHANGED cleared
    BY <1>0, <1>2, <1>3, <2>1 DEF EpochsPast
  <2>2. ASSUME NEW r \in Requests, SweepSessions(r) PROVE cleared'[u] <= epoch'[u]
    <3>1. req[r].user \in Users /\ req[r].kind # "none"
      BY <1>0, <2>2, StepKinds DEF SweepSessions, StepsOf
    <3>2. cleared'[u] = cleared[u] \/ (u = req[r].user /\ cleared'[u] = req[r].epoch)
      BY <1>0, <2>2, <3>1 DEF SweepSessions, SessionTypeOK
    <3>3. cleared[u] <= epoch[u] /\ req[r].epoch <= epoch[req[r].user]
      BY <1>0, <3>1 DEF EpochsPast
    <3> QED
      BY <1>2, <1>3, <3>2, <3>3
  <2> QED
    BY <1>1, <2>1, <2>2
<1>5. ASSUME NEW x \in Requests, req'[x].kind # "none" PROVE req'[x].epoch <= epoch'[req'[x].user]
  <2>0. RequestMoves(x)
    BY RequestsMove
  <2>1. ASSUME req'[x].kind = req[x].kind, req'[x].user = req[x].user, req'[x].epoch = req[x].epoch
        PROVE  req'[x].epoch <= epoch'[req'[x].user]
    <3>1. req[x].user \in Users
      BY <1>0, <1>5, <2>1 DEF RequestsWellFormed, WellFormed
    <3>2. req[x].epoch <= epoch[req[x].user]
      BY <1>0, <1>5, <2>1 DEF EpochsPast
    <3> QED
      BY <1>2, <1>3, <2>1, <3>1, <3>2
  <2>2. CASE req'[x] = req[x]
    BY <2>1, <2>2
  <2>3. CASE req'[x] = Idle
    BY <1>5, <2>3 DEF Idle
  <2>4. CASE Continued(req[x], req'[x])
    BY <2>1, <2>4 DEF Continued
  <2>5. CASE LoginBegun(x, req'[x])
    BY <1>2, <2>5 DEF LoginBegun
  <2>6. CASE ChangeBegun(x, req'[x])
    BY <1>2, <2>6 DEF ChangeBegun
  <2>7. CASE ChangeWritten(req[x], req'[x])
    BY <1>2, <2>7 DEF ChangeWritten
  <2>8. CASE OtherBegun(x, req'[x])
    BY <2>8 DEF OtherBegun
  <2> QED
    BY <2>0, <2>2, <2>3, <2>4, <2>5, <2>6, <2>7, <2>8 DEF RequestMoves
<1> DEFINE Row(s) == LET u == sessions'[s].user
                     IN  /\ sessions'[s].epoch <= epoch'[u]
                         /\ sessions'[s].epoch = epoch'[u] => (sessions'[s].scoped <=> ~users'[u].must)
                         /\ users'[u].status # "gone"
<1>6. ASSUME NEW s \in Sessions, sessions'[s].state = "open" PROVE Row(s)
  <2>1. CASE sessions'[s] = sessions[s] /\ Open(s) /\ sessions[s].user \in Users
    <3> DEFINE u == sessions[s].user
    <3>1. /\ sessions[s].epoch <= epoch[u]
          /\ sessions[s].epoch = epoch[u] => (sessions[s].scoped <=> ~users[u].must)
          /\ users[u].status # "gone"
      BY <1>0, <2>1 DEF EpochsPast, ScopesFollowPassword, DeletedSignedOut, UserExists
    <3>2. (epoch'[u] = epoch[u] /\ (users'[u].must <=> users[u].must)) \/ epoch'[u] = epoch[u] + 1
      BY <1>1, <2>1
    <3>3. sessions' # Cascaded(u)
      <4>1. Cascaded(u)[s] = Closed(s, "gone")
        BY DEF Cascaded, SessionsOf
      <4>2. Closed(s, "gone").state = "gone"
        BY <1>0, ClosedTyped
      <4> QED
        BY <1>6, <4>1, <4>2
    <3>4. users'[u].status # "gone"
      BY <1>1, <2>1, <3>1, <3>3
    <3>5. epoch[u] \in Nat /\ sessions[s].epoch \in Nat
      BY <1>2, <2>1
    <3>6. CASE epoch'[u] = epoch[u] /\ (users'[u].must <=> users[u].must)
      BY <2>1, <3>1, <3>4, <3>6
    <3>7. CASE epoch'[u] = epoch[u] + 1
      BY <2>1, <3>1, <3>4, <3>5, <3>7
    <3> QED
      BY <3>2, <3>6, <3>7
  <2>2. ASSUME NEW r \in Requests, Inserted(s, r) PROVE Row(s)
    <3>1. req[r].epoch <= epoch[req[r].user] /\ Holds(r)
      BY <1>0, <2>2 DEF EpochsPast, Inserted, Holds, Issues
    <3>2. req[r].epoch = epoch[req[r].user] => (req[r].must <=> users[req[r].user].must)
      BY <1>0, <3>1 DEF RowsRemembered
    <3> QED
      BY <2>2, <3>1, <3>2 DEF Inserted, UserExists
  <2>3. CASE Refreshed(s)
    <3>1. sessions[s].epoch <= epoch[sessions[s].user] /\ users[sessions[s].user].status # "gone"
      BY <1>0, <2>3 DEF EpochsPast, DeletedSignedOut, UserExists, Refreshed
    <3> QED
      BY <2>3, <3>1 DEF Refreshed
  <2> HIDE DEF Row
  <2> QED
    BY <1>6, <2>1, <2>2, <2>3, OpenRows
<1>7. EpochsPast'
  BY <1>4, <1>5, <1>6 DEF EpochsPast, Open
<1>8. ScopesFollowPassword'
  BY <1>6 DEF ScopesFollowPassword, Open
<1>9. DeletedSignedOut'
  BY <1>6 DEF DeletedSignedOut, Open, UserExists
<1> QED
  BY <1>7, <1>8, <1>9
\* No sign-out overtakes a request or a session that it did not see.
LEMMA ClearedStep ==
    ASSUME SessionInductive, [SessionNext]_sessionVars, SessionTypeOK'
    PROVE  RowsRemembered' /\ SignedOut'
<1>0. SessionTypeOK /\ RequestsWellFormed /\ EpochsPast /\ RowsRemembered /\ SignedOut
  BY DEF SessionInductive
<1>1. /\ \A u \in Users : \/ epoch'[u] = epoch[u] /\ (users'[u].must <=> users[u].must)
                          \/ epoch'[u] = epoch[u] + 1
      /\ UNCHANGED cleared \/ \E r \in Requests : SweepSessions(r)
  BY <1>0, AccountsMove DEF AccountMoves
<1>2. /\ \A u \in Users : epoch[u] \in Nat /\ epoch'[u] \in Nat /\ cleared[u] \in Nat /\ cleared'[u] \in Nat
      /\ \A s \in Sessions : sessions[s].epoch \in Nat /\ sessions'[s].epoch \in Nat
      /\ \A r \in Requests : req[r].epoch \in Nat /\ req'[r].epoch \in Nat
  BY <1>0, SessionsAssumption DEF SessionTypeOK, SessionRecord, RequestRecord
<1>3. ASSUME NEW r \in Requests, SweepSessions(r)
      PROVE  /\ req[r].user \in Users
             /\ \A u \in Users \ {req[r].user} : cleared'[u] = cleared[u]
             /\ cleared'[req[r].user] = cleared[req[r].user] \/ cleared'[req[r].user] = req[r].epoch
  <2>1. req[r].user \in Users
    BY <1>0, <1>3, StepKinds DEF SweepSessions
  <2> QED
    BY <1>0, <1>3, <2>1 DEF SweepSessions, SessionTypeOK
<1> DEFINE HoldsNext(x) == req'[x].kind = "login" \/ (req'[x].kind = "change" /\ req'[x].step # "update")
           NotPassed(x) == ~req'[x].crossed => req'[x].epoch >= cleared'[req'[x].user]
           Known(x) == req'[x].epoch = epoch'[req'[x].user] => (req'[x].must <=> users'[req'[x].user].must)
<1>4. ASSUME NEW x \in Requests, Holds(x), req'[x].user = req[x].user, req'[x].epoch = req[x].epoch,
             req'[x].must <=> req[x].must, req[x].crossed => req'[x].crossed
      PROVE  NotPassed(x) /\ Known(x)
  <2> DEFINE u == req[x].user
  <2>1. u \in Users /\ req[x].epoch <= epoch[u]
    BY <1>0, <1>4 DEF RequestsWellFormed, WellFormed, Holds, EpochsPast
  <2>2. /\ ~req[x].crossed => req[x].epoch >= cleared[u]
        /\ req[x].epoch = epoch[u] => (req[x].must <=> users[u].must)
    BY <1>0, <1>4 DEF RowsRemembered
  <2>3. Known(x)
    <3>1. CASE epoch'[u] = epoch[u] /\ (users'[u].must <=> users[u].must)
      BY <1>4, <2>2, <3>1
    <3>2. CASE epoch'[u] = epoch[u] + 1
      BY <1>2, <1>4, <2>1, <3>2
    <3> QED
      BY <1>1, <2>1, <3>1, <3>2
  <2>4. NotPassed(x)
    <3>1. CASE UNCHANGED cleared
      BY <1>4, <2>2, <3>1
    <3>2. ASSUME NEW r \in Requests, SweepSessions(r) PROVE NotPassed(x)
      <4>1. CASE u # req[r].user \/ cleared'[u] = cleared[u]
        BY <1>3, <1>4, <2>1, <2>2, <3>2, <4>1
      <4>2. CASE u = req[r].user /\ cleared'[u] = req[r].epoch
        <5>1. CASE x = r
          BY <1>2, <1>4, <4>2, <5>1
        <5>2. CASE x # r /\ x \in Crossing(r)
          <6>1. req'[x].crossed
            <7>1. req'[x] = [req[x] EXCEPT !.crossed = TRUE]
              BY <3>2, <5>2 DEF SweepSessions
            <7>2. req[x] \in RequestRecord
              BY <1>0 DEF SessionTypeOK
            <7> QED
              BY <7>1, <7>2 DEF RequestRecord
          <6> QED
            BY <6>1
        <5>3. CASE x # r /\ x \notin Crossing(r)
          <6>1. ~(req[x].epoch < req[r].epoch)
            BY <1>4, <4>2, <5>3 DEF Crossing, Holds
          <6>2. req[x].epoch >= req[r].epoch
            BY <1>2, <6>1
          <6> QED
            BY <1>4, <4>2, <6>2
        <5> QED
          BY <5>1, <5>2, <5>3
      <4> QED
        BY <1>3, <3>2, <4>1, <4>2
    <3> QED
      BY <1>1, <3>1, <3>2
  <2> QED
    BY <2>3, <2>4
<1>5. ASSUME NEW x \in Requests, HoldsNext(x) PROVE NotPassed(x) /\ Known(x)
  <2>0. RequestMoves(x)
    BY RequestsMove
  <2>1. CASE req'[x] = req[x]
    <3>1. Holds(x)
      BY <1>5, <2>1 DEF Holds
    <3> HIDE DEF NotPassed, Known
    <3> QED
      BY <1>4, <2>1, <3>1
  <2>2. CASE req'[x] = Idle
    BY <1>5, <2>2 DEF Idle
  <2>3. CASE Continued(req[x], req'[x])
    <3>1. /\ Holds(x) /\ req'[x].user = req[x].user /\ req'[x].epoch = req[x].epoch
          /\ (req'[x].must <=> req[x].must) /\ (req[x].crossed => req'[x].crossed)
      BY <1>5, <2>3 DEF Holds, Continued
    <3> HIDE DEF NotPassed, Known
    <3> QED
      BY <1>4, <3>1
  <2>4. CASE LoginBegun(x, req'[x])
    <3>1. cleared[req'[x].user] <= epoch[req'[x].user] /\ req'[x].user \in Users
      BY <1>0, <2>4 DEF LoginBegun, EpochsPast
    <3> QED
      BY <1>2, <2>4, <3>1 DEF LoginBegun
  <2>5. CASE ChangeBegun(x, req'[x])
    BY <1>5, <2>5 DEF ChangeBegun
  <2>6. CASE ChangeWritten(req[x], req'[x])
    <3>1. cleared[req'[x].user] <= epoch[req'[x].user] /\ req'[x].user \in Users
      BY <1>0, <2>6 DEF ChangeWritten, EpochsPast
    <3> QED
      BY <1>2, <2>6, <3>1 DEF ChangeWritten
  <2>7. CASE OtherBegun(x, req'[x])
    BY <1>5, <2>7 DEF OtherBegun
  <2> QED
    BY <2>0, <2>1, <2>2, <2>3, <2>4, <2>5, <2>6, <2>7 DEF RequestMoves
<1>6. ASSUME NEW s \in Sessions, sessions'[s].state = "open", ~sessions'[s].crossed
      PROVE  sessions'[s].epoch >= cleared'[sessions'[s].user]
  <2>1. CASE sessions'[s] = sessions[s] /\ Open(s) /\ sessions[s].user \in Users
    <3>1. sessions[s].epoch >= cleared[sessions[s].user]
      BY <1>0, <1>6, <2>1 DEF SignedOut
    <3>2. ASSUME NEW r \in Requests, SweepSessions(r) PROVE sessions[s].user # req[r].user
      <4>1. SUFFICES ASSUME sessions[s].user = req[r].user PROVE FALSE
        OBVIOUS
      <4>2. sessions'[s] = Closed(s, "revoked")
        BY <2>1, <3>2, <4>1 DEF SweepSessions, Swept, SessionsOf
      <4>3. Closed(s, "revoked").state = "revoked"
        BY <1>0, ClosedTyped
      <4> QED
        BY <1>6, <4>2, <4>3
    <3>3. cleared'[sessions[s].user] = cleared[sessions[s].user]
      BY <1>1, <1>3, <2>1, <3>2
    <3> QED
      BY <2>1, <3>1, <3>3
  <2>2. ASSUME NEW r \in Requests, Inserted(s, r) PROVE sessions'[s].epoch >= cleared'[sessions'[s].user]
    <3>1. Holds(r) /\ ~req[r].crossed
      BY <1>6, <2>2 DEF Inserted, Holds, Issues
    <3>2. req[r].epoch >= cleared[req[r].user]
      BY <1>0, <3>1 DEF RowsRemembered
    <3> QED
      BY <2>2, <3>2 DEF Inserted
  <2>3. CASE Refreshed(s)
    <3>1. sessions[s].epoch >= cleared[sessions[s].user]
      BY <1>0, <1>6, <2>3 DEF SignedOut, Refreshed
    <3> QED
      BY <2>3, <3>1 DEF Refreshed
  <2> QED
    BY <1>6, <2>1, <2>2, <2>3, OpenRows
<1>7. RowsRemembered'
  BY <1>5 DEF RowsRemembered, Holds
<1>8. SignedOut'
  BY <1>6 DEF SignedOut, Open
<1> QED
  BY <1>7, <1>8
-----------------------------------------------------------------------------
(* Theorems. *)

LEMMA SessionsStart == SessionInit => SessionInductive
<1> SUFFICES ASSUME SessionInit PROVE SessionInductive
  OBVIOUS
<1>1. /\ Idle.kind = "none" /\ Idle.step = "idle" /\ ~Idle.late
      /\ NoSession.state = "none" /\ NoToken.state = "none"
  BY DEF Idle, NoSession, NoToken
<1>2. SessionTypeOK
  BY IdleTyped, SessionsAssumption DEF SessionInit, SessionTypeOK
<1>3. RequestsWellFormed /\ Promised /\ LateRefused /\ RowsRemembered
  BY <1>1 DEF SessionInit, RequestsWellFormed, WellFormed, StepsOf, Promised, Issues, LateRefused, RowsRemembered, Holds
<1>4. RowsOwned /\ TokensOwned /\ TokensSingle
  BY <1>1 DEF SessionInit, RowsOwned, TokensOwned, TokensSingle
<1>5. EpochsPast /\ SignedOut /\ ScopesFollowPassword /\ DeletedSignedOut /\ ExpiredAgentsRefused
  BY <1>1 DEF SessionInit, EpochsPast, SignedOut, ScopesFollowPassword, DeletedSignedOut, ExpiredAgentsRefused, Open
<1> QED
  BY <1>2, <1>3, <1>4, <1>5 DEF SessionInductive

\* Every step of every request keeps the inductive invariant, so it always holds:
\* requests, rows, tokens and epochs stay consistent however the statements of
\* logins, refreshes, password changes, sign-outs and deletions interleave.
THEOREM SessionsSafe == SessionSpec => []SessionInductive
<1>1. SessionInductive /\ [SessionNext]_sessionVars => SessionInductive'
  <2> SUFFICES ASSUME SessionInductive, [SessionNext]_sessionVars PROVE SessionInductive'
    OBVIOUS
  <2>1. SessionTypeOK'
    BY TypeStep DEF SessionInductive
  <2>2. RowsOwned' /\ TokensOwned' /\ TokensSingle' /\ ExpiredAgentsRefused'
    BY RowStep
  <2>3. RequestsWellFormed' /\ Promised' /\ LateRefused'
    BY RequestStep
  <2>4. EpochsPast' /\ ScopesFollowPassword' /\ DeletedSignedOut'
    BY <2>1, EpochStep
  <2>5. RowsRemembered' /\ SignedOut'
    BY <2>1, ClearedStep
  <2> QED
    BY <2>1, <2>2, <2>3, <2>4, <2>5 DEF SessionInductive
<1> QED
  BY <1>1, SessionsStart, PTL DEF SessionSpec

\* Sessions go with their account, carry the scopes that the password allows and
\* are refused to expired agents.
THEOREM SessionsCorrect == SessionSpec => []SessionInvariant
<1>1. SessionInductive => SessionInvariant
  BY DEF SessionInductive, SessionInvariant
<1> QED
  BY <1>1, SessionsSafe, PTL

\* After the sign-out of an epoch no session of an older account row is open, but
\* for logins that held the row while the sign-out ran.
THEOREM SignOutHolds == SessionSpec => []SignedOut
<1>1. SessionInductive => SignedOut
  BY DEF SessionInductive
<1> QED
  BY <1>1, SessionsSafe, PTL

\* RefreshUserSession rotates: a session never has two live refresh tokens.
THEOREM RefreshRotates == SessionSpec => []OneLiveToken
<1>1. SessionInductive => OneLiveToken
  <2> SUFFICES ASSUME SessionInductive, NEW s \in Sessions PROVE Cardinality(LiveTokens(s)) <= 1
    BY DEF OneLiveToken
  <2>1. CASE LiveTokens(s) = {}
    BY <2>1, FS_EmptySet
  <2>2. ASSUME NEW t \in LiveTokens(s) PROVE Cardinality(LiveTokens(s)) <= 1
    <3>1. LiveTokens(s) = {t}
      BY <2>2 DEF SessionInductive, TokensSingle, LiveTokens
    <3>2. Cardinality({t}) = 1
      BY FS_Singleton, Zenon
    <3> QED
      BY <3>1, <3>2
  <2> QED
    BY <2>1, <2>2
<1> QED
  BY <1>1, SessionsSafe, PTL

\* A revoked session is over for good: no step opens it again or gives it a token.
THEOREM RevocationIsFinal == SessionSpec => RevokedIsOver
<1>1. SessionInductive /\ [SessionNext]_sessionVars => [StaysOver]_sessionVars
  BY RowStep
<1>2. SessionSpec => [][StaysOver]_sessionVars
  BY <1>1, SessionsSafe, PTL DEF SessionSpec
<1> QED
  BY <1>2 DEF RevokedIsOver, StaysOver
=============================================================================
