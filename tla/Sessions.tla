------------------------------ MODULE Sessions ------------------------------
(***************************************************************************)
(* Refresh tokens and the sessions table: TokenService (Issue, Rotate,     *)
(* RevokeAll), SessionService (RevokeSession, RevokeOtherSessions), the    *)
(* statements of GormSessionRepository they run, and the handlers above.   *)
(*                                                                         *)
(* An element of Ids stands for one minted refresh token: its hash, its    *)
(* jti and the primary key of the row that stores it are all unique and    *)
(* in bijection.  A row's lineage is the pair of columns token_id and      *)
(* family_id; rows written before those columns existed (LegacyIds) have   *)
(* neither.                                                                *)
(*                                                                         *)
(* A request runs one database statement (or one transaction) per step, so *)
(* any other request may run between two of its statements.  PostgreSQL    *)
(* under READ COMMITTED chooses the candidate rows of a multi-row UPDATE   *)
(* when the statement starts and re-checks the WHERE clause on each of     *)
(* them once it holds the row's lock: a snapshot step and an apply step.   *)
(* When nothing happens between the two they amount to the one step of the *)
(* single-writer SQLite database the integration tests use.                *)
(***************************************************************************)
CONSTANTS
  Users,             \* user ids
  Ids,               \* refresh tokens / session rows (their number is the bound)
  LegacyIds,         \* tokens whose rows predate the lineage columns
  Reqs,              \* requests served at the same time
  RevokeAllReasons,  \* reasons callers of RevokeAll pass
  Nil,               \* SQL NULL and Go's nil and ""
  Failures           \* TRUE: statements may fail and requests may die

\* Revocation reasons on which Rotate reports a reuse ("none": no reason stored).
ReuseReasons == {"none", "rotated", "reuse_detected"}

ASSUME IdsAssumption == LegacyIds \subseteq Ids /\ Nil \notin Ids
ASSUME UsersAssumption == Nil \notin Users
ASSUME FailuresAssumption == Failures \in BOOLEAN
ASSUME ReasonAssumption == RevokeAllReasons \cap ReuseReasons = {}

VARIABLES
  sessions,  \* the sessions table, by token
  req        \* the requests being served

vars == <<sessions, req>>

-----------------------------------------------------------------------------
(* The sessions table.  "free": the token has not been minted yet;         *)
(* "active": revoked_at IS NULL; "deleted": the row is gone, its lineage   *)
(* kept as history that no statement reads.                                *)

Reasons ==
  ReuseReasons \cup RevokeAllReasons \cup {"user_session_revoked", "user_revoke_others"}

Session ==
  [state    : {"free", "active", "revoked", "deleted"},
   user     : Users \cup {Nil},
   tokenID  : Ids \cup {Nil},
   familyID : Ids \cup {Nil},
   parent   : Ids \cup {Nil},
   reason   : Reasons,
   reuse    : BOOLEAN,
   expired  : BOOLEAN]

FreeRow ==
  [state |-> "free", user |-> Nil, tokenID |-> Nil, familyID |-> Nil, parent |-> Nil,
   reason |-> "none", reuse |-> FALSE, expired |-> FALSE]

\* What is left of a row that CleanupExpired deleted.
Deleted(row) ==
  [FreeRow EXCEPT !.state = "deleted", !.expired = TRUE,
                  !.user = row.user, !.familyID = row.familyID, !.parent = row.parent]

\* Faulty: a rotation opens a family of its own.
NewRowOwnFamily(u, k, family, par) ==
  [FreeRow EXCEPT !.state = "active", !.user = u, !.tokenID = k,
                  !.familyID = k, !.parent = par]

\* The row TokenService hands to Create, for token k.
NewRow(u, k, family, par) ==
  [FreeRow EXCEPT !.state = "active", !.user = u, !.tokenID = k,
                  !.familyID = family, !.parent = par]

Free == {k \in Ids : sessions[k].state = "free"}

Live(s) == sessions[s].state = "active"

\* A legacy row is complete once both lineage columns are set.
LineageMissing(row) == row.tokenID = Nil \/ row.familyID = Nil

\* Faulty: RotateSession does not look at revoked_at.
RotatableRevoked(r) == sessions[r].state \in {"active", "revoked"} /\ ~sessions[r].expired

\* The WHERE clauses of the repository's statements.
Rotatable(r) == Live(r) /\ ~sessions[r].expired
FamilyRows(f) == {s \in Ids : Live(s) /\ sessions[s].familyID = f}
UserRows(u) == {s \in Ids : Live(s) /\ sessions[s].user = u}
OtherRows(u, keep) == UserRows(u) \ {keep}

Revoke(row, why) == [row EXCEPT !.state = "revoked", !.reason = why]

-----------------------------------------------------------------------------
(* Requests.  pc names the statement a request runs next; the other fields *)
(* are the local variables of its handler that outlive a statement.  A     *)
(* request that has been answered leaves no state behind, except that a    *)
(* successful multi-row revocation (pc "done", snap: the rows it revoked)  *)
(* stays on record until the slot serves another request.                                          *)

Request ==
  [op   : {"none", "refresh", "revoke_all", "revoke_one", "revoke_others"},
   pc   : {"idle", "backfill", "decide", "rotate", "mark", "update", "apply",
           "revoke_one", "done"},
   tok  : Ids \cup {Nil},       \* refresh token, or the session to revoke or keep
   user : Users \cup {Nil},
   tid  : Ids \cup {Nil},       \* Rotate's tokenID
   fam  : Ids \cup {Nil},       \* Rotate's familyID
   seen : {"none", "active", "revoked"},  \* whether the row read had revoked_at
   why  : Reasons,              \* the reason read, or the reason to write
   snap : SUBSET Ids]           \* candidate rows of a multi-row UPDATE

IdleReq ==
  [op |-> "none", pc |-> "idle", tok |-> Nil, user |-> Nil, tid |-> Nil, fam |-> Nil,
   seen |-> "none", why |-> "none", snap |-> {}]

Ready(p) == req[p].pc \in {"idle", "done"}
At(p, label) == req[p].pc = label

\* Request p begins as q; goes on at label; is answered (401, 404, 200 or 500).
Begin(p, q) == Ready(p) /\ req' = [req EXCEPT ![p] = q]
Goto(p, label) == req' = [req EXCEPT ![p].pc = label]
Finish(p) == req' = [req EXCEPT ![p] = IdleReq]

\* Legacy rows exist before this code runs, active or revoked without a reason.
Init ==
  /\ \E old \in [LegacyIds -> Users \X {"active", "revoked"}] :
       sessions = [k \in Ids |->
         IF k \in LegacyIds
           THEN [FreeRow EXCEPT !.user = old[k][1], !.state = old[k][2]]
           ELSE FreeRow]
  /\ req = [p \in Reqs |-> IdleReq]

-----------------------------------------------------------------------------
(* TokenService.Issue: a login or a verified registration opens a family   *)
(* whose id is the token's own jti.                                        *)
Issue(u) ==
  \E k \in Free :
    /\ sessions' = [sessions EXCEPT ![k] = NewRow(u, k, k, Nil)]
    /\ UNCHANGED req

-----------------------------------------------------------------------------
(* TokenService.Rotate (POST /auth/refresh).                               *)

\* ParseRefreshToken and FindByHash.  The JWT expires no later than its row; an
\* expired token or one without a row is answered 401 at once.
FindByHash(p, r) ==
  LET row == sessions[r] IN
  /\ row.state \in {"active", "revoked"} /\ ~row.expired
  /\ Begin(p, [IdleReq EXCEPT
       !.op = "refresh", !.tok = r, !.user = row.user,
       !.pc = IF LineageMissing(row) THEN "backfill" ELSE "decide",
       !.tid = row.tokenID, !.fam = row.familyID,
       !.seen = row.state, !.why = row.reason])
  /\ UNCHANGED sessions

\* UpdateTokenLineageByHash: the jti becomes both token_id and family_id.  (The family
\* "legacy-session" is for a token without jti, and every token that is signed has one.)
UpdateTokenLineageByHash(p) ==
  LET r == req[p].tok IN
  /\ At(p, "backfill")
  /\ sessions' = [sessions EXCEPT ![r] =
       IF @.state \in {"active", "revoked"} /\ LineageMissing(@)
         THEN [@ EXCEPT !.tokenID = r, !.familyID = r] ELSE @]
  /\ req' = [req EXCEPT ![p].tid = r, ![p].fam = r, ![p].pc = "decide"]

\* Faulty: the stored reason does not matter.
DecideAnyReason(p) ==
  LET q == req[p] IN
  /\ At(p, "decide")
  /\ UNCHANGED sessions
  /\ Goto(p, IF q.seen = "revoked" THEN "mark" ELSE "rotate")

\* The checks on the row that was read, with the clock of now, and the user fetch.
Decide(p) ==
  LET q == req[p]
      refused == q.tid # q.tok \/ sessions[q.tok].expired
  IN
  /\ At(p, "decide")
  /\ UNCHANGED sessions
  /\ \/ /\ refused \/ (q.seen = "revoked" /\ q.why \notin ReuseReasons)
        /\ Finish(p)
     \/ /\ ~refused /\ q.seen = "revoked" /\ q.why \in ReuseReasons
        /\ Goto(p, "mark")
     \/ /\ ~refused /\ q.seen = "active"
        /\ Goto(p, "rotate")

\* Faulty: the mark is written over the state.
MarkInStateColumn(p) ==
  /\ At(p, "mark")
  /\ sessions' = [sessions EXCEPT ![req[p].tok].state = "reuse_detected"]
  /\ Goto(p, "update")

\* MarkReuseDetectedByHash; Rotate ignores its error.
MarkReuseDetectedByHash(p) ==
  /\ At(p, "mark")
  /\ \/ sessions' = [sessions EXCEPT ![req[p].tok] =
          IF @.state = "deleted" THEN @
            ELSE [@ EXCEPT !.reuse = TRUE, !.reason = "reuse_detected"]]
     \/ Failures /\ UNCHANGED sessions
  /\ Goto(p, "update")

\* RotateSession: SELECT ... FOR UPDATE, revoke the old row, insert the new one, commit.
\* Refresh then reads the user again; if that fails the client never sees the new token.
RotateSession(p) ==
  LET q == req[p] IN
  /\ At(p, "rotate")
  /\ \/ /\ ~Rotatable(q.tok)
        /\ UNCHANGED sessions
        /\ Finish(p)
     \/ /\ Rotatable(q.tok)
        /\ \E k \in Free :
             sessions' = [sessions EXCEPT
               ![q.tok] = Revoke(@, "rotated"),
               ![k] = NewRow(q.user, k, q.fam, q.tid)]
        /\ Finish(p)

-----------------------------------------------------------------------------
(* RevokeAll: POST /auth/logout, a password reset, a password change.      *)
StartRevokeAll(p, u, why) ==
  /\ Begin(p, [IdleReq EXCEPT !.op = "revoke_all", !.pc = "update", !.user = u, !.why = why])
  /\ UNCHANGED sessions

(* SessionService.RevokeSession: read the row, then the guarded UPDATE.    *)
(* A row that is missing, another user's or already revoked ends it here.  *)
FindByIDForUser(p, u, r) ==
  /\ Live(r) /\ sessions[r].user = u
  /\ Begin(p, [IdleReq EXCEPT !.op = "revoke_one", !.pc = "revoke_one", !.user = u, !.tok = r])
  /\ UNCHANGED sessions

RevokeByIDForUser(p) ==
  LET q == req[p] IN
  /\ At(p, "revoke_one")
  /\ sessions' = [sessions EXCEPT ![q.tok] =
       IF @.state = "active" /\ @.user = q.user THEN Revoke(@, "user_session_revoked") ELSE @]
  /\ Finish(p)

(* RevokeOtherSessions.  ResolveCurrentSessionID looks the access token's  *)
(* jti up among the active rows, then the refresh cookie (or Nil).         *)
Current(u, jti, cookie) ==
  LET active(s) == Live(s) /\ ~sessions[s].expired /\ sessions[s].user = u IN
  IF active(jti) /\ sessions[jti].tokenID = jti THEN jti
  ELSE IF cookie # Nil /\ active(cookie) THEN cookie
  ELSE Nil

ResolveCurrentSessionID(p, u, jti, cookie) ==
  LET cur == Current(u, jti, cookie) IN
  /\ cur # Nil
  /\ Begin(p, [IdleReq EXCEPT !.op = "revoke_others", !.pc = "update",
                 !.user = u, !.tok = cur, !.why = "user_revoke_others"])
  /\ UNCHANGED sessions

-----------------------------------------------------------------------------
(* Multi-row UPDATE statements.                                            *)

\* Rows the statement of request q matches now.
Matching(q) ==
  CASE q.op = "refresh"       -> FamilyRows(q.fam)
    [] q.op = "revoke_all"    -> UserRows(q.user)
    [] q.op = "revoke_others" -> OtherRows(q.user, q.tok)
    [] OTHER                  -> {}

\* READ COMMITTED: the statement's snapshot is taken when it starts.
TakeSnapshot(p) ==
  /\ At(p, "update")
  /\ req' = [req EXCEPT ![p].pc = "apply", ![p].snap = Matching(req[p])]
  /\ UNCHANGED sessions

\* The statement commits: the candidates that still match are revoked.
Update(p, kind, why) ==
  LET q == req[p]
      rows == q.snap \cap Matching(q)
  IN
  /\ q.op = kind
  /\ At(p, "apply")
  /\ sessions' = [s \in Ids |-> IF s \in rows THEN Revoke(sessions[s], why) ELSE sessions[s]]
  /\ req' = [req EXCEPT ![p] =
       IF kind = "revoke_others" THEN IdleReq
         ELSE [IdleReq EXCEPT !.op = kind, !.pc = "done", !.fam = q.fam, !.snap = rows]]

RevokeByFamilyID(p) == Update(p, "refresh", "reuse_detected")
RevokeByUserID(p) == Update(p, "revoke_all", req[p].why)
RevokeOthersByUser(p) == Update(p, "revoke_others", req[p].why)

-----------------------------------------------------------------------------
(* The environment.                                                        *)

\* A statement fails, which ends the request (also when Rotate ignores the error of
\* RevokeByFamilyID, its last statement), or the process is killed.
RequestFails(p) ==
  /\ Failures
  /\ ~Ready(p)
  /\ Finish(p)
  /\ UNCHANGED sessions

\* Time passes expires_at of a row.
Expire(r) ==
  /\ sessions[r].state \in {"active", "revoked"} /\ ~sessions[r].expired
  /\ sessions' = [sessions EXCEPT ![r].expired = TRUE]
  /\ UNCHANGED req

\* DELETE ... WHERE expires_at <= now, which the repository offers.
CleanupExpired ==
  /\ \E r \in Ids : sessions[r].state # "deleted" /\ sessions[r].expired
  /\ sessions' = [r \in Ids |-> 
       IF sessions[r].expired THEN Deleted(sessions[r]) ELSE sessions[r]]
  /\ UNCHANGED req

Refresh(p) ==
  \/ UpdateTokenLineageByHash(p)
  \/ Decide(p)
  \/ MarkReuseDetectedByHash(p)
  \/ RotateSession(p)
  \/ RevokeByFamilyID(p)

\* The next statement of a request that has begun.
Step(p) ==
  \/ Refresh(p)
  \/ TakeSnapshot(p)
  \/ RevokeByUserID(p)
  \/ RevokeByIDForUser(p)
  \/ RevokeOthersByUser(p)

Arrive(p) ==
  \/ \E r \in Ids : FindByHash(p, r)
  \/ \E u \in Users, why \in RevokeAllReasons : StartRevokeAll(p, u, why)
  \/ \E u \in Users, r \in Ids : FindByIDForUser(p, u, r)
  \/ \E u \in Users, jti \in Ids, cookie \in Ids \cup {Nil} :
       ResolveCurrentSessionID(p, u, jti, cookie)

Next ==
  \/ \E u \in Users : Issue(u)
  \/ \E p \in Reqs : Arrive(p) \/ Step(p) \/ RequestFails(p)
  \/ \E r \in Ids : Expire(r)
  \/ CleanupExpired

Spec == Init /\ [][Next]_vars

-----------------------------------------------------------------------------
(* Properties.                                                             *)

\* Every variable stays within its declared type.
TypeOK ==
  /\ sessions \in [Ids -> Session]
  /\ req \in [Reqs -> Request]

\* The family a token belongs to: the column, or what the backfill will write.
Family(s) == IF sessions[s].familyID = Nil THEN s ELSE sessions[s].familyID

Families ==
  INSTANCE TokenFamilies WITH
    used <- {s \in Ids : sessions[s].state # "free"},
    live <- [f \in Ids |-> {s \in Ids : Live(s) /\ Family(s) = f}]

\* The table and the requests that race on it implement TokenFamilies: every step opens
\* a family, advances one, ends some, or changes nothing a client could notice.
ImplementsFamilies == Families!Spec

\* However requests interleave, two unrevoked tokens never share a family: each
\* rotation replaces the family's one usable token (RotateSession).
OneLiveTokenPerFamily ==
  \A a, b \in Ids : Live(a) /\ Live(b) /\ Family(a) = Family(b) => a = b

\* Two requests that present the same token never both obtain a successor of it.
OneSuccessor ==
  \A a, b \in Ids :
    sessions[a].parent # Nil /\ sessions[a].parent = sessions[b].parent => a = b

\* A revoked row never becomes usable again, and its reason is only ever rewritten
\* to reuse_detected, and then only from a reason Rotate treats as a reuse: a late
\* MarkReuseDetectedByHash never masks a logout.
RevocationIsFinal ==
  [][\A s \in Ids : sessions[s].state = "revoked" =>
       /\ sessions'[s].state \in {"revoked", "deleted"}
       /\ sessions'[s].state = "revoked" /\ sessions'[s].reason # sessions[s].reason =>
            sessions[s].reason \in ReuseReasons /\ sessions'[s].reason = "reuse_detected"]_vars

\* A family dies with the token a finished revocation found in it: once a logout, a
\* password reset or change, or a detected reuse has answered, no usable token descends
\* from a row that its UPDATE revoked, whatever refreshes were in flight at the time.
RevocationEndsFamilies ==
  \A p \in Reqs : At(p, "done") =>
    \A r \in req[p].snap, s \in Ids : Live(s) => Family(s) # Family(r)

\* Once Rotate has answered "reuse detected", the replayed token's family has no
\* usable token left.
ReuseEndsFamily ==
  \A p \in Reqs : req[p].op = "refresh" /\ At(p, "done") => FamilyRows(req[p].fam) = {}

=============================================================================
