--------------------------- MODULE SessionsProofs ---------------------------
(***************************************************************************)
(* Proofs about Sessions for any number of users, tokens and concurrent    *)
(* requests, with and without failures, under both databases.              *)
(***************************************************************************)
EXTENDS Sessions, TLAPS

\* Request p is executing Rotate and knows the lineage of its token.
KnowsLineage(p) ==
  req[p].op = "refresh" /\ req[p].pc \in {"decide", "rotate", "mark", "update", "apply"}

\* A token that was never minted has an empty row.
FreeRowsAreEmpty == \A s \in Ids : sessions[s].state = "free" => sessions[s] = FreeRow

\* Families and parents are minted tokens.
LineageIsMinted ==
  \A s \in Ids : sessions[s].state # "free" =>
    /\ sessions[Family(s)].state # "free"
    /\ sessions[s].parent # Nil => sessions[sessions[s].parent].state # "free"

\* A token that has a successor is not live.
ParentsAreSpent ==
  \A s \in Ids : sessions[s].parent # Nil => ~Live(sessions[s].parent)

\* The lineage columns of a row in the table are both set or both missing.
LineageIsWhole ==
  \A s \in Ids : sessions[s].state \in {"active", "revoked"} =>
    (sessions[s].tokenID = Nil <=> sessions[s].familyID = Nil)

\* What a request knows of its token stays true while others run.
Knows(p) ==
  /\ req[p].pc \in {"backfill", "decide", "rotate", "mark"} => req[p].op = "refresh"
  /\ req[p].op = "refresh" /\ req[p].pc # "done" =>
       req[p].tok \in Ids /\ sessions[req[p].tok].state # "free"
  /\ req[p].pc = "backfill" => Family(req[p].tok) = req[p].tok
  /\ KnowsLineage(p) => req[p].fam # Nil /\ Family(req[p].tok) = req[p].fam
  /\ req[p].pc = "rotate" => req[p].tid = req[p].tok

RequestKnowledge == \A p \in Reqs : Knows(p)

LineageInv ==
  /\ TypeOK
  /\ FreeRowsAreEmpty
  /\ LineageIsMinted
  /\ ParentsAreSpent
  /\ LineageIsWhole
  /\ RequestKnowledge
  /\ OneLiveTokenPerFamily
  /\ OneSuccessor

-----------------------------------------------------------------------------
(* Types.                                                                  *)

\* The rows and requests the statements build are well typed.
LEMMA RowTypes ==
  /\ FreeRow \in Session
  /\ IdleReq \in Request
  /\ \A u \in Users \cup {Nil}, k \in Ids, f \in Ids \cup {Nil}, par \in Ids \cup {Nil} :
       NewRow(u, k, f, par) \in Session
  /\ \A row \in Session, why \in Reasons : Revoke(row, why) \in Session
  /\ \A row \in Session : Deleted(row) \in Session
BY ZenonT(60) DEF FreeRow, IdleReq, NewRow, Revoke, Deleted, Session, Request, Reasons, ReuseReasons

\* Every multi-row statement matches rows of the table.
LEMMA MatchingType == \A q : Matching(q) \in SUBSET Ids
BY DEF Matching, FamilyRows, UserRows, OtherRows

\* The table of legacy rows the program starts from is well typed.
LEMMA InitType == Init => TypeOK
<1> SUFFICES ASSUME Init PROVE TypeOK
  OBVIOUS
<1>1. PICK old \in [LegacyIds -> Users \X {"active", "revoked"}] :
        sessions = [k \in Ids |->
          IF k \in LegacyIds
            THEN [FreeRow EXCEPT !.user = old[k][1], !.state = old[k][2]]
            ELSE FreeRow]
  BY DEF Init
<1>2. ASSUME NEW k \in Ids PROVE sessions[k] \in Session
  BY <1>1, <1>2 DEF FreeRow, Session, Reasons, ReuseReasons
<1>3. sessions \in [Ids -> Session]
  BY <1>1, <1>2
<1>4. req \in [Reqs -> Request]
  BY RowTypes DEF Init
<1> QED BY <1>3, <1>4 DEF TypeOK

\* Every statement, failure and clock step keeps the types.
LEMMA NextType == TypeOK /\ [Next]_vars => TypeOK'
<1> SUFFICES ASSUME TypeOK, [Next]_vars PROVE TypeOK'
  OBVIOUS
<1> USE DEF TypeOK
<1>1. ASSUME NEW u \in Users, Issue(u) PROVE TypeOK'
  BY <1>1, RowTypes DEF Issue, Free
<1>2. ASSUME NEW p \in Reqs, NEW r \in Ids, FindByHash(p, r) PROVE TypeOK'
  <2> DEFINE row == sessions[r]
             q == [IdleReq EXCEPT
                     !.op = "refresh", !.tok = r, !.user = row.user,
                     !.pc = IF LineageMissing(row) THEN "backfill" ELSE "decide",
                     !.tid = row.tokenID, !.fam = row.familyID,
                     !.seen = row.state, !.why = row.reason]
  <2>1. row \in Session /\ row.state \in {"active", "revoked"}
    BY <1>2 DEF FindByHash
  <2>2. (IF LineageMissing(row) THEN "backfill" ELSE "decide") \in {"backfill", "decide"}
    OBVIOUS
  <2>3. q \in Request
    BY <2>1, <2>2, ZenonT(60) DEF Session, Request, IdleReq
  <2>4. req' = [req EXCEPT ![p] = q] /\ sessions' = sessions
    BY <1>2 DEF FindByHash, Begin
  <2> QED BY <2>3, <2>4
<1>3. ASSUME NEW p \in Reqs, NEW u \in Users, NEW why \in RevokeAllReasons,
             StartRevokeAll(p, u, why)
      PROVE TypeOK'
  BY <1>3 DEF StartRevokeAll, Begin, Request, IdleReq, Reasons
<1>4. ASSUME NEW p \in Reqs, NEW u \in Users, NEW r \in Ids, FindByIDForUser(p, u, r)
      PROVE TypeOK'
  BY <1>4 DEF FindByIDForUser, Begin, Request, IdleReq, Reasons, ReuseReasons
<1>5. ASSUME NEW p \in Reqs, NEW u \in Users, NEW jti \in Ids, NEW cookie \in Ids \cup {Nil},
             ResolveCurrentSessionID(p, u, jti, cookie)
      PROVE TypeOK'
  <2>1. Current(u, jti, cookie) \in Ids \cup {Nil}
    BY DEF Current
  <2> QED BY <1>5, <2>1 DEF ResolveCurrentSessionID, Begin, Request, IdleReq, Reasons
<1>6. ASSUME NEW p \in Reqs, UpdateTokenLineageByHash(p) PROVE TypeOK'
  BY <1>6 DEF UpdateTokenLineageByHash, At, LineageMissing, Session, Request
<1>7. ASSUME NEW p \in Reqs, Decide(p) PROVE TypeOK'
  <2>1. CASE Finish(p)
    BY <1>7, <2>1, RowTypes DEF Decide, Finish
  <2>2. CASE Goto(p, "mark") \/ Goto(p, "rotate")
    BY <1>7, <2>2 DEF Decide, Goto, Request
  <2> QED BY <1>7, <2>1, <2>2 DEF Decide
<1>8. ASSUME NEW p \in Reqs, MarkReuseDetectedByHash(p) PROVE TypeOK'
  <2>1. req' \in [Reqs -> Request]
    BY <1>8 DEF MarkReuseDetectedByHash, Goto, Request
  <2>2. \A row \in Session :
          [row EXCEPT !.reuse = TRUE, !.reason = "reuse_detected"] \in Session
    BY DEF Session, Reasons, ReuseReasons
  <2>3. CASE UNCHANGED sessions
    BY <2>1, <2>3
  <2>4. CASE sessions' = [sessions EXCEPT ![req[p].tok] =
               IF @.state = "deleted" THEN @
                 ELSE [@ EXCEPT !.reuse = TRUE, !.reason = "reuse_detected"]]
    <3>1. ASSUME NEW s \in Ids PROVE sessions'[s] \in Session
      BY <2>2, <2>4
    <3> QED BY <2>1, <2>4, <3>1
  <2> QED BY <1>8, <2>3, <2>4 DEF MarkReuseDetectedByHash
<1>9. ASSUME NEW p \in Reqs, RotateSession(p) PROVE TypeOK'
  <2>1. req' \in [Reqs -> Request]
    BY <1>9, RowTypes DEF RotateSession, Finish
  <2>2. ASSUME NEW k \in Free,
               sessions' = [sessions EXCEPT
                 ![req[p].tok] = Revoke(@, "rotated"),
                 ![k] = NewRow(req[p].user, k, req[p].fam, req[p].tid)]
        PROVE sessions' \in [Ids -> Session]
    <3>1. NewRow(req[p].user, k, req[p].fam, req[p].tid) \in Session
      BY RowTypes DEF Request, Free
    <3>2. \A row \in Session : Revoke(row, "rotated") \in Session
      BY RowTypes DEF Reasons, ReuseReasons
    <3> QED BY <2>2, <3>1, <3>2
  <2> QED BY <1>9, <2>1, <2>2 DEF RotateSession
<1>10. ASSUME NEW p \in Reqs, RevokeByIDForUser(p) PROVE TypeOK'
  <2>1. \A row \in Session : Revoke(row, "user_session_revoked") \in Session
    BY RowTypes DEF Reasons
  <2>2. req' \in [Reqs -> Request]
    BY <1>10, RowTypes DEF RevokeByIDForUser, Finish
  <2>3. sessions' = [s \in Ids |-> sessions'[s]]
    BY <1>10 DEF RevokeByIDForUser
  <2>4. ASSUME NEW s \in Ids PROVE sessions'[s] \in Session
    BY <1>10, <2>1 DEF RevokeByIDForUser
  <2> QED BY <2>2, <2>3, <2>4
<1>11. ASSUME NEW p \in Reqs, TakeSnapshot(p) PROVE TypeOK'
  <2> DEFINE q == [req[p] EXCEPT !.pc = "apply", !.snap = Matching(req[p])]
  <2>1. req[p] \in Request
    OBVIOUS
  <2>2. Matching(req[p]) \in SUBSET Ids
    BY MatchingType
  <2>3. q \in Request
    BY <2>1, <2>2 DEF Request
  <2>4. req' = [req EXCEPT ![p] = q] /\ sessions' = sessions
    BY <1>11 DEF TakeSnapshot
  <2> QED BY <2>3, <2>4
<1>12. ASSUME NEW p \in Reqs, NEW kind \in {"refresh", "revoke_all", "revoke_others"},
              NEW why \in Reasons, Update(p, kind, why)
       PROVE TypeOK'
  <2>1. Matching(req[p]) \in SUBSET Ids /\ req[p].snap \in SUBSET Ids /\ req[p] \in Request
    BY MatchingType DEF Request
  <2>2. sessions' \in [Ids -> Session]
    BY <1>12, RowTypes DEF Update
  <2>3. req' \in [Reqs -> Request]
    BY <1>12, <2>1, RowTypes, ZenonT(60) DEF Update, Request, IdleReq
  <2> QED BY <2>2, <2>3
<1>13. ASSUME NEW p \in Reqs, RequestFails(p) PROVE TypeOK'
  BY <1>13, RowTypes DEF RequestFails, Finish
<1>14. ASSUME NEW r \in Ids, Expire(r) PROVE TypeOK'
  BY <1>14 DEF Expire, Session
<1>15. ASSUME CleanupExpired PROVE TypeOK'
  BY <1>15, RowTypes DEF CleanupExpired
<1>16. CASE UNCHANGED vars
  BY <1>16 DEF vars
<1>17. \A p \in Reqs : req[p].why \in Reasons /\ "reuse_detected" \in Reasons
  BY DEF Request, Reasons, ReuseReasons
<1> QED
  BY <1>1, <1>2, <1>3, <1>4, <1>5, <1>6, <1>7, <1>8, <1>9, <1>10, <1>11, <1>12, <1>13,
     <1>14, <1>15, <1>16, <1>17
     DEF Next, Arrive, Step, Refresh, RevokeByFamilyID, RevokeByUserID, RevokeOthersByUser

\* Every reachable state is well typed: the table holds rows and the requests hold
\* local state of the declared shape, whatever interleaves and fails.
THEOREM TypeCorrect == Spec => []TypeOK
<1> QED BY InitType, NextType, PTL DEF Spec

-----------------------------------------------------------------------------
(* The effect of a step on the table: it opens a family, rotates a token,  *)
(* or leaves lineage alone and brings no token to life.                    *)

FamilyOf(s, row) == IF row.familyID = Nil THEN s ELSE row.familyID

QuietRow(s, old, new) ==
  /\ new.parent = old.parent
  /\ FamilyOf(s, new) = FamilyOf(s, old)
  /\ new.state = "free" <=> old.state = "free"
  /\ old.state = "free" => new = old
  /\ new.state = "active" => old.state = "active"
  /\ new.state \in {"active", "revoked"} =>
       /\ old.state \in {"active", "revoked"}
       /\ new.tokenID = Nil <=> new.familyID = Nil

Quiet == \A s \in Ids : QuietRow(s, sessions[s], sessions'[s])

\* A row the invariant allows.
WholeRow(row) ==
  /\ row \in Session
  /\ row.state = "free" => row = FreeRow
  /\ row.state \in {"active", "revoked"} => (row.tokenID = Nil <=> row.familyID = Nil)

\* A step that neither mints nor rotates leaves every row's history as it was.
LEMMA QuietRows ==
  ASSUME NEW s \in Ids, NEW row, WholeRow(row)
  PROVE  /\ QuietRow(s, row, row)
         /\ \A why : row.state = "active" => QuietRow(s, row, Revoke(row, why))
         /\ row.expired => QuietRow(s, row, Deleted(row))
         /\ row.state # "free" => QuietRow(s, row, [row EXCEPT !.expired = TRUE])
         /\ row.state # "free" =>
              QuietRow(s, row, [row EXCEPT !.reuse = TRUE, !.reason = "reuse_detected"])
         /\ row.state \in {"active", "revoked"} /\ LineageMissing(row) =>
              QuietRow(s, row, [row EXCEPT !.tokenID = s, !.familyID = s])
<1> USE DEF WholeRow, QuietRow, FamilyOf, Session
<1>1. QuietRow(s, row, row)
  OBVIOUS
<1>2. ASSUME NEW why, row.state = "active" PROVE QuietRow(s, row, Revoke(row, why))
  BY <1>2 DEF Revoke
<1>3. ASSUME row.expired PROVE QuietRow(s, row, Deleted(row))
  BY <1>3 DEF Deleted, FreeRow
<1>4. ASSUME row.state # "free" PROVE QuietRow(s, row, [row EXCEPT !.expired = TRUE])
  BY <1>4
<1>5. ASSUME row.state # "free"
      PROVE  QuietRow(s, row, [row EXCEPT !.reuse = TRUE, !.reason = "reuse_detected"])
  BY <1>5
<1>6. ASSUME row.state \in {"active", "revoked"}, LineageMissing(row)
      PROVE  QuietRow(s, row, [row EXCEPT !.tokenID = s, !.familyID = s])
  BY <1>6, IdsAssumption DEF LineageMissing
<1> QED BY <1>1, <1>2, <1>3, <1>4, <1>5, <1>6

Opened(u, k) ==
  k \in Free /\ sessions' = [sessions EXCEPT ![k] = NewRow(u, k, k, Nil)]

Rotated(p, k) ==
  /\ At(p, "rotate") /\ Rotatable(req[p].tok) /\ k \in Free
  /\ sessions' = [sessions EXCEPT
       ![req[p].tok] = Revoke(@, "rotated"),
       ![k] = NewRow(req[p].user, k, req[p].fam, req[p].tid)]

\* What a step does to the table: nothing that adds a token, Issue, or RotateSession.
LEMMA StepEffect ==
  ASSUME LineageInv, [Next]_vars
  PROVE  \/ Quiet
         \/ \E u \in Users, k \in Ids : Opened(u, k)
         \/ \E p \in Reqs, k \in Ids : Rotated(p, k)
<1> USE DEF TypeOK
<1>0. TypeOK /\ RequestKnowledge /\ \A s \in Ids : WholeRow(sessions[s])
  BY DEF LineageInv, WholeRow, LineageIsWhole, FreeRowsAreEmpty
<1>1. ASSUME NEW u \in Users, Issue(u)
      PROVE  \E v \in Users, k \in Ids : Opened(v, k)
  BY <1>1 DEF Issue, Opened, Free
<1>2. ASSUME UNCHANGED sessions PROVE Quiet
  BY <1>0, <1>2, QuietRows DEF Quiet
<1>3. ASSUME NEW p \in Reqs, UpdateTokenLineageByHash(p) PROVE Quiet
  BY <1>0, <1>3, QuietRows DEF UpdateTokenLineageByHash, Quiet
<1>4. ASSUME NEW p \in Reqs, MarkReuseDetectedByHash(p) PROVE Quiet
  <2>1. sessions[req[p].tok].state # "free"
    BY <1>0, <1>4 DEF MarkReuseDetectedByHash, At, RequestKnowledge, Knows
  <2>2. ASSUME NEW s \in Ids PROVE QuietRow(s, sessions[s], sessions'[s])
    <3>1. \/ sessions'[s] = sessions[s]
          \/ /\ sessions[s].state # "free"
             /\ sessions'[s] = [sessions[s] EXCEPT !.reuse = TRUE, !.reason = "reuse_detected"]
      BY <1>0, <1>4, <2>1 DEF MarkReuseDetectedByHash
    <3>2. WholeRow(sessions[s])
      BY <1>0
    <3>3. QuietRow(s, sessions[s], sessions[s])
      BY <3>2, QuietRows
    <3>4. sessions[s].state # "free" =>
            QuietRow(s, sessions[s],
              [sessions[s] EXCEPT !.reuse = TRUE, !.reason = "reuse_detected"])
      BY <3>2, QuietRows
    <3> QED BY <3>1, <3>3, <3>4
  <2> QED BY <2>2 DEF Quiet
<1>5. ASSUME NEW p \in Reqs, RevokeByIDForUser(p) PROVE Quiet
  BY <1>0, <1>5, QuietRows DEF RevokeByIDForUser, Quiet
<1>6. ASSUME NEW p \in Reqs, NEW kind, NEW why, Update(p, kind, why) PROVE Quiet
  <2>1. \A s \in Matching(req[p]) : s \in Ids /\ sessions[s].state = "active"
    BY DEF Matching, FamilyRows, UserRows, OtherRows, Live
  <2> QED BY <1>0, <1>6, <2>1, QuietRows DEF Update, Quiet
<1>7. ASSUME NEW r \in Ids, Expire(r) PROVE Quiet
  BY <1>0, <1>7, QuietRows DEF Expire, Quiet
<1>8. ASSUME CleanupExpired PROVE Quiet
  BY <1>0, <1>8, QuietRows DEF CleanupExpired, Quiet
<1>9. ASSUME NEW p \in Reqs, RotateSession(p)
      PROVE  Quiet \/ \E q \in Reqs, k \in Ids : Rotated(q, k)
  BY <1>2, <1>9 DEF RotateSession, Rotated, Free
<1>10. ASSUME NEW p \in Reqs, Arrive(p) PROVE Quiet
  BY <1>2, <1>10 DEF Arrive, FindByHash, StartRevokeAll, FindByIDForUser, ResolveCurrentSessionID
<1>11. ASSUME NEW p \in Reqs, Decide(p) \/ TakeSnapshot(p) \/ RequestFails(p) PROVE Quiet
  BY <1>2, <1>11 DEF Decide, TakeSnapshot, RequestFails
<1> QED
  BY <1>1, <1>2, <1>3, <1>4, <1>5, <1>6, <1>7, <1>8, <1>9, <1>10, <1>11
     DEF Next, Step, Refresh, RevokeByFamilyID, RevokeByUserID, RevokeOthersByUser, vars

\* Minted tokens stay minted and never change family.
Monotone ==
  \A s \in Ids : sessions[s].state # "free" =>
    sessions'[s].state # "free" /\ Family(s)' = Family(s)

\* A minted token stays minted and never changes its family.
LEMMA StepMonotone ==
  ASSUME LineageInv, [Next]_vars
  PROVE  Monotone
<1> USE DEF Monotone, Family
<1>0. sessions \in [Ids -> Session]
  BY DEF LineageInv, TypeOK
<1>1. CASE Quiet
  BY <1>1 DEF Quiet, QuietRow, FamilyOf
<1>2. ASSUME NEW u \in Users, NEW k \in Ids, Opened(u, k) PROVE Monotone
  BY <1>0, <1>2 DEF Opened, Free
<1>3. ASSUME NEW p \in Reqs, NEW k \in Ids, Rotated(p, k) PROVE Monotone
  <2>1. ASSUME NEW s \in Ids, sessions[s].state # "free"
        PROVE  sessions'[s].state # "free" /\ sessions'[s].familyID = sessions[s].familyID
    BY <1>0, <1>3, <2>1 DEF Rotated, Free, Revoke, Session
  <2> QED BY <2>1
<1> QED BY <1>1, <1>2, <1>3, StepEffect

\* What a refresh in flight has read about its row stays true until it uses it.
LEMMA StepKnowledge ==
  ASSUME LineageInv, [Next]_vars
  PROVE  RequestKnowledge'
<1> SUFFICES ASSUME NEW p \in Reqs PROVE Knows(p)'
  BY DEF RequestKnowledge
<1> USE DEF TypeOK
<1>0. TypeOK /\ Knows(p) /\ Monotone /\ TypeOK'
  BY StepMonotone, NextType DEF LineageInv, RequestKnowledge
<1>1. CASE req'[p] = req[p]
  BY <1>0, <1>1 DEF Knows, KnowsLineage, Monotone
<1>2. CASE req'[p] = IdleReq
  BY <1>2 DEF Knows, KnowsLineage, IdleReq
<1>3. ASSUME NEW r \in Ids, FindByHash(p, r) PROVE Knows(p)'
  <2> DEFINE row == sessions[r]
  <2>1. /\ sessions' = sessions
        /\ req'[p].op = "refresh" /\ req'[p].tok = r /\ req'[p].fam = row.familyID
        /\ req'[p].pc = IF LineageMissing(row) THEN "backfill" ELSE "decide"
    BY <1>0, <1>3 DEF FindByHash, Begin, IdleReq
  <2>2. row.state # "free" /\ (LineageMissing(row) <=> row.familyID = Nil)
    BY <1>3 DEF FindByHash, LineageInv, LineageIsWhole, LineageMissing
  <2>3. CASE row.familyID = Nil
    BY <2>1, <2>2, <2>3 DEF Knows, KnowsLineage, Family
  <2>4. CASE row.familyID # Nil
    BY <2>1, <2>2, <2>4 DEF Knows, KnowsLineage, Family
  <2> QED BY <2>3, <2>4
<1>4. ASSUME NEW u \in Users, NEW why \in RevokeAllReasons, StartRevokeAll(p, u, why)
      PROVE  Knows(p)'
  BY <1>0, <1>4 DEF StartRevokeAll, Begin, Knows, KnowsLineage, IdleReq
<1>5. ASSUME NEW u \in Users, NEW r \in Ids, FindByIDForUser(p, u, r) PROVE Knows(p)'
  BY <1>0, <1>5 DEF FindByIDForUser, Begin, Knows, KnowsLineage, IdleReq
<1>6. ASSUME NEW u \in Users, NEW jti \in Ids, NEW cookie \in Ids \cup {Nil},
             ResolveCurrentSessionID(p, u, jti, cookie)
      PROVE  Knows(p)'
  BY <1>0, <1>6 DEF ResolveCurrentSessionID, Begin, Knows, KnowsLineage, IdleReq
<1>7. ASSUME UpdateTokenLineageByHash(p) PROVE Knows(p)'
  BY <1>0, <1>7, IdsAssumption
     DEF UpdateTokenLineageByHash, At, Knows, KnowsLineage, Monotone, Request
<1>8. ASSUME Decide(p) PROVE Knows(p)'
  <2>1. CASE Finish(p)
    BY <1>0, <1>2, <2>1 DEF Finish
  <2>2. CASE Goto(p, "mark")
    BY <1>0, <1>8, <2>2 DEF Decide, At, Goto, Knows, KnowsLineage, Monotone, Request
  <2>3. CASE Goto(p, "rotate") /\ req[p].tid = req[p].tok
    BY <1>0, <1>8, <2>3 DEF Decide, At, Goto, Knows, KnowsLineage, Monotone, Request
  <2> QED BY <1>8, <2>1, <2>2, <2>3 DEF Decide
<1>9. ASSUME MarkReuseDetectedByHash(p) PROVE Knows(p)'
  BY <1>0, <1>9 DEF MarkReuseDetectedByHash, At, Goto, Knows, KnowsLineage, Monotone, Request
<1>10. ASSUME TakeSnapshot(p) PROVE Knows(p)'
  BY <1>0, <1>10 DEF TakeSnapshot, At, Knows, KnowsLineage, Monotone, Request
<1>11. ASSUME NEW kind, NEW why, Update(p, kind, why) PROVE Knows(p)'
  BY <1>0, <1>2, <1>11 DEF Update, Knows, KnowsLineage, IdleReq
<1>12. ASSUME NEW q \in Reqs, q # p, Arrive(q) \/ Step(q) \/ RequestFails(q)
       PROVE  req'[p] = req[p]
  BY <1>0, <1>12
     DEF Arrive, Step, Refresh, RequestFails, FindByHash, StartRevokeAll, FindByIDForUser,
         ResolveCurrentSessionID, UpdateTokenLineageByHash, Decide, MarkReuseDetectedByHash,
         RotateSession, RevokeByIDForUser, TakeSnapshot, RevokeByFamilyID, RevokeByUserID,
         RevokeOthersByUser, Update, Begin, Goto, Finish
<1>13. ASSUME RotateSession(p) \/ RevokeByIDForUser(p) \/ RequestFails(p) PROVE Knows(p)'
  BY <1>0, <1>2, <1>13 DEF RotateSession, RevokeByIDForUser, RequestFails, Finish
<1>14. ASSUME Arrive(p) \/ Step(p) \/ RequestFails(p) PROVE Knows(p)'
  BY <1>3, <1>4, <1>5, <1>6, <1>7, <1>8, <1>9, <1>10, <1>11, <1>13, <1>14
     DEF Arrive, Step, Refresh, RevokeByFamilyID, RevokeByUserID, RevokeOthersByUser
<1>15. CASE \E u \in Users : Issue(u)
  BY <1>1, <1>15 DEF Issue
<1>16. CASE CleanupExpired \/ \E r \in Ids : Expire(r)
  BY <1>1, <1>16 DEF CleanupExpired, Expire
<1>17. CASE UNCHANGED vars
  BY <1>1, <1>17 DEF vars
<1> QED BY <1>1, <1>12, <1>14, <1>15, <1>16, <1>17 DEF Next

-----------------------------------------------------------------------------
(* The inductive step and the theorems.                                    *)

\* The inductive invariant holds of the legacy rows.
LEMMA InitLineage == Init => LineageInv
<1> SUFFICES ASSUME Init PROVE LineageInv
  OBVIOUS
<1>1. TypeOK
  BY InitType
<1>2. ASSUME NEW s \in Ids
      PROVE  /\ sessions[s].familyID = Nil /\ sessions[s].tokenID = Nil
             /\ sessions[s].parent = Nil
             /\ sessions[s].state = "free" => sessions[s] = FreeRow
  <2>1. PICK old \in [LegacyIds -> Users \X {"active", "revoked"}] :
          sessions = [k \in Ids |->
            IF k \in LegacyIds
              THEN [FreeRow EXCEPT !.user = old[k][1], !.state = old[k][2]]
              ELSE FreeRow]
    BY DEF Init
  <2>2. CASE s \in LegacyIds
    <3>1. old[s][2] \in {"active", "revoked"}
      BY <2>2
    <3> QED BY <2>1, <2>2, <3>1 DEF FreeRow
  <2>3. CASE s \notin LegacyIds
    BY <2>1, <2>3 DEF FreeRow
  <2> QED BY <2>2, <2>3
<1>3. \A p \in Reqs : req[p] = IdleReq
  BY DEF Init
<1>4. RequestKnowledge
  BY <1>3 DEF RequestKnowledge, Knows, KnowsLineage, IdleReq
<1> QED
  BY <1>1, <1>2, <1>4
     DEF LineageInv, FreeRowsAreEmpty, LineageIsMinted, ParentsAreSpent, LineageIsWhole,
         OneLiveTokenPerFamily, OneSuccessor, Family

\* The parts of the invariant that speak of the table alone.
TableInv ==
  FreeRowsAreEmpty /\ LineageIsMinted /\ ParentsAreSpent /\ LineageIsWhole
    /\ OneLiveTokenPerFamily /\ OneSuccessor

\* Steps that add no token keep the table's part of the invariant.
LEMMA QuietKeepsTable ==
  ASSUME LineageInv, TypeOK', Quiet
  PROVE  TableInv'
<1> USE DEF LineageInv, TypeOK, Quiet, QuietRow
<1>0. \A s \in Ids : Family(s)' = Family(s)
  BY DEF Family, FamilyOf
<1>1. FreeRowsAreEmpty'
  BY DEF FreeRowsAreEmpty
<1>2. LineageIsMinted'
  BY <1>0 DEF LineageIsMinted, Family, Session
<1>3. ParentsAreSpent'
  BY DEF ParentsAreSpent, Live, Session
<1>4. LineageIsWhole'
  BY DEF LineageIsWhole
<1>5. OneLiveTokenPerFamily'
  BY <1>0 DEF OneLiveTokenPerFamily, Live
<1>6. OneSuccessor'
  BY DEF OneSuccessor
<1> QED BY <1>1, <1>2, <1>3, <1>4, <1>5, <1>6 DEF TableInv

\* Issue inserts a freshly minted token, the first of its family.
LEMMA OpenKeepsTable ==
  ASSUME LineageInv, TypeOK', NEW u \in Users, NEW k \in Ids, Opened(u, k)
  PROVE  TableInv'
<1> USE IdsAssumption DEF LineageInv, TypeOK
<1>0. /\ sessions[k] = FreeRow
      /\ \A s \in Ids \ {k} : sessions'[s] = sessions[s]
      /\ sessions'[k].state = "active" /\ sessions'[k].familyID = k
      /\ sessions'[k].tokenID = k /\ sessions'[k].parent = Nil
  BY DEF Opened, Free, FreeRowsAreEmpty, NewRow, FreeRow
<1>1. \A s \in Ids \ {k} : Family(s)' = Family(s)
  BY <1>0 DEF Family
<1>2. Family(k)' = k
  BY <1>0 DEF Family
<1>3. \A s \in Ids \ {k} : sessions[s].state # "free" => Family(s) # k
  BY <1>0 DEF LineageIsMinted, FreeRow
<1>4. FreeRowsAreEmpty'
  BY <1>0 DEF FreeRowsAreEmpty
<1>5. LineageIsMinted'
  BY <1>0, <1>1, <1>2 DEF LineageIsMinted, Family, Session
<1>6. ParentsAreSpent'
  BY <1>0 DEF ParentsAreSpent, LineageIsMinted, FreeRowsAreEmpty, Live, FreeRow, Session
<1>7. LineageIsWhole'
  BY <1>0 DEF LineageIsWhole
<1>8. OneLiveTokenPerFamily'
  BY <1>0, <1>1, <1>2, <1>3 DEF OneLiveTokenPerFamily, Live
<1>9. OneSuccessor'
  BY <1>0 DEF OneSuccessor
<1> QED BY <1>4, <1>5, <1>6, <1>7, <1>8, <1>9 DEF TableInv

\* RotateSession revokes the family's one live token as it inserts the next.
LEMMA RotateKeepsTable ==
  ASSUME LineageInv, TypeOK', NEW p \in Reqs, NEW k \in Ids, Rotated(p, k)
  PROVE  TableInv'
<1> DEFINE t == req[p].tok
           f == req[p].fam
<1> USE IdsAssumption DEF LineageInv, TypeOK
<1>0. /\ t \in Ids /\ t # k /\ Live(t) /\ f # Nil /\ f \in Ids
      /\ Family(t) = f /\ req[p].tid = t
  BY DEF Rotated, At, RequestKnowledge, Knows, KnowsLineage, Rotatable, Live, Free, Request
<1>1. /\ sessions[k] = FreeRow
      /\ \A s \in Ids \ {k, t} : sessions'[s] = sessions[s]
      /\ sessions'[k].state = "active" /\ sessions'[k].familyID = f
      /\ sessions'[k].tokenID = k /\ sessions'[k].parent = t
      /\ sessions'[t].state = "revoked" /\ sessions'[t].familyID = sessions[t].familyID
      /\ sessions'[t].tokenID = sessions[t].tokenID /\ sessions'[t].parent = sessions[t].parent
  <2>1. /\ sessions[k] = FreeRow
        /\ \A s \in Ids \ {k, t} : sessions'[s] = sessions[s]
    BY <1>0 DEF Rotated, Free, FreeRowsAreEmpty
  <2>2. sessions'[k] = NewRow(req[p].user, k, f, t)
    BY <1>0 DEF Rotated
  <2>3. sessions'[t] = Revoke(sessions[t], "rotated") /\ sessions[t] \in Session
    BY <1>0 DEF Rotated
  <2>4. /\ sessions'[k].state = "active" /\ sessions'[k].familyID = f
        /\ sessions'[k].tokenID = k /\ sessions'[k].parent = t
    BY <2>2 DEF NewRow, FreeRow
  <2>5. /\ sessions'[t].state = "revoked" /\ sessions'[t].familyID = sessions[t].familyID
        /\ sessions'[t].tokenID = sessions[t].tokenID
        /\ sessions'[t].parent = sessions[t].parent
    BY <2>3 DEF Revoke, Session
  <2> QED BY <2>1, <2>4, <2>5
<1> HIDE DEF t, f
<1>2. \A s \in Ids \ {k} : Family(s)' = Family(s)
  BY <1>1 DEF Family
<1>3. Family(k)' = f
  BY <1>0, <1>1 DEF Family
<1>4. \A s \in Ids \ {k, t} : ~(Live(s) /\ Family(s) = f)
  BY <1>0 DEF OneLiveTokenPerFamily
<1>5. \A s \in Ids : sessions[s].parent # t
  BY <1>0 DEF ParentsAreSpent
<1>6. FreeRowsAreEmpty'
  BY <1>1 DEF FreeRowsAreEmpty
<1>7. LineageIsMinted'
  BY <1>0, <1>1, <1>2, <1>3 DEF LineageIsMinted, Family, Session, Live
<1>8. ParentsAreSpent'
  BY <1>0, <1>1 DEF ParentsAreSpent, LineageIsMinted, FreeRowsAreEmpty, Live, FreeRow, Session
<1>9. LineageIsWhole'
  BY <1>0, <1>1 DEF LineageIsWhole, Live
<1>10. OneLiveTokenPerFamily'
  BY <1>0, <1>1, <1>2, <1>3, <1>4 DEF OneLiveTokenPerFamily, Live
<1>11. OneSuccessor'
  BY <1>0, <1>1, <1>5 DEF OneSuccessor
<1> QED BY <1>6, <1>7, <1>8, <1>9, <1>10, <1>11 DEF TableInv

\* The invariant is inductive.
LEMMA NextLineage == LineageInv /\ [Next]_vars => LineageInv'
<1> SUFFICES ASSUME LineageInv, [Next]_vars PROVE LineageInv'
  OBVIOUS
<1>1. TypeOK'
  BY NextType DEF LineageInv
<1>2. TableInv'
  BY <1>1, StepEffect, QuietKeepsTable, OpenKeepsTable, RotateKeepsTable
<1> QED BY <1>1, <1>2, StepKnowledge DEF LineageInv, TableInv

\* The inductive invariant behind the two theorems below holds in every reachable state.
THEOREM LineageCorrect == Spec => []LineageInv
<1> QED BY InitLineage, NextLineage, PTL DEF Spec

\* No interleaving of refreshes, logouts, revocations, backfills, failures and clean-ups
\* ever leaves two usable refresh tokens in one family.
THEOREM OneLiveTokenPerFamilyHolds == Spec => []OneLiveTokenPerFamily
<1>1. LineageInv => OneLiveTokenPerFamily
  BY DEF LineageInv
<1> QED BY <1>1, LineageCorrect, PTL

\* A refresh token is exchanged at most once, however many requests present it.
THEOREM OneSuccessorHolds == Spec => []OneSuccessor
<1>1. LineageInv => OneSuccessor
  BY DEF LineageInv
<1> QED BY <1>1, LineageCorrect, PTL

-----------------------------------------------------------------------------
(* A finished revocation ends the families it found.                       *)

\* The rows on record of a finished revocation have been minted.
RevokedRowsAreMinted ==
  \A p \in Reqs : At(p, "done") => \A r \in req[p].snap : sessions[r].state # "free"

RevocationInv == LineageInv /\ RevokedRowsAreMinted /\ RevocationEndsFamilies

\* A request is on record as finished only if it was before, or if this step was its UPDATE.
LEMMA DoneAfterUpdate ==
  ASSUME LineageInv, [Next]_vars, NEW p \in Reqs
  PROVE  \/ req'[p] = req[p]
         \/ req'[p].pc # "done"
         \/ \E kind, why : Update(p, kind, why)
<1>0. req \in [Reqs -> Request] /\ req[p] \in Request
  BY DEF LineageInv, TypeOK
<1>1. ASSUME NEW q \in Reqs, q # p, Arrive(q) \/ Step(q) \/ RequestFails(q)
      PROVE  req'[p] = req[p]
  BY <1>0, <1>1
     DEF Arrive, Step, Refresh, RequestFails, FindByHash, StartRevokeAll, FindByIDForUser,
         ResolveCurrentSessionID, UpdateTokenLineageByHash, Decide, MarkReuseDetectedByHash,
         RotateSession, RevokeByIDForUser, TakeSnapshot, RevokeByFamilyID, RevokeByUserID,
         RevokeOthersByUser, Update, Begin, Goto, Finish
<1>2. ASSUME Arrive(p) PROVE req'[p].pc # "done"
  <2>1. CASE \E r \in Ids : FindByHash(p, r)
    BY <1>0, <2>1 DEF FindByHash, Begin, IdleReq
  <2>2. CASE \E u \in Users, why \in RevokeAllReasons : StartRevokeAll(p, u, why)
    BY <1>0, <2>2 DEF StartRevokeAll, Begin, IdleReq
  <2>3. CASE \E u \in Users, r \in Ids : FindByIDForUser(p, u, r)
    BY <1>0, <2>3 DEF FindByIDForUser, Begin, IdleReq
  <2>4. CASE \E u \in Users, jti \in Ids, cookie \in Ids \cup {Nil} :
               ResolveCurrentSessionID(p, u, jti, cookie)
    BY <1>0, <2>4 DEF ResolveCurrentSessionID, Begin, IdleReq
  <2> QED BY <1>2, <2>1, <2>2, <2>3, <2>4 DEF Arrive
<1>3. ASSUME RequestFails(p) \/ RevokeByIDForUser(p) \/ RotateSession(p)
      PROVE  req'[p].pc # "done"
  <2>1. req' = [req EXCEPT ![p] = IdleReq]
    BY <1>3 DEF RequestFails, RevokeByIDForUser, RotateSession, Finish
  <2> QED BY <1>0, <2>1 DEF IdleReq
<1>4. ASSUME TakeSnapshot(p) PROVE req'[p].pc # "done"
  BY <1>0, <1>4 DEF TakeSnapshot, Request
<1>5. ASSUME UpdateTokenLineageByHash(p) PROVE req'[p].pc # "done"
  BY <1>0, <1>5 DEF UpdateTokenLineageByHash, Request
<1>6. ASSUME Decide(p) PROVE req'[p].pc # "done"
  BY <1>0, <1>6 DEF Decide, Goto, Finish, IdleReq, Request
<1>7. ASSUME MarkReuseDetectedByHash(p) PROVE req'[p].pc # "done"
  BY <1>0, <1>7 DEF MarkReuseDetectedByHash, Goto, Request
<1>8. CASE (\E u \in Users : Issue(u)) \/ CleanupExpired \/ (\E r \in Ids : Expire(r))
             \/ UNCHANGED vars
  BY <1>8 DEF Issue, CleanupExpired, Expire, vars
<1> QED
  BY <1>1, <1>2, <1>3, <1>4, <1>5, <1>6, <1>7, <1>8
     DEF Next, Step, Refresh, RevokeByFamilyID, RevokeByUserID, RevokeOthersByUser

\* No step brings a dead family back: a token that is live afterwards is one of a family
\* that had a live token, or opens a family of its own.
LEMMA DeadFamiliesStayDead ==
  ASSUME LineageInv, [Next]_vars, NEW f \in Ids, sessions[f].state # "free",
         \A s \in Ids : Live(s) => Family(s) # f
  PROVE  \A s \in Ids : Live(s)' => Family(s)' # f
<1> USE DEF Live, TypeOK
<1>0. sessions \in [Ids -> Session] /\ Monotone
  BY StepMonotone DEF LineageInv
<1>1. CASE Quiet
  BY <1>1 DEF Quiet, QuietRow, FamilyOf, Family
<1>2. ASSUME NEW u \in Users, NEW k \in Ids, Opened(u, k)
      PROVE  \A s \in Ids : Live(s)' => Family(s)' # f
  BY <1>0, <1>2, IdsAssumption DEF Opened, Free, NewRow, FreeRow, Family
<1>3. ASSUME NEW p \in Reqs, NEW k \in Ids, Rotated(p, k)
      PROVE  \A s \in Ids : Live(s)' => Family(s)' # f
  <2>1. /\ req[p].tok \in Ids /\ Live(req[p].tok) /\ req[p].fam # Nil
        /\ Family(req[p].tok) = req[p].fam /\ req[p].tok # k
    BY <1>3 DEF LineageInv, Rotated, At, RequestKnowledge, Knows, KnowsLineage, Rotatable, Free
  <2>2. sessions'[k] = NewRow(req[p].user, k, req[p].fam, req[p].tid)
    BY <1>0, <1>3, <2>1 DEF Rotated
  <2>3. Family(k)' = req[p].fam
    BY <2>1, <2>2 DEF NewRow, FreeRow, Family
  <2>4. ASSUME NEW s \in Ids, s # k, Live(s)' PROVE Live(s) /\ Family(s)' = Family(s)
    <3>1. s # req[p].tok => sessions'[s] = sessions[s]
      BY <1>0, <1>3, <2>4 DEF Rotated
    <3>2. sessions'[req[p].tok].state = "revoked"
      BY <1>0, <1>3, <2>1 DEF Rotated, Revoke, Session
    <3> QED BY <2>4, <3>1, <3>2 DEF Family
  <2> QED BY <2>1, <2>3, <2>4
<1> QED BY <1>1, <1>2, <1>3, StepEffect

\* The rows an UPDATE revokes were the live tokens of their families.
LEMMA UpdateEndsFamilies ==
  ASSUME LineageInv, [Next]_vars, NEW p \in Reqs, NEW kind, NEW why, Update(p, kind, why),
         NEW r \in req'[p].snap
  PROVE  /\ r \in Ids /\ sessions[r].state # "free"
         /\ \A s \in Ids : Live(s)' => Family(s)' # Family(r)'
<1> USE DEF TypeOK, Live
<1>0. sessions \in [Ids -> Session] /\ req \in [Reqs -> Request] /\ Monotone
  BY StepMonotone DEF LineageInv
<1>1. r \in Matching(req[p]) /\ r \in req[p].snap
  BY <1>0 DEF Update, IdleReq
<1>2. r \in Ids /\ Live(r)
  BY <1>1 DEF Matching, FamilyRows, UserRows, OtherRows
<1>3. \A s \in Ids : Live(s)' => Live(s) /\ s # r
  BY <1>0, <1>1, <1>2 DEF Update, Revoke, Session
<1>4. \A s \in Ids : Live(s)' => Family(s)' = Family(s)
  BY <1>0, <1>3 DEF Monotone
<1>5. Family(r)' = Family(r)
  BY <1>0, <1>2 DEF Monotone
<1> QED BY <1>2, <1>3, <1>4, <1>5 DEF LineageInv, OneLiveTokenPerFamily

\* The invariant about finished revocations is inductive.
LEMMA NextRevocation == RevocationInv /\ [Next]_vars => RevocationInv'
<1> SUFFICES ASSUME RevocationInv, [Next]_vars PROVE RevocationInv'
  OBVIOUS
<1>0. LineageInv /\ LineageInv' /\ Monotone
  BY NextLineage, StepMonotone DEF RevocationInv
<1>1. ASSUME NEW p \in Reqs, req'[p].pc = "done", NEW r \in req'[p].snap
      PROVE  /\ sessions'[r].state # "free"
             /\ \A s \in Ids : Live(s)' => Family(s)' # Family(r)'
  <2>1. CASE req'[p] = req[p]
    <3>1. r \in Ids /\ sessions[r].state # "free" /\ \A s \in Ids : Live(s) => Family(s) # Family(r)
      BY <1>0, <1>1, <2>1
         DEF RevocationInv, RevokedRowsAreMinted, RevocationEndsFamilies, LineageInv, TypeOK, Request, At
    <3>2. sessions[Family(r)].state # "free" /\ Family(r) \in Ids
      BY <1>0, <3>1, IdsAssumption DEF LineageInv, LineageIsMinted, Family, TypeOK, Session
    <3>3. \A s \in Ids : Live(s)' => Family(s)' # Family(r)
      BY <1>0, <3>1, <3>2, DeadFamiliesStayDead
    <3>4. sessions'[r].state # "free" /\ Family(r)' = Family(r)
      BY <1>0, <3>1 DEF Monotone
    <3> QED BY <3>3, <3>4
  <2>2. CASE \E kind, why : Update(p, kind, why)
    <3>1. /\ r \in Ids /\ sessions[r].state # "free"
          /\ \A s \in Ids : Live(s)' => Family(s)' # Family(r)'
      BY <1>0, <1>1, <2>2, UpdateEndsFamilies
    <3> QED BY <1>0, <3>1 DEF Monotone
  <2> QED BY <1>0, <1>1, <2>1, <2>2, DoneAfterUpdate
<1>2. RevokedRowsAreMinted'
  BY <1>1 DEF RevokedRowsAreMinted, At
<1>3. RevocationEndsFamilies'
  BY <1>1 DEF RevocationEndsFamilies, At
<1> QED BY <1>0, <1>2, <1>3 DEF RevocationInv

\* Once a logout, a password reset or change, or a detected reuse has answered, no usable
\* token descends from a row that its UPDATE revoked, whatever refreshes were in flight.
THEOREM RevocationEndsFamiliesHolds == Spec => []RevocationEndsFamilies
<1>1. ASSUME Init PROVE RevocationInv
  <2>1. \A p \in Reqs : ~At(p, "done")
    BY <1>1 DEF Init, IdleReq, At
  <2> QED BY <1>1, <2>1, InitLineage DEF RevocationInv, RevokedRowsAreMinted, RevocationEndsFamilies
<1>2. RevocationInv => RevocationEndsFamilies
  BY DEF RevocationInv
<1> QED BY <1>1, <1>2, NextRevocation, PTL DEF Spec

-----------------------------------------------------------------------------
(* Revocation is final.                                                    *)

\* What one step may do to a revoked or deleted row.
FinalRow(old, new) ==
  /\ old.state = "deleted" => new.state = "deleted"
  /\ old.state = "revoked" =>
       /\ new.state \in {"revoked", "deleted"}
       /\ new.state = "revoked" /\ new.reason # old.reason =>
            old.reason \in ReuseReasons /\ new.reason = "reuse_detected"

Final == \A s \in Ids : FinalRow(sessions[s], sessions'[s])

\* A refresh that read a revoked row is about a row that is still revoked or gone, and
\* when the reason it read was one of a reuse, the stored reason still is.
ReadRevoked(p) ==
  /\ req[p].pc = "mark" => req[p].seen = "revoked" /\ req[p].why \in ReuseReasons
  /\ req[p].pc \in {"backfill", "decide", "mark"} /\ req[p].seen = "revoked" =>
       /\ sessions[req[p].tok].state \in {"revoked", "deleted"}
       /\ sessions[req[p].tok].state = "revoked" /\ req[p].why \in ReuseReasons =>
            sessions[req[p].tok].reason \in ReuseReasons

FinalInv == LineageInv /\ \A p \in Reqs : ReadRevoked(p)

\* The rewrites of a row that the statements make never undo its revocation.
LEMMA FinalRows ==
  ASSUME NEW row \in Session, NEW s \in Ids
  PROVE  /\ FinalRow(row, row)
         /\ \A why : row.state = "active" => FinalRow(row, Revoke(row, why))
         /\ FinalRow(row, Deleted(row))
         /\ FinalRow(row, [row EXCEPT !.expired = TRUE])
         /\ FinalRow(row, [row EXCEPT !.tokenID = s, !.familyID = s])
         /\ row.reason \in ReuseReasons \/ row.state # "revoked" =>
              FinalRow(row, [row EXCEPT !.reuse = TRUE, !.reason = "reuse_detected"])
BY DEF FinalRow, Revoke, Deleted, FreeRow, Session

\* No statement, however stale what its request has read, brings a revoked row back or
\* rewrites its reason other than from a reuse to reuse_detected.
LEMMA StepFinal ==
  ASSUME FinalInv, [Next]_vars
  PROVE  Final
<1> USE DEF TypeOK
<1>0. /\ TypeOK
      /\ \A s \in Ids : sessions[s] \in Session
      /\ \A p \in Reqs : Knows(p) /\ ReadRevoked(p)
  BY DEF FinalInv, LineageInv, RequestKnowledge
<1>1. ASSUME UNCHANGED sessions PROVE Final
  BY <1>0, <1>1, FinalRows DEF Final
<1>2. ASSUME NEW u \in Users, Issue(u) PROVE Final
  BY <1>0, <1>2, FinalRows DEF Issue, Final, Free, FinalRow
<1>3. ASSUME NEW p \in Reqs, UpdateTokenLineageByHash(p) PROVE Final
  BY <1>0, <1>3, FinalRows DEF UpdateTokenLineageByHash, Final
<1>4. ASSUME NEW p \in Reqs, MarkReuseDetectedByHash(p) PROVE Final
  <2>1. /\ req[p].tok \in Ids
        /\ sessions[req[p].tok].reason \in ReuseReasons \/ sessions[req[p].tok].state # "revoked"
    BY <1>0, <1>4 DEF MarkReuseDetectedByHash, At, Knows, ReadRevoked
  <2>2. ASSUME NEW s \in Ids PROVE FinalRow(sessions[s], sessions'[s])
    <3>1. \/ sessions'[s] = sessions[s]
          \/ /\ s = req[p].tok
             /\ sessions'[s] = [sessions[s] EXCEPT !.reuse = TRUE, !.reason = "reuse_detected"]
      BY <1>0, <1>4, <2>1 DEF MarkReuseDetectedByHash
    <3> QED BY <1>0, <2>1, <3>1, FinalRows
  <2> QED BY <2>2 DEF Final
<1>5. ASSUME NEW p \in Reqs, RevokeByIDForUser(p) PROVE Final
  BY <1>0, <1>5, FinalRows DEF RevokeByIDForUser, Final
<1>6. ASSUME NEW p \in Reqs, NEW kind, NEW why, Update(p, kind, why) PROVE Final
  <2>1. \A s \in Matching(req[p]) : s \in Ids /\ sessions[s].state = "active"
    BY DEF Matching, FamilyRows, UserRows, OtherRows, Live
  <2> QED BY <1>0, <1>6, <2>1, FinalRows DEF Update, Final
<1>7. ASSUME NEW r \in Ids, Expire(r) PROVE Final
  BY <1>0, <1>7, FinalRows DEF Expire, Final
<1>8. ASSUME CleanupExpired PROVE Final
  BY <1>0, <1>8, FinalRows DEF CleanupExpired, Final
<1>9. ASSUME NEW p \in Reqs, RotateSession(p) PROVE Final
  <2>1. CASE UNCHANGED sessions
    BY <1>1, <2>1
  <2>2. CASE \E k \in Ids : Rotated(p, k)
    <3>1. PICK k \in Ids : Rotated(p, k)
      BY <2>2
    <3>2. ASSUME NEW s \in Ids, sessions[s].state \notin {"free", "active"}
          PROVE  sessions'[s] = sessions[s]
      BY <1>0, <3>1, <3>2 DEF Rotated, Rotatable, Live, Free
    <3> QED BY <3>2 DEF Final, FinalRow
  <2> QED BY <1>9, <2>1, <2>2 DEF RotateSession, Rotated, Free
<1>10. ASSUME NEW p \in Reqs, Arrive(p) PROVE Final
  BY <1>1, <1>10 DEF Arrive, FindByHash, StartRevokeAll, FindByIDForUser, ResolveCurrentSessionID
<1>11. ASSUME NEW p \in Reqs, Decide(p) \/ TakeSnapshot(p) \/ RequestFails(p) PROVE Final
  BY <1>1, <1>11 DEF Decide, TakeSnapshot, RequestFails
<1> QED
  BY <1>1, <1>2, <1>3, <1>4, <1>5, <1>6, <1>7, <1>8, <1>9, <1>10, <1>11
     DEF Next, Step, Refresh, RevokeByFamilyID, RevokeByUserID, RevokeOthersByUser, vars

\* A request that waits to decide on or to mark a row has just read the row, or knew what
\* it knows before the step.
LEMMA StepRead ==
  ASSUME LineageInv, [Next]_vars, NEW p \in Reqs
  PROVE  \/ req'[p].pc \notin {"backfill", "decide", "mark"}
         \/ \E r \in Ids : FindByHash(p, r)
         \/ /\ req[p].pc \in {"backfill", "decide", "mark"}
            /\ req'[p].tok = req[p].tok /\ req'[p].seen = req[p].seen /\ req'[p].why = req[p].why
            /\ req'[p].pc = "mark" =>
                 req[p].pc = "mark" \/ (req[p].seen = "revoked" /\ req[p].why \in ReuseReasons)
<1> DEFINE Goal ==
      \/ req'[p].pc \notin {"backfill", "decide", "mark"}
      \/ \E r \in Ids : FindByHash(p, r)
      \/ /\ req[p].pc \in {"backfill", "decide", "mark"}
         /\ req'[p].tok = req[p].tok /\ req'[p].seen = req[p].seen /\ req'[p].why = req[p].why
         /\ req'[p].pc = "mark" =>
              req[p].pc = "mark" \/ (req[p].seen = "revoked" /\ req[p].why \in ReuseReasons)
<1>0. req \in [Reqs -> Request] /\ req[p] \in Request
  BY DEF LineageInv, TypeOK
<1>1. ASSUME req'[p] = req[p] PROVE Goal
  BY <1>1
<1>2. ASSUME NEW q \in Reqs, q # p, Arrive(q) \/ Step(q) \/ RequestFails(q)
      PROVE  req'[p] = req[p]
  BY <1>0, <1>2
     DEF Arrive, Step, Refresh, RequestFails, FindByHash, StartRevokeAll, FindByIDForUser,
         ResolveCurrentSessionID, UpdateTokenLineageByHash, Decide, MarkReuseDetectedByHash,
         RotateSession, RevokeByIDForUser, TakeSnapshot, RevokeByFamilyID, RevokeByUserID,
         RevokeOthersByUser, Update, Begin, Goto, Finish
<1>3. ASSUME Arrive(p) PROVE Goal
  <2>1. CASE \E r \in Ids : FindByHash(p, r)
    BY <2>1
  <2>2. CASE \E u \in Users, why \in RevokeAllReasons : StartRevokeAll(p, u, why)
    BY <1>0, <2>2 DEF StartRevokeAll, Begin, IdleReq
  <2>3. CASE \E u \in Users, r \in Ids : FindByIDForUser(p, u, r)
    BY <1>0, <2>3 DEF FindByIDForUser, Begin, IdleReq
  <2>4. CASE \E u \in Users, jti \in Ids, cookie \in Ids \cup {Nil} :
               ResolveCurrentSessionID(p, u, jti, cookie)
    BY <1>0, <2>4 DEF ResolveCurrentSessionID, Begin, IdleReq
  <2> QED BY <1>3, <2>1, <2>2, <2>3, <2>4 DEF Arrive
<1>4. ASSUME RequestFails(p) \/ RevokeByIDForUser(p) \/ RotateSession(p) PROVE Goal
  <2>1. req' = [req EXCEPT ![p] = IdleReq]
    BY <1>4 DEF RequestFails, RevokeByIDForUser, RotateSession, Finish
  <2> QED BY <1>0, <2>1 DEF IdleReq
<1>5. ASSUME TakeSnapshot(p) \/ MarkReuseDetectedByHash(p) PROVE Goal
  BY <1>0, <1>5 DEF TakeSnapshot, MarkReuseDetectedByHash, Goto, Request
<1>6. ASSUME NEW kind, NEW why, Update(p, kind, why) PROVE Goal
  BY <1>0, <1>6 DEF Update, IdleReq
<1>7. ASSUME UpdateTokenLineageByHash(p) PROVE Goal
  BY <1>0, <1>7 DEF UpdateTokenLineageByHash, At, Request
<1>8. ASSUME Decide(p) PROVE Goal
  <2>1. CASE Finish(p)
    BY <1>0, <2>1 DEF Finish, IdleReq
  <2>2. CASE Goto(p, "mark") /\ req[p].seen = "revoked" /\ req[p].why \in ReuseReasons
    BY <1>0, <1>8, <2>2 DEF Goto, Decide, At, Request
  <2>3. CASE Goto(p, "rotate")
    BY <1>0, <2>3 DEF Goto, Request
  <2> QED BY <1>8, <2>1, <2>2, <2>3 DEF Decide
<1>9. ASSUME (\E u \in Users : Issue(u)) \/ CleanupExpired \/ (\E r \in Ids : Expire(r))
               \/ UNCHANGED vars
      PROVE  Goal
  BY <1>1, <1>9 DEF Issue, CleanupExpired, Expire, vars
<1> HIDE DEF Goal
<1>10. Goal
  BY <1>1, <1>2, <1>3, <1>4, <1>5, <1>6, <1>7, <1>8, <1>9
     DEF Next, Step, Refresh, RevokeByFamilyID, RevokeByUserID, RevokeOthersByUser
<1> QED BY <1>10 DEF Goal

\* What a refresh has read about a revoked row stays true until it uses it.
LEMMA NextFinal == FinalInv /\ [Next]_vars => FinalInv'
<1> SUFFICES ASSUME FinalInv, [Next]_vars PROVE FinalInv'
  OBVIOUS
<1>0. LineageInv /\ LineageInv' /\ Final
  BY NextLineage, StepFinal DEF FinalInv
<1>1. ASSUME NEW p \in Reqs PROVE ReadRevoked(p)'
  <2>1. CASE req'[p].pc \notin {"backfill", "decide", "mark"}
    BY <2>1 DEF ReadRevoked
  <2>2. CASE \E r \in Ids : FindByHash(p, r)
    <3>1. PICK r \in Ids : FindByHash(p, r)
      BY <2>2
    <3>2. /\ sessions' = sessions
          /\ req'[p].pc \in {"backfill", "decide"} /\ req'[p].tok = r
          /\ req'[p].seen = sessions[r].state /\ req'[p].why = sessions[r].reason
      BY <1>0, <3>1 DEF FindByHash, Begin, IdleReq, LineageInv, TypeOK
    <3> QED BY <3>2 DEF ReadRevoked
  <2>3. CASE /\ req[p].pc \in {"backfill", "decide", "mark"}
             /\ req'[p].tok = req[p].tok /\ req'[p].seen = req[p].seen /\ req'[p].why = req[p].why
             /\ req'[p].pc = "mark" =>
                  req[p].pc = "mark" \/ (req[p].seen = "revoked" /\ req[p].why \in ReuseReasons)
    <3>1. ReadRevoked(p) /\ req[p].tok \in Ids
      BY <1>0, <2>3 DEF FinalInv, LineageInv, RequestKnowledge, Knows
    <3>2. FinalRow(sessions[req[p].tok], sessions'[req[p].tok])
      BY <1>0, <3>1 DEF Final
    <3> QED BY <2>3, <3>1, <3>2 DEF ReadRevoked, FinalRow, ReuseReasons
  <2> QED BY <1>0, <2>1, <2>2, <2>3, StepRead
<1> QED BY <1>0, <1>1 DEF FinalInv

\* Theorem: no interleaving of requests makes a revoked token usable again, and no late
\* MarkReuseDetectedByHash masks the reason of a logout (MarkReuseDetectedByHash's UPDATE
\* has no guard on the stored reason; what Rotate read earlier has to be enough).
THEOREM RevocationIsFinalHolds == Spec => RevocationIsFinal
<1>1. ASSUME Init PROVE FinalInv
  <2>1. \A p \in Reqs : req[p].pc = "idle"
    BY <1>1 DEF Init, IdleReq
  <2> QED BY <1>1, <2>1, InitLineage DEF FinalInv, ReadRevoked
<1>2. FinalInv /\ [Next]_vars =>
        [\A s \in Ids : sessions[s].state = "revoked" =>
           /\ sessions'[s].state \in {"revoked", "deleted"}
           /\ sessions'[s].state = "revoked" /\ sessions'[s].reason # sessions[s].reason =>
                sessions[s].reason \in ReuseReasons /\ sessions'[s].reason = "reuse_detected"]_vars
  BY StepFinal DEF Final, FinalRow
<1> QED BY <1>1, <1>2, NextFinal, PTL DEF Spec, RevocationIsFinal

-----------------------------------------------------------------------------
(* The table and its requests implement TokenFamilies.                     *)

Used == {s \in Ids : sessions[s].state # "free"}
LiveTokens == [f \in Ids |-> {s \in Ids : Live(s) /\ Family(s) = f}]

\* The legacy rows are a legal start: every one is the head of a family of its own.
LEMMA InitFamilies == Init => Families!Init
<1> SUFFICES ASSUME Init PROVE Families!Init
  OBVIOUS
<1>1. PICK old \in [LegacyIds -> Users \X {"active", "revoked"}] :
        sessions = [k \in Ids |->
          IF k \in LegacyIds
            THEN [FreeRow EXCEPT !.user = old[k][1], !.state = old[k][2]]
            ELSE FreeRow]
  BY DEF Init
<1> DEFINE alive == {k \in LegacyIds : old[k][2] = "active"}
<1>2. ASSUME NEW k \in Ids
      PROVE  /\ sessions[k].state # "free" <=> k \in LegacyIds
             /\ Live(k) <=> k \in alive
             /\ Family(k) = k
  BY <1>1, IdsAssumption DEF FreeRow, Live, Family
<1>3. Used = LegacyIds
  BY <1>2, IdsAssumption DEF Used
<1>4. ASSUME NEW f \in Ids
      PROVE  {s \in Ids : Live(s) /\ Family(s) = f} = IF f \in alive THEN {f} ELSE {}
  BY <1>2
<1>5. alive \in SUBSET LegacyIds
  OBVIOUS
<1>6. LiveTokens = [f \in Ids |-> IF f \in alive THEN {f} ELSE {}]
  BY <1>4 DEF LiveTokens
<1> QED BY <1>3, <1>5, <1>6 DEF Families!Init, Used, LiveTokens

\* A family's live tokens are what LiveTokens says, before and after a step.
LEMMA LiveTokensAt ==
  ASSUME NEW f \in Ids, NEW s
  PROVE  /\ s \in LiveTokens[f] <=> s \in Ids /\ Live(s) /\ Family(s) = f
         /\ s \in LiveTokens'[f] <=> s \in Ids /\ Live(s)' /\ Family(s)' = f
BY DEF LiveTokens

\* A step that mints nothing ends families: one whose token died has no token left.
LEMMA QuietEnds ==
  ASSUME LineageInv, Quiet
  PROVE  Families!End
<1> DEFINE ended == {f \in Ids : LiveTokens'[f] # LiveTokens[f]}
<1>1. ASSUME NEW s \in Ids
      PROVE  /\ sessions'[s].state # "free" <=> sessions[s].state # "free"
             /\ Live(s)' => Live(s)
             /\ Family(s)' = Family(s)
  BY DEF Quiet, QuietRow, FamilyOf, Family, Live
<1>2. Used' = Used
  BY <1>1 DEF Used
<1>3. ASSUME NEW f \in ended PROVE LiveTokens'[f] = {}
  <2>1. PICK s : s \in LiveTokens[f] /\ s \notin LiveTokens'[f]
    BY <1>1, LiveTokensAt
  <2>2. ASSUME NEW t \in LiveTokens'[f] PROVE FALSE
    <3>1. t \in Ids /\ Live(t) /\ Family(t) = f /\ s \in Ids /\ Live(s) /\ Family(s) = f
      BY <1>1, <2>1, LiveTokensAt
    <3>2. t = s
      BY <3>1 DEF LineageInv, OneLiveTokenPerFamily
    <3> QED BY <2>1, <3>2
  <2> QED BY <2>2
<1>4. LiveTokens' = [f \in Ids |-> LiveTokens'[f]]
  BY DEF LiveTokens
<1>5. LiveTokens' = [f \in Ids |-> IF f \in ended THEN {} ELSE LiveTokens[f]]
  BY <1>3, <1>4
<1>6. ended \in SUBSET Ids
  OBVIOUS
<1>7. \E e \in SUBSET Ids : LiveTokens' = [f \in Ids |-> IF f \in e THEN {} ELSE LiveTokens[f]]
  BY <1>5, <1>6
<1> QED BY <1>2, <1>7 DEF Families!End, Used, LiveTokens

\* Issue opens the family named after the token it mints.
LEMMA IssueOpens ==
  ASSUME LineageInv, NEW u \in Users, NEW k \in Ids, Opened(u, k)
  PROVE  Families!Open(k)
<1>0. sessions \in [Ids -> Session]
  BY DEF LineageInv, TypeOK
<1>1. /\ sessions[k].state = "free" /\ sessions'[k].state = "active"
      /\ sessions'[k].familyID = k
      /\ \A s \in Ids \ {k} : sessions'[s] = sessions[s]
  BY <1>0 DEF Opened, Free, NewRow, FreeRow
<1>2. Used' = Used \cup {k} /\ k \notin Used
  BY <1>1 DEF Used
<1>3. \A s \in Ids : Live(s) => Family(s) # k
  BY <1>1, IdsAssumption DEF LineageInv, LineageIsMinted, Live, Family, Session
<1>4. /\ Live(k)' /\ Family(k)' = k /\ ~Live(k)
      /\ \A s \in Ids \ {k} : (Live(s)' <=> Live(s)) /\ Family(s)' = Family(s)
  BY <1>1, IdsAssumption DEF Live, Family
<1>5. ASSUME NEW f \in Ids PROVE LiveTokens'[f] = IF f = k THEN {k} ELSE LiveTokens[f]
  <2>1. ASSUME NEW s PROVE s \in LiveTokens'[f] <=> s \in IF f = k THEN {k} ELSE LiveTokens[f]
    <3>1. CASE s \in Ids \ {k}
      BY <1>3, <1>4, <3>1, LiveTokensAt
    <3>2. CASE s \notin Ids \ {k}
      BY <1>4, <3>2, LiveTokensAt
    <3> QED BY <3>1, <3>2
  <2> QED BY <2>1
<1>6. LiveTokens' = [LiveTokens EXCEPT ![k] = {k}]
  <2>1. LiveTokens' = [f \in Ids |-> LiveTokens'[f]] /\ LiveTokens = [f \in Ids |-> LiveTokens[f]]
    BY DEF LiveTokens
  <2> QED BY <1>5, <2>1
<1> QED BY <1>2, <1>6 DEF Families!Open, Used, LiveTokens

\* RotateSession hands a family's live token on to a fresh one.
LEMMA RotateAdvances ==
  ASSUME LineageInv, NEW p \in Reqs, NEW k \in Ids, Rotated(p, k)
  PROVE  \E f \in Ids : \E t \in LiveTokens[f] : Families!Advance(f, t, k)
<1> PICK old, fam : old = req[p].tok /\ fam = req[p].fam
  OBVIOUS
<1>0. sessions \in [Ids -> Session] /\ req[p] \in Request
  BY DEF LineageInv, TypeOK
<1>1. old \in Ids /\ fam \in Ids /\ Live(old) /\ Family(old) = fam /\ old # k
  BY <1>0 DEF LineageInv, Rotated, At, RequestKnowledge, Knows, KnowsLineage, Rotatable, Free,
              Live, Request
<1>2. /\ sessions[k].state = "free" /\ sessions'[k].state = "active"
      /\ sessions'[k].familyID = fam
      /\ sessions'[old].state = "revoked"
      /\ \A s \in Ids \ {k, old} : sessions'[s] = sessions[s]
  BY <1>0, <1>1 DEF Rotated, Free, NewRow, FreeRow, Revoke, Session
<1>3. Used' = Used \cup {k} /\ k \notin Used
  BY <1>1, <1>2 DEF Used, Live
<1>4. LiveTokens[fam] = {old}
  BY <1>1, LiveTokensAt DEF LineageInv, OneLiveTokenPerFamily
<1>5. /\ Live(k)' /\ Family(k)' = fam /\ ~Live(k) /\ ~Live(old)'
      /\ \A s \in Ids \ {k, old} : (Live(s)' <=> Live(s)) /\ Family(s)' = Family(s)
  BY <1>1, <1>2, IdsAssumption DEF Live, Family
<1>6. ASSUME NEW f \in Ids PROVE LiveTokens'[f] = IF f = fam THEN {k} ELSE LiveTokens[f]
  <2>1. ASSUME NEW s PROVE s \in LiveTokens'[f] <=> s \in IF f = fam THEN {k} ELSE LiveTokens[f]
    <3>1. CASE s \in Ids \ {k, old}
      BY <1>4, <1>5, <3>1, LiveTokensAt
    <3>2. CASE s = k \/ s = old
      BY <1>1, <1>5, <3>2, LiveTokensAt
    <3>3. CASE s \notin Ids
      BY <3>3, LiveTokensAt
    <3> QED BY <3>1, <3>2, <3>3
  <2> QED BY <2>1
<1>7. LiveTokens' = [LiveTokens EXCEPT ![fam] = {k}]
  <2>1. LiveTokens' = [f \in Ids |-> LiveTokens'[f]] /\ LiveTokens = [f \in Ids |-> LiveTokens[f]]
    BY DEF LiveTokens
  <2> QED BY <1>6, <2>1
<1>8. Families!Advance(fam, old, k)
  BY <1>3, <1>4, <1>7 DEF Families!Advance, Used, LiveTokens
<1> QED BY <1>1, <1>4, <1>8

\* Theorem: the sessions table under any interleaving of refreshes, revocations, expiry and
\* failures implements TokenFamilies: a login opens a family, a refresh trades its one live
\* token for a fresh one, and a family once ended stays ended.
THEOREM ImplementsFamiliesHolds == Spec => ImplementsFamilies
<1>1. LineageInv /\ [Next]_vars => [Families!Next]_<<Used, LiveTokens>>
  <2> SUFFICES ASSUME LineageInv, [Next]_vars PROVE Families!Next
    OBVIOUS
  <2>1. CASE Quiet
    BY <2>1, QuietEnds DEF Families!Next
  <2>2. ASSUME NEW u \in Users, NEW k \in Ids, Opened(u, k) PROVE Families!Next
    BY <2>2, IssueOpens DEF Families!Next
  <2>3. ASSUME NEW p \in Reqs, NEW k \in Ids, Rotated(p, k) PROVE Families!Next
    <3>1. PICK f \in Ids : \E old \in LiveTokens[f] : Families!Advance(f, old, k)
      BY <2>3, RotateAdvances
    <3> QED BY <3>1 DEF Families!Next, LiveTokens
  <2> QED BY <2>1, <2>2, <2>3, StepEffect
<1> QED BY <1>1, InitFamilies, LineageCorrect, PTL DEF Spec, ImplementsFamilies, Families!Spec, Used, LiveTokens

=============================================================================
