------------------------- MODULE CredentialsProofs -------------------------
(***************************************************************************)
(* Proofs about Credentials for any number of accounts, tokens, sessions   *)
(* and concurrent requests, with and without failures.                     *)
(***************************************************************************)
EXTENDS Credentials, TLAPS

-----------------------------------------------------------------------------
(* Types, and the shape of a request: which statements an operation has    *)
(* and which of its local variables are set.                               *)

Ops == {"none", "register", "login", "google", "verify", "forgot", "confirm", "reset", "change"}

Statements ==
  [none     |-> {"idle"},
   register |-> {"create_user", "role", "credential", "admin", "issue"},
   login    |-> {"issue"},
   google   |-> {"find_email", "create_user", "role", "link", "admin", "issue"},
   verify   |-> {"invalidate", "create_token", "done"},
   forgot   |-> {"invalidate", "create_token", "done"},
   confirm  |-> {"consume", "mark"},
   reset    |-> {"consume", "update", "revoke", "done"},
   change   |-> {"update", "revoke", "done"}]

\* The statements at which a request can begin.
FirstStatements ==
  {"find_email", "create_user", "admin", "issue", "invalidate", "consume", "update"}

RequestShape(q) ==
  /\ q.pc \in Statements[q.op]
  /\ q.op # "none" => q.email \in Emails
  /\ q.op \in {"register", "reset", "change"} => q.pw \in Passwords
  /\ q.op \in {"confirm", "reset"} => q.tok \in Tokens

TokenShape(t) == t.state # "free" => t.email \in Emails /\ t.purpose \in Purposes

SessionShape(s) ==
  /\ s.state # "free" => s.email \in Emails
  /\ s.state = "free" => s.via = "none"

Shapes ==
  /\ \A p \in Reqs : RequestShape(req[p])
  /\ \A t \in Tokens : TokenShape(token[t])
  /\ \A s \in SessionIds : SessionShape(session[s])

TypeInv == TypeOK /\ Shapes

\* What a request may be: in its type and of the shape of its operation.
GoodRequest(q) == q \in Request /\ RequestShape(q)

\* A request goes on at label with its local variables as they were.
Moved(old, new, label) ==
  /\ new.pc = label /\ new.op = old.op /\ new.email = old.email /\ new.pw = old.pw
  /\ new.tok = old.tok /\ new.before = old.before

\* The three ways in which a step changes its own request, and no other.
LEMMA RequestMoves ==
  ASSUME req \in [Reqs -> Request], NEW p \in Reqs
  PROVE  /\ \A label : Goto(p, label) =>
              /\ Moved(req[p], req'[p], label)
              /\ \A q \in Reqs \ {p} : req'[q] = req[q]
              /\ label \in {"role", "credential", "link", "admin", "issue", "create_user",
                            "create_token", "mark", "update", "done"} =>
                   req' \in [Reqs -> Request]
         /\ Finish(p) =>
              /\ req'[p] = IdleReq
              /\ \A q \in Reqs \ {p} : req'[q] = req[q]
              /\ req' \in [Reqs -> Request]
<1>1. ASSUME NEW label, Goto(p, label)
      PROVE  /\ Moved(req[p], req'[p], label)
             /\ \A q \in Reqs \ {p} : req'[q] = req[q]
  BY <1>1 DEF Goto, Moved, Request
<1>2. ASSUME NEW label, Goto(p, label),
             label \in {"role", "credential", "link", "admin", "issue", "create_user",
                        "create_token", "mark", "update", "done"}
      PROVE  req' \in [Reqs -> Request]
  BY <1>2 DEF Goto, Request
<1>3. ASSUME Finish(p)
      PROVE  /\ req'[p] = IdleReq
             /\ \A q \in Reqs \ {p} : req'[q] = req[q]
             /\ req' \in [Reqs -> Request]
  BY <1>3 DEF Finish, IdleReq, Request
<1> QED BY <1>1, <1>2, <1>3

\* The request that Begin records has the fields it is given.
LEMMA RequestBegins ==
  ASSUME req \in [Reqs -> Request], NEW p \in Reqs, NEW op \in Ops,
         NEW label \in FirstStatements,
         NEW e \in Emails \cup {Nil}, NEW w \in Passwords \cup {Nil}, NEW t \in Tokens \cup {Nil},
         NEW before \in SUBSET (Tokens \cup SessionIds),
         Begin(p, op, label, e, w, t, before)
  PROVE  /\ req' \in [Reqs -> Request]
         /\ req'[p].op = op /\ req'[p].pc = label /\ req'[p].email = e /\ req'[p].pw = w
         /\ req'[p].tok = t /\ req'[p].before = before
         /\ \A q \in Reqs \ {p} : req'[q] = req[q]
         /\ UNCHANGED <<requireVerified, account, token, session, applied, broken>>
<1>1. PICK new : new = [IdleReq EXCEPT !.op = op, !.pc = label, !.email = e,
                                       !.pw = w, !.tok = t, !.before = before]
  OBVIOUS
<1>2. /\ new.op = op /\ new.pc = label /\ new.email = e /\ new.pw = w
      /\ new.tok = t /\ new.before = before
  BY <1>1 DEF IdleReq
<1>3. new \in Request
  BY <1>1 DEF IdleReq, Request, Ops, FirstStatements
<1>4. req' = [req EXCEPT ![p] = new]
  BY <1>1 DEF Begin
<1>5. UNCHANGED <<requireVerified, account, token, session, applied, broken>>
  BY DEF Begin
<1> QED BY <1>2, <1>3, <1>4, <1>5

\* The program starts well typed, with no request in flight.
LEMMA InitTypeInv == Init => TypeInv
<1> SUFFICES ASSUME Init PROVE TypeInv
  OBVIOUS
<1> USE DEF Init
<1>1. account \in [Emails -> Account]
  BY DEF Account, NoAccount
<1>2. token \in [Tokens -> VerificationToken] /\ \A t \in Tokens : TokenShape(token[t])
  BY DEF VerificationToken, FreeToken, TokenShape
<1>3. session \in [SessionIds -> Session] /\ \A s \in SessionIds : SessionShape(session[s])
  BY DEF Session, FreeSession, SessionShape
<1>4. req \in [Reqs -> Request] /\ \A p \in Reqs : RequestShape(req[p])
  BY DEF Request, IdleReq, RequestShape, Statements
<1> QED BY <1>1, <1>2, <1>3, <1>4 DEF TypeInv, TypeOK, Shapes

\* Only the request that a step serves changes, up to the history variable late.
OthersSame(p) ==
  \A q \in Reqs \ {p} : Moved(req[q], req'[q], req[q].pc)

\* A request that arrives begins in the shape of its operation.
LEMMA ArriveType ==
  ASSUME TypeInv, NEW p \in Reqs, Arrive(p)
  PROVE  /\ req' \in [Reqs -> Request] /\ RequestShape(req'[p]) /\ req'[p].pc \in FirstStatements
         /\ \A q \in Reqs \ {p} : req'[q] = req[q]
         /\ UNCHANGED <<requireVerified, account, token, session, applied, broken>>
<1>0. /\ req \in [Reqs -> Request]
      /\ \A t \in Tokens : token[t].state = "active" =>
           token[t].email \in Emails /\ token[t].purpose \in Purposes
  BY DEF TypeInv, TypeOK, Shapes, TokenShape
<1> DEFINE Goal ==
      /\ req' \in [Reqs -> Request] /\ RequestShape(req'[p]) /\ req'[p].pc \in FirstStatements
      /\ \A q \in Reqs \ {p} : req'[q] = req[q]
      /\ UNCHANGED <<requireVerified, account, token, session, applied, broken>>
<1>01. ASSUME NEW op \in Ops, NEW e \in Emails, NEW w \in Passwords \cup {Nil},
              NEW t \in Tokens \cup {Nil}, NEW b \in SUBSET Tokens,
              NEW label \in FirstStatements,
              label \in Statements[op],
              op \in {"register", "reset", "change"} => w \in Passwords,
              op \in {"confirm", "reset"} => t \in Tokens,
              Begin(p, op, label, e, w, t, b)
      PROVE  Goal
  <2>1. b \in SUBSET (Tokens \cup SessionIds)
    OBVIOUS
  <2>2. /\ req' \in [Reqs -> Request]
        /\ req'[p].op = op /\ req'[p].pc = label /\ req'[p].email = e /\ req'[p].pw = w
        /\ req'[p].tok = t
        /\ \A q \in Reqs \ {p} : req'[q] = req[q]
        /\ UNCHANGED <<requireVerified, account, token, session, applied, broken>>
    BY <1>0, <1>01, <2>1, RequestBegins
  <2> QED BY <1>01, <2>2 DEF RequestShape
<1> HIDE DEF Goal
<1> USE DEF Statements, Ops, FirstStatements
<1>1. ASSUME NEW e \in Emails, NEW w \in Passwords, RegisterLocal(p, e, w) PROVE Goal
  <2>1. Begin(p, "register", "create_user", e, w, Nil, {})
    BY <1>1 DEF RegisterLocal
  <2> QED BY <1>01, <2>1
<1>2. ASSUME NEW e \in Emails, NEW w \in Passwords, ChangeLocalPassword(p, e, w) PROVE Goal
  <2>1. Begin(p, "change", "update", e, w, Nil, {})
    BY <1>2 DEF ChangeLocalPassword
  <2> QED BY <1>01, <2>1
<1>3. ASSUME NEW e \in Emails, LoginWithGoogleCode(p, e) PROVE Goal
  <2>1. \/ Begin(p, "google", "admin", e, Nil, Nil, {})
        \/ Begin(p, "google", "find_email", e, Nil, Nil, {})
    BY <1>3 DEF LoginWithGoogleCode
  <2> QED BY <1>01, <2>1
<1>4. ASSUME NEW e \in Emails, LoginWithLocalPassword(p, e) PROVE Goal
  <2>1. Begin(p, "login", "issue", e, Nil, Nil, {})
    BY <1>4 DEF LoginWithLocalPassword
  <2> QED BY <1>01, <2>1
<1>5. ASSUME NEW e \in Emails, RequestLocalEmailVerification(p, e) PROVE Goal
  <2>1. PICK b \in SUBSET Tokens : Begin(p, "verify", "invalidate", e, Nil, Nil, b)
    BY <1>5 DEF RequestLocalEmailVerification, ActiveTokens
  <2> QED BY <1>01, <2>1
<1>6. ASSUME NEW e \in Emails, ForgotLocalPassword(p, e) PROVE Goal
  <2>1. PICK b \in SUBSET Tokens : Begin(p, "forgot", "invalidate", e, Nil, Nil, b)
    BY <1>6 DEF ForgotLocalPassword, ActiveTokens
  <2> QED BY <1>01, <2>1
<1>7. ASSUME NEW t \in Tokens, ConfirmLocalEmailVerification(p, t) PROVE Goal
  <2>1. PICK e \in Emails : Begin(p, "confirm", "consume", e, Nil, t, {})
    BY <1>0, <1>7 DEF ConfirmLocalEmailVerification, Active
  <2> QED BY <1>01, <2>1
<1>8. ASSUME NEW t \in Tokens, NEW w \in Passwords, ResetLocalPassword(p, t, w) PROVE Goal
  <2>1. PICK e \in Emails : Begin(p, "reset", "consume", e, w, t, {})
    BY <1>0, <1>8 DEF ResetLocalPassword, Active
  <2> QED BY <1>01, <2>1
<1>9. Goal
  BY <1>1, <1>2, <1>3, <1>4, <1>5, <1>6, <1>7, <1>8 DEF Arrive
<1> QED BY <1>9 DEF Goal

\* Every statement of a request keeps the types and leaves a request of the same shape.
LEMMA StepType ==
  ASSUME TypeInv, NEW p \in Reqs, Step(p) \/ RequestFails(p)
  PROVE  TypeInv' /\ OthersSame(p)
<1>0. /\ req \in [Reqs -> Request] /\ req[p] \in Request /\ RequestShape(req[p])
      /\ requireVerified \in BOOLEAN
      /\ account \in [Emails -> Account]
      /\ token \in [Tokens -> VerificationToken]
      /\ session \in [SessionIds -> Session]
      /\ applied \in SUBSET Tokens /\ broken \in SUBSET Emails
      /\ \A q \in Reqs : RequestShape(req[q])
      /\ \A t \in Tokens : TokenShape(token[t])
      /\ \A s \in SessionIds : SessionShape(session[s])
  BY DEF TypeInv, TypeOK, Shapes
<1> DEFINE Reqs1 == /\ req' \in [Reqs -> Request]
                    /\ \A q \in Reqs : RequestShape(req'[q])
                    /\ OthersSame(p)
           Accounts1 == requireVerified' \in BOOLEAN /\ account' \in [Emails -> Account]
           Tokens1 == /\ token' \in [Tokens -> VerificationToken]
                      /\ \A t \in Tokens : TokenShape(token'[t])
           Sessions1 == /\ session' \in [SessionIds -> Session]
                        /\ \A s \in SessionIds : SessionShape(session'[s])
           History1 == applied' \in SUBSET Tokens /\ broken' \in SUBSET Emails
<1>1. ASSUME NEW label \in {"role", "credential", "link", "admin", "issue", "create_user",
                            "create_token", "mark", "update", "done"},
             Goto(p, label), label \in Statements[req[p].op]
      PROVE  Reqs1
  <2>1. /\ req' \in [Reqs -> Request] /\ Moved(req[p], req'[p], label)
        /\ \A q \in Reqs \ {p} : req'[q] = req[q]
    BY <1>0, <1>1, RequestMoves
  <2>2. RequestShape(req'[p])
    BY <1>0, <1>1, <2>1 DEF Moved, RequestShape
  <2> QED BY <1>0, <2>1, <2>2 DEF OthersSame, Moved
<1>2. ASSUME Finish(p) PROVE Reqs1
  <2>1. /\ req' \in [Reqs -> Request] /\ req'[p] = IdleReq
        /\ \A q \in Reqs \ {p} : req'[q] = req[q]
    BY <1>0, <1>2, RequestMoves
  <2>2. RequestShape(req'[p])
    BY <2>1 DEF IdleReq, RequestShape, Statements
  <2> QED BY <1>0, <2>1, <2>2 DEF OthersSame, Moved
<1>3. /\ UNCHANGED <<requireVerified, account>> => Accounts1
      /\ UNCHANGED token => Tokens1
      /\ UNCHANGED session => Sessions1
      /\ UNCHANGED <<applied, broken>> => History1
  BY <1>0
<1> DEFINE Goal == Reqs1 /\ Accounts1 /\ Tokens1 /\ Sessions1 /\ History1
<1> HIDE DEF Reqs1, Accounts1, Tokens1, Sessions1, History1
<1>4. ASSUME FindByEmail(p) PROVE Goal
  <2>1. req[p].op = "google"
    BY <1>0, <1>4 DEF FindByEmail, At, RequestShape, Request, Statements
  <2>2. Goto(p, "link") \/ Goto(p, "create_user")
    BY <1>4 DEF FindByEmail
  <2>3. Reqs1
    BY <1>1, <2>1, <2>2 DEF Statements
  <2> QED BY <1>3, <1>4, <2>3 DEF FindByEmail, RestUnchanged
<1>5. ASSUME CreateUser(p) PROVE Goal
  <2>1. req[p].op \in {"register", "google"} /\ req[p].email \in Emails
    BY <1>0, <1>5 DEF CreateUser, At, RequestShape, Request, Statements
  <2>2. Finish(p) \/ Goto(p, "role")
    BY <1>5 DEF CreateUser
  <2>3. Reqs1
    BY <1>1, <1>2, <2>1, <2>2 DEF Statements
  <2>4. Accounts1
    BY <1>0, <1>5, <2>1, ZenonT(60) DEF CreateUser, RestUnchanged, Account, Accounts1
  <2> QED BY <1>3, <1>5, <2>3, <2>4 DEF CreateUser, RestUnchanged
<1>6. ASSUME AddUserRole(p) PROVE Goal
  <2>1. req[p].op \in {"register", "google"} /\ req[p].email \in Emails
    BY <1>0, <1>6 DEF AddUserRole, At, RequestShape, Request, Statements
  <2>2. PICK label \in {"credential", "link"} : Goto(p, label) /\ label = AfterRole(req[p].op)
    BY <1>6 DEF AddUserRole, AfterRole
  <2>3. Reqs1
    BY <1>1, <2>1, <2>2 DEF Statements, AfterRole
  <2>4. Accounts1
    <3>1. \A a \in Account : [a EXCEPT !.roles = @ \cup {"user"}] \in Account
      BY DEF Account, Roles
    <3> QED BY <1>0, <1>6, <2>1, <3>1 DEF AddUserRole, RestUnchanged, Accounts1
  <2> QED BY <1>3, <1>6, <2>3, <2>4 DEF AddUserRole, RestUnchanged
<1>7. ASSUME CreateCredential(p) PROVE Goal
  <2>1. req[p].op = "register" /\ req[p].email \in Emails /\ req[p].pw \in Passwords
    BY <1>0, <1>7 DEF CreateCredential, At, RequestShape, Request, Statements
  <2>2. Reqs1
    BY <1>1, <1>7, <2>1 DEF Statements, CreateCredential
  <2>3. Accounts1
    <3>1. \A a \in Account :
            [a EXCEPT !.password = req[p].pw, !.verified = ~requireVerified] \in Account
      BY <1>0, <2>1 DEF Account
    <3> QED BY <1>0, <1>7, <2>1, <3>1 DEF CreateCredential, RestUnchanged, Accounts1
  <2> QED BY <1>3, <1>7, <2>2, <2>3 DEF CreateCredential, RestUnchanged
<1>8. ASSUME LinkGoogle(p) PROVE Goal
  <2>1. req[p].op = "google" /\ req[p].email \in Emails
    BY <1>0, <1>8 DEF LinkGoogle, At, RequestShape, Request, Statements
  <2>2. Finish(p) \/ Goto(p, "admin")
    BY <1>8 DEF LinkGoogle
  <2>3. Reqs1
    BY <1>1, <1>2, <2>1, <2>2 DEF Statements
  <2>4. Accounts1
    BY <1>0, <1>8, <2>1, ZenonT(60) DEF LinkGoogle, RestUnchanged, Account, Accounts1
  <2> QED BY <1>3, <1>8, <2>3, <2>4 DEF LinkGoogle, RestUnchanged
<1>9. ASSUME AssignBootstrapAdmin(p) PROVE Goal
  <2>1. req[p].op \in {"register", "google"} /\ req[p].email \in Emails
    BY <1>0, <1>9 DEF AssignBootstrapAdmin, At, RequestShape, Request, Statements
  <2>2. Finish(p) \/ Goto(p, "issue")
    BY <1>9 DEF AssignBootstrapAdmin, AfterAdmin
  <2>3. Reqs1
    BY <1>1, <1>2, <2>1, <2>2 DEF Statements
  <2>4. Accounts1
    <3>1. \A a \in Account : [a EXCEPT !.roles = @ \cup {"admin"}] \in Account
      BY DEF Account, Roles
    <3>2. \A a \in Account : [a EXCEPT !.roles = @] \in Account
      BY DEF Account
    <3> QED BY <1>0, <1>9, <2>1, <3>1, <3>2 DEF AssignBootstrapAdmin, RestUnchanged, Accounts1
  <2> QED BY <1>3, <1>9, <2>3, <2>4 DEF AssignBootstrapAdmin, RestUnchanged
<1>10. ASSUME Issue(p) PROVE Goal
  <2>1. req[p].email \in Emails /\ req[p].late \in BOOLEAN
    BY <1>0, <1>10 DEF Issue, At, RequestShape, Request, Statements
  <2>2. Sessions1
    BY <1>0, <1>10, <2>1 DEF Issue, Session, SessionShape, Sessions1
  <2>3. Reqs1
    BY <1>2, <1>10 DEF Issue
  <2> QED BY <1>3, <1>10, <2>2, <2>3 DEF Issue, RestUnchanged
<1>11. ASSUME InvalidateActiveByUserPurpose(p) PROVE Goal
  <2>1. req[p].op \in {"verify", "forgot"}
    BY <1>0, <1>11 DEF InvalidateActiveByUserPurpose, At, RequestShape, Request, Statements
  <2>2. Reqs1
    BY <1>1, <1>11, <2>1 DEF InvalidateActiveByUserPurpose, Statements
  <2>3. \A t \in Tokens : \/ token'[t] = token[t]
                          \/ /\ t \in ActiveTokens(req[p].email, PurposeOf(req[p].op))
                             /\ token'[t] = [token[t] EXCEPT !.state = "used"]
    BY <1>0, <1>11 DEF InvalidateActiveByUserPurpose
  <2>4. Tokens1
    <3>1. \A t \in Tokens : token'[t] \in VerificationToken /\ TokenShape(token'[t])
      BY <1>0, <2>3, ZenonT(60) DEF VerificationToken, TokenShape, ActiveTokens, Active
    <3>2. token' = [t \in Tokens |-> token'[t]]
      BY <1>11 DEF InvalidateActiveByUserPurpose
    <3> QED BY <3>1, <3>2 DEF Tokens1
  <2> QED BY <1>3, <1>11, <2>2, <2>4 DEF InvalidateActiveByUserPurpose, RestUnchanged
<1>12. ASSUME CreateToken(p) PROVE Goal
  <2>1. req[p].op \in {"verify", "forgot"} /\ req[p].email \in Emails
    BY <1>0, <1>12, SMTT(30) DEF CreateToken, At, RequestShape, Request, Statements
  <2>2. Reqs1
    BY <1>1, <1>12, <2>1 DEF CreateToken, Statements
  <2>3. Tokens1
    BY <1>0, <1>12, <2>1 DEF CreateToken, VerificationToken, TokenShape, PurposeOf, Purposes, Tokens1
  <2> QED BY <1>3, <1>12, <2>2, <2>3 DEF CreateToken, RestUnchanged
<1>13. ASSUME Consume(p) PROVE Goal
  <2>1. req[p].op \in {"confirm", "reset"} /\ req[p].tok \in Tokens
    BY <1>0, <1>13 DEF Consume, At, RequestShape, Request, Statements
  <2>2. \/ Finish(p)
        \/ Goto(p, "mark") /\ req[p].op = "confirm"
        \/ Goto(p, "update") /\ req[p].op = "reset"
    BY <1>13, <2>1 DEF Consume
  <2>3. Reqs1
    BY <1>1, <1>2, <2>2 DEF Statements
  <2>4. Tokens1
    BY <1>0, <1>13, <2>1 DEF Consume, Consumable, VerificationToken, TokenShape, Tokens1
  <2> QED BY <1>3, <1>13, <2>3, <2>4 DEF Consume, RestUnchanged
<1>14. ASSUME MarkEmailVerified(p) PROVE Goal
  <2>1. req[p].email \in Emails /\ req[p].tok \in Tokens
    BY <1>0, <1>14 DEF MarkEmailVerified, At, RequestShape, Request, Statements
  <2>2. Reqs1
    BY <1>2, <1>14 DEF MarkEmailVerified
  <2>3. Accounts1
    BY <1>0, <1>14, <2>1 DEF MarkEmailVerified, Account, Accounts1
  <2>4. History1
    BY <1>0, <1>14, <2>1 DEF MarkEmailVerified, History1
  <2> QED BY <1>3, <1>14, <2>2, <2>3, <2>4 DEF MarkEmailVerified
<1>15. ASSUME UpdatePassword(p) PROVE Goal
  <2>1. /\ req[p].op \in {"reset", "change"} /\ req[p].email \in Emails /\ req[p].pw \in Passwords
        /\ req[p].op = "reset" => req[p].tok \in Tokens
    <3>1. req[p].pc = "update"
      BY <1>15 DEF UpdatePassword, At
    <3> QED BY <1>0, <3>1 DEF RequestShape, Request, Statements
  <2>2. LiveSessions(req[p].email) \in SUBSET (Tokens \cup SessionIds)
    BY DEF LiveSessions
  <2>3. /\ Moved(req[p], [req'[p] EXCEPT !.before = req[p].before], "revoke")
        /\ req'[p] \in Request
    BY <1>0, <1>15, <2>2 DEF UpdatePassword, Moved, Request
  <2>4. ASSUME NEW q \in Reqs \ {p}
        PROVE  Moved(req[q], req'[q], req[q].pc) /\ req'[q] \in Request
    BY <1>0, <1>15 DEF UpdatePassword, Moved, Request
  <2>5. RequestShape(req'[p])
    BY <2>1, <2>3 DEF Moved, RequestShape, Statements, Request
  <2>6. \A q \in Reqs \ {p} : RequestShape(req'[q])
    BY <1>0, <2>4 DEF Moved, RequestShape
  <2>7. Reqs1
    BY <1>15, <2>3, <2>4, <2>5, <2>6 DEF UpdatePassword, OthersSame, Reqs1
  <2>8. Accounts1
    BY <1>0, <1>15, <2>1 DEF UpdatePassword, Account, Accounts1
  <2>9. History1
    BY <1>0, <1>15, <2>1 DEF UpdatePassword, History1
  <2> QED BY <1>3, <1>15, <2>7, <2>8, <2>9 DEF UpdatePassword
<1>16. ASSUME RevokeAll(p) PROVE Goal
  <2>1. req[p].op \in {"reset", "change"}
    <3>1. req[p].pc = "revoke"
      BY <1>16 DEF RevokeAll, At
    <3> QED BY <1>0, <3>1 DEF RequestShape, Request, Statements
  <2>2. Reqs1
    BY <1>1, <1>16, <2>1 DEF RevokeAll, Statements
  <2>3. Sessions1
    BY <1>0, <1>16 DEF RevokeAll, LiveSessions, Session, SessionShape, Sessions1
  <2> QED BY <1>3, <1>16, <2>2, <2>3 DEF RevokeAll, RestUnchanged
<1>17. ASSUME RequestFails(p) PROVE Goal
  <2>1. Reqs1
    BY <1>2, <1>17 DEF RequestFails
  <2>2. req[p].op # "none" => req[p].email \in Emails
    BY <1>0 DEF RequestShape
  <2>3. req[p].pc \in {"role", "credential", "link"} => req[p].op # "none"
    BY <1>0 DEF RequestShape, Statements
  <2>4. History1
    BY <1>0, <1>17, <2>2, <2>3 DEF RequestFails, History1
  <2> QED BY <1>3, <1>17, <2>1, <2>4 DEF RequestFails
<1>18. Goal
  BY <1>4, <1>5, <1>6, <1>7, <1>8, <1>9, <1>10, <1>11, <1>12, <1>13, <1>14, <1>15, <1>16, <1>17
     DEF Step
<1> QED BY <1>18 DEF Reqs1, Accounts1, Tokens1, Sessions1, History1, TypeInv, TypeOK, Shapes

\* Every step keeps the types and the shapes.
LEMMA NextTypeInv == TypeInv /\ [Next]_vars => TypeInv'
<1> SUFFICES ASSUME TypeInv, [Next]_vars PROVE TypeInv'
  OBVIOUS
<1>1. CASE UNCHANGED vars
  BY <1>1 DEF TypeInv, TypeOK, Shapes, vars
<1>2. ASSUME NEW p \in Reqs, Arrive(p) PROVE TypeInv'
  <2>1. /\ req' \in [Reqs -> Request] /\ RequestShape(req'[p])
        /\ \A q \in Reqs \ {p} : req'[q] = req[q]
        /\ UNCHANGED <<requireVerified, account, token, session, applied, broken>>
    BY <1>2, ArriveType
  <2> QED BY <2>1 DEF TypeInv, TypeOK, Shapes
<1>3. ASSUME NEW p \in Reqs, Step(p) \/ RequestFails(p) PROVE TypeInv'
  BY <1>3, StepType
<1>4. ASSUME NEW t \in Tokens, ExpireToken(t) PROVE TypeInv'
  <2>1. token' \in [Tokens -> VerificationToken] /\ \A u \in Tokens : TokenShape(token'[u])
    BY <1>4 DEF ExpireToken, TypeInv, TypeOK, Shapes, VerificationToken, TokenShape
  <2> QED BY <1>4, <2>1 DEF ExpireToken, RestUnchanged, TypeInv, TypeOK, Shapes
<1> QED BY <1>1, <1>2, <1>3, <1>4 DEF Next

\* Theorem: every table and request keeps its type, and every request runs only the
\* statements of its operation.
THEOREM TypeCorrect == Spec => []TypeInv
BY InitTypeInv, NextTypeInv, PTL DEF Spec

-----------------------------------------------------------------------------
(* What no step undoes.                                                    *)

\* A token keeps its owner and purpose once created, and never becomes usable again.
TokensOnlyDie ==
  \A t \in Tokens : token[t].state # "free" =>
    /\ token'[t].state # "free"
    /\ token'[t].email = token[t].email /\ token'[t].purpose = token[t].purpose
    /\ ~Active(t) => ~Active(t)'
    /\ token[t].state = "used" => token'[t].state = "used"

\* A session keeps its owner once issued, and never comes back to life.
SessionsOnlyDie ==
  \A s \in SessionIds : session[s].state # "free" =>
    /\ session'[s].state # "free"
    /\ session'[s].email = session[s].email /\ session'[s].via = session[s].via
    /\ session[s].state # "live" => session'[s].state # "live"

\* Accounts, passwords and links to Google are never removed.
AccountsOnlyGrow ==
  \A e \in Emails :
    /\ account[e].exists => account'[e].exists
    /\ account[e].password # Nil => account'[e].password # Nil
    /\ account[e].google => account'[e].google
    /\ account[e].verified /\ account[e].password # Nil => account'[e].verified

Lasting ==
  /\ TokensOnlyDie
  /\ SessionsOnlyDie
  /\ AccountsOnlyGrow
  /\ requireVerified' = requireVerified
  /\ applied \subseteq applied' /\ broken \subseteq broken'

\* No statement undoes the death of a token or a session, or takes a credential away.
LEMMA StepLasting ==
  ASSUME TypeInv, [Next]_vars
  PROVE  Lasting
<1>0. /\ account \in [Emails -> Account]
      /\ token \in [Tokens -> VerificationToken]
      /\ session \in [SessionIds -> Session]
      /\ req \in [Reqs -> Request]
      /\ \A q \in Reqs : RequestShape(req[q])
  BY DEF TypeInv, TypeOK, Shapes
<1>1. /\ UNCHANGED account => AccountsOnlyGrow
      /\ UNCHANGED token => TokensOnlyDie
      /\ UNCHANGED session => SessionsOnlyDie
  BY DEF AccountsOnlyGrow, TokensOnlyDie, SessionsOnlyDie, Active
<1>2. ASSUME UNCHANGED vars PROVE Lasting
  BY <1>1, <1>2 DEF Lasting, vars
<1>3. ASSUME NEW p \in Reqs, Arrive(p) PROVE Lasting
  <2>1. UNCHANGED <<requireVerified, account, token, session, applied, broken>>
    BY <1>3, ArriveType
  <2> QED BY <1>1, <2>1 DEF Lasting
<1>4. ASSUME NEW p \in Reqs, FindByEmail(p) \/ RequestFails(p) PROVE Lasting
  BY <1>1, <1>4 DEF FindByEmail, RequestFails, RestUnchanged, Lasting
<1>5. ASSUME NEW p \in Reqs, CreateUser(p) \/ LinkGoogle(p) PROVE Lasting
  <2>1. AccountsOnlyGrow
    BY <1>0, <1>5 DEF CreateUser, LinkGoogle, AccountsOnlyGrow, Account
  <2> QED BY <1>1, <1>5, <2>1 DEF CreateUser, LinkGoogle, RestUnchanged, Lasting
<1>6. ASSUME NEW p \in Reqs, AddUserRole(p) \/ AssignBootstrapAdmin(p) PROVE Lasting
  <2>1. AccountsOnlyGrow
    <3>1. ASSUME NEW e \in Emails
          PROVE  /\ account'[e].exists = account[e].exists
                 /\ account'[e].password = account[e].password
                 /\ account'[e].google = account[e].google
                 /\ account'[e].verified = account[e].verified
      BY <1>0, <1>6 DEF AddUserRole, AssignBootstrapAdmin, Account
    <3> QED BY <3>1 DEF AccountsOnlyGrow
  <2> QED BY <1>1, <1>6, <2>1 DEF AddUserRole, AssignBootstrapAdmin, RestUnchanged, Lasting
<1>7. ASSUME NEW p \in Reqs, CreateCredential(p) PROVE Lasting
  <2>1. req[p].pw # Nil
    <3>1. req[p].pc = "credential" /\ req[p] \in Request /\ RequestShape(req[p])
      BY <1>0, <1>7 DEF CreateCredential, At
    <3> QED BY <3>1, NilAssumption DEF RequestShape, Request, Statements
  <2>2. AccountsOnlyGrow
    BY <1>0, <1>7, <2>1 DEF CreateCredential, HasPassword, AccountsOnlyGrow, Account
  <2> QED BY <1>1, <1>7, <2>2 DEF CreateCredential, RestUnchanged, Lasting
<1>8. ASSUME NEW p \in Reqs, Issue(p) PROVE Lasting
  <2>1. SessionsOnlyDie
    BY <1>0, <1>8 DEF Issue, SessionsOnlyDie
  <2> QED BY <1>1, <1>8, <2>1 DEF Issue, RestUnchanged, Lasting
<1>9. ASSUME NEW p \in Reqs, InvalidateActiveByUserPurpose(p) PROVE Lasting
  <2>1. \A t \in Tokens :
          token'[t] = token[t] \/ token'[t] = [token[t] EXCEPT !.state = "used"]
    BY <1>0, <1>9 DEF InvalidateActiveByUserPurpose
  <2>2. ASSUME NEW t \in Tokens
        PROVE  /\ token'[t].email = token[t].email /\ token'[t].purpose = token[t].purpose
               /\ token'[t].expired = token[t].expired
               /\ token'[t].state = token[t].state \/ token'[t].state = "used"
    <3>1. token[t] \in VerificationToken
      BY <1>0
    <3>2. CASE token'[t] = token[t]
      BY <3>2
    <3>3. CASE token'[t] = [token[t] EXCEPT !.state = "used"]
      BY <3>1, <3>3 DEF VerificationToken
    <3> QED BY <2>1, <3>2, <3>3
  <2>3. TokensOnlyDie
    BY <2>2 DEF TokensOnlyDie, Active
  <2> QED BY <1>1, <1>9, <2>3 DEF InvalidateActiveByUserPurpose, RestUnchanged, Lasting
<1>10. ASSUME NEW p \in Reqs, CreateToken(p) PROVE Lasting
  <2>1. TokensOnlyDie
    BY <1>0, <1>10 DEF CreateToken, TokensOnlyDie, Active
  <2> QED BY <1>1, <1>10, <2>1 DEF CreateToken, RestUnchanged, Lasting
<1>11. ASSUME NEW p \in Reqs, Consume(p) PROVE Lasting
  <2>1. TokensOnlyDie
    BY <1>0, <1>11 DEF Consume, TokensOnlyDie, Active, VerificationToken
  <2> QED BY <1>1, <1>11, <2>1 DEF Consume, RestUnchanged, Lasting
<1>12. ASSUME NEW p \in Reqs, MarkEmailVerified(p) PROVE Lasting
  <2>1. AccountsOnlyGrow
    BY <1>0, <1>12 DEF MarkEmailVerified, AccountsOnlyGrow, Account
  <2> QED BY <1>1, <1>12, <2>1 DEF MarkEmailVerified, Lasting
<1>13. ASSUME NEW p \in Reqs, UpdatePassword(p) PROVE Lasting
  <2>1. req[p].pw # Nil
    <3>1. req[p].pc = "update" /\ req[p] \in Request /\ RequestShape(req[p])
      BY <1>0, <1>13 DEF UpdatePassword, At
    <3> QED BY <3>1, NilAssumption DEF RequestShape, Request, Statements
  <2>2. AccountsOnlyGrow
    BY <1>0, <1>13, <2>1 DEF UpdatePassword, AccountsOnlyGrow, Account
  <2> QED BY <1>1, <1>13, <2>2 DEF UpdatePassword, Lasting
<1>14. ASSUME NEW p \in Reqs, RevokeAll(p) PROVE Lasting
  <2>1. \A s \in SessionIds :
          \/ session'[s] = session[s]
          \/ session[s].state = "live" /\ session'[s] = [session[s] EXCEPT !.state = "revoked"]
    BY <1>0, <1>14 DEF RevokeAll, LiveSessions
  <2>2. SessionsOnlyDie
    BY <1>0, <2>1 DEF SessionsOnlyDie, Session
  <2> QED BY <1>1, <1>14, <2>2 DEF RevokeAll, RestUnchanged, Lasting
<1>15. ASSUME NEW t \in Tokens, ExpireToken(t) PROVE Lasting
  <2>1. TokensOnlyDie
    BY <1>0, <1>15 DEF ExpireToken, TokensOnlyDie, Active, VerificationToken
  <2> QED BY <1>1, <1>15, <2>1 DEF ExpireToken, RestUnchanged, Lasting
<1> QED
  BY <1>2, <1>3, <1>4, <1>5, <1>6, <1>7, <1>8, <1>9, <1>10, <1>11, <1>12, <1>13, <1>14, <1>15
     DEF Next, Step

-----------------------------------------------------------------------------
(* What a request has to end is ended when it is answered.                 *)

\* The tokens a request for a new one found: it is about to invalidate them, or they are dead.
Superseded(p) ==
  \A t \in Tokens : t \in req[p].before =>
    /\ req[p].op \in {"verify", "forgot"}
    /\ token[t].state # "free"
    /\ req[p].pc = "invalidate" =>
         token[t].email = req[p].email /\ token[t].purpose = PurposeOf(req[p].op)
    /\ req[p].pc # "invalidate" => ~Active(t)

\* The sessions that were live when a password changed: they are about to be revoked, or dead.
Ended(p) ==
  \A s \in SessionIds : s \in req[p].before =>
    /\ req[p].op \in {"reset", "change"}
    /\ session[s].state # "free"
    /\ req[p].pc = "revoke" => session[s].email = req[p].email
    /\ req[p].pc # "revoke" => session[s].state # "live"

EndInv == TypeInv /\ \A p \in Reqs : Superseded(p) /\ Ended(p)

\* How a statement changes the request it belongs to.
LEMMA OwnRequest ==
  ASSUME TypeInv, NEW p \in Reqs, Step(p) \/ RequestFails(p)
  PROVE  \/ req'[p] = IdleReq
         \/ /\ req[p].pc \notin {"invalidate", "revoke"}
            /\ \E label : label \notin {"invalidate", "revoke"} /\ Moved(req[p], req'[p], label)
         \/ InvalidateActiveByUserPurpose(p) /\ Moved(req[p], req'[p], "create_token")
         \/ RevokeAll(p) /\ Moved(req[p], req'[p], "done")
         \/ UpdatePassword(p)
<1>0. req \in [Reqs -> Request]
  BY DEF TypeInv, TypeOK
<1>1. Finish(p) => req'[p] = IdleReq
  BY <1>0, RequestMoves
<1>2. \A label : Goto(p, label) => Moved(req[p], req'[p], label)
  BY <1>0, RequestMoves
<1> DEFINE Onward == /\ req[p].pc \notin {"invalidate", "revoke"}
                     /\ \E label : label \notin {"invalidate", "revoke"} /\ Goto(p, label)
<1>3. ASSUME FindByEmail(p) \/ CreateUser(p) \/ LinkGoogle(p) PROVE Onward \/ Finish(p)
  BY <1>3 DEF FindByEmail, CreateUser, LinkGoogle, At
<1>4. ASSUME AddUserRole(p) \/ CreateCredential(p) \/ AssignBootstrapAdmin(p)
      PROVE  Onward \/ Finish(p)
  BY <1>4 DEF AddUserRole, AfterRole, CreateCredential, AssignBootstrapAdmin, AfterAdmin, At
<1>5. ASSUME CreateToken(p) \/ Consume(p) PROVE Onward \/ Finish(p)
  BY <1>5 DEF CreateToken, Consume, At
<1>6. ASSUME Issue(p) \/ MarkEmailVerified(p) \/ RequestFails(p) PROVE Finish(p)
  BY <1>6 DEF Issue, MarkEmailVerified, RequestFails
<1>7. InvalidateActiveByUserPurpose(p) => Goto(p, "create_token")
  BY DEF InvalidateActiveByUserPurpose
<1>8. RevokeAll(p) => Goto(p, "done")
  BY DEF RevokeAll
<1> QED BY <1>1, <1>2, <1>3, <1>4, <1>5, <1>6, <1>7, <1>8 DEF Step

\* The invariant about what a request has to end is inductive: no step brings a token or a
\* session back to life, and none gives a dead one to another account.
LEMMA NextEnd == EndInv /\ [Next]_vars => EndInv'
<1> SUFFICES ASSUME EndInv, [Next]_vars PROVE EndInv'
  OBVIOUS
<1>0. /\ TypeInv /\ TypeInv' /\ Lasting
      /\ token \in [Tokens -> VerificationToken] /\ session \in [SessionIds -> Session]
      /\ req \in [Reqs -> Request]
  BY NextTypeInv, StepLasting DEF EndInv, TypeInv, TypeOK
<1>1. ASSUME NEW q \in Reqs, NEW label, Moved(req[q], req'[q], label),
             label = "invalidate" <=> req[q].pc = "invalidate",
             label = "revoke" <=> req[q].pc = "revoke"
      PROVE  Superseded(q)' /\ Ended(q)'
  <2>1. Superseded(q) /\ Ended(q)
    BY DEF EndInv
  <2>2. Superseded(q)'
    BY <1>0, <1>1, <2>1 DEF Superseded, Moved, Lasting, TokensOnlyDie
  <2>3. Ended(q)'
    BY <1>0, <1>1, <2>1 DEF Ended, Moved, Lasting, SessionsOnlyDie
  <2> QED BY <2>2, <2>3
<1>2. ASSUME NEW q \in Reqs, req'[q] = req[q] \/ Moved(req[q], req'[q], req[q].pc)
      PROVE  Superseded(q)' /\ Ended(q)'
  BY <1>1, <1>2 DEF Moved
<1>3. ASSUME NEW q \in Reqs, req'[q].before = {} PROVE Superseded(q)' /\ Ended(q)'
  BY <1>3 DEF Superseded, Ended
<1>4. ASSUME NEW p \in Reqs, Step(p) \/ RequestFails(p)
      PROVE  Superseded(p)' /\ Ended(p)'
  <2>0. Superseded(p) /\ Ended(p)
    BY DEF EndInv
  <2>1. CASE req'[p] = IdleReq
    BY <1>3, <2>1 DEF IdleReq
  <2>2. CASE /\ req[p].pc \notin {"invalidate", "revoke"}
             /\ \E label : label \notin {"invalidate", "revoke"} /\ Moved(req[p], req'[p], label)
    BY <1>1, <2>2
  <2>3. CASE InvalidateActiveByUserPurpose(p) /\ Moved(req[p], req'[p], "create_token")
    <3>1. req[p].pc = "invalidate" /\ UNCHANGED session
      BY <2>3 DEF InvalidateActiveByUserPurpose, At
    <3>2. Ended(p)'
      BY <2>0, <2>3, <3>1 DEF Ended, Moved
    <3>3. ASSUME NEW t \in Tokens, t \in req[p].before
          PROVE  /\ req[p].op \in {"verify", "forgot"} /\ token'[t].state # "free"
                 /\ ~(token'[t].state = "active" /\ ~token'[t].expired)
      <4>1. /\ req[p].op \in {"verify", "forgot"} /\ token[t].state # "free"
            /\ token[t].email = req[p].email /\ token[t].purpose = PurposeOf(req[p].op)
        BY <2>0, <3>1, <3>3 DEF Superseded
      <4>2. CASE Active(t)
        <5>1. token'[t] = [token[t] EXCEPT !.state = "used"] /\ token[t] \in VerificationToken
          BY <1>0, <2>3, <4>1, <4>2 DEF InvalidateActiveByUserPurpose, ActiveTokens
        <5> QED BY <4>1, <5>1 DEF VerificationToken
      <4>3. CASE ~Active(t)
        <5>1. token'[t] = token[t]
          BY <1>0, <2>3, <4>3 DEF InvalidateActiveByUserPurpose, ActiveTokens
        <5> QED BY <4>1, <4>3, <5>1 DEF Active
      <4> QED BY <4>2, <4>3
    <3>4. Superseded(p)'
      BY <2>3, <3>3 DEF Superseded, Moved, Active
    <3> QED BY <3>2, <3>4
  <2>4. CASE RevokeAll(p) /\ Moved(req[p], req'[p], "done")
    <3>1. req[p].pc = "revoke" /\ UNCHANGED token
      BY <2>4 DEF RevokeAll, At
    <3>2. Superseded(p)'
      BY <2>0, <2>4, <3>1 DEF Superseded, Moved, Active
    <3>3. ASSUME NEW s \in SessionIds, s \in req[p].before
          PROVE  req[p].op \in {"reset", "change"} /\ session'[s].state \notin {"free", "live"}
      <4>1. /\ req[p].op \in {"reset", "change"} /\ session[s].state # "free"
            /\ session[s].email = req[p].email
        BY <2>0, <3>1, <3>3 DEF Ended
      <4>2. CASE session[s].state = "live"
        BY <1>0, <2>4, <4>1, <4>2 DEF RevokeAll, LiveSessions, Session
      <4>3. CASE session[s].state # "live"
        BY <1>0, <2>4, <4>1, <4>3 DEF RevokeAll, LiveSessions
      <4> QED BY <4>1, <4>2, <4>3
    <3>4. Ended(p)'
      BY <2>4, <3>3 DEF Ended, Moved
    <3> QED BY <3>2, <3>4
  <2>5. CASE UpdatePassword(p)
    <3>1. /\ req'[p].before = LiveSessions(req[p].email) /\ req'[p].pc = "revoke"
          /\ req'[p].op = req[p].op /\ req'[p].email = req[p].email
          /\ UNCHANGED session
      BY <1>0, <2>5 DEF UpdatePassword, Request
    <3>2. req[p].op \in {"reset", "change"}
      <4>1. req[p].pc = "update" /\ req[p] \in Request /\ RequestShape(req[p])
        BY <1>0, <2>5 DEF UpdatePassword, At, TypeInv, Shapes
      <4> QED BY <4>1 DEF RequestShape, Request, Statements
    <3>3. Superseded(p)'
      BY <3>1, RowsAssumption DEF Superseded, LiveSessions
    <3>4. Ended(p)'
      BY <3>1, <3>2 DEF Ended, LiveSessions
    <3> QED BY <3>3, <3>4
  <2> QED BY <1>0, <1>4, <2>1, <2>2, <2>3, <2>4, <2>5, OwnRequest
<1>5. ASSUME NEW p \in Reqs, Arrive(p) PROVE Superseded(p)' /\ Ended(p)'
  <2>1. ASSUME NEW op \in {"verify", "forgot"}, NEW e \in Emails,
               Begin(p, op, "invalidate", e, Nil, Nil, ActiveTokens(e, PurposeOf(op)))
        PROVE  Superseded(p)' /\ Ended(p)'
    <3>1. /\ req'[p].op = op /\ req'[p].pc = "invalidate" /\ req'[p].email = e
          /\ req'[p].before = ActiveTokens(e, PurposeOf(op)) /\ UNCHANGED token
      BY <1>0, <2>1 DEF Begin, IdleReq
    <3>2. \A t \in Tokens : t \in ActiveTokens(e, PurposeOf(op)) =>
            token[t].state # "free" /\ token[t].email = e /\ token[t].purpose = PurposeOf(op)
      BY DEF ActiveTokens, Active
    <3>3. Superseded(p)'
      BY <3>1, <3>2 DEF Superseded
    <3>4. Ended(p)'
      BY <3>1, RowsAssumption DEF Ended, ActiveTokens
    <3> QED BY <3>3, <3>4
  <2>2. \/ \E e \in Emails : \/ RequestLocalEmailVerification(p, e) \/ ForgotLocalPassword(p, e)
        \/ req'[p].before = {}
    <3> USE <1>0 DEF Begin, IdleReq
    <3>1. ASSUME NEW e \in Emails, NEW w \in Passwords,
                 RegisterLocal(p, e, w) \/ ChangeLocalPassword(p, e, w)
          PROVE  req'[p].before = {}
      BY <3>1 DEF RegisterLocal, ChangeLocalPassword
    <3>2. ASSUME NEW e \in Emails, LoginWithGoogleCode(p, e) \/ LoginWithLocalPassword(p, e)
          PROVE  req'[p].before = {}
      BY <3>2 DEF LoginWithGoogleCode, LoginWithLocalPassword
    <3>3. ASSUME NEW t \in Tokens, ConfirmLocalEmailVerification(p, t) PROVE req'[p].before = {}
      BY <3>3 DEF ConfirmLocalEmailVerification
    <3>4. ASSUME NEW t \in Tokens, NEW w \in Passwords, ResetLocalPassword(p, t, w)
          PROVE  req'[p].before = {}
      BY <3>4 DEF ResetLocalPassword
    <3> QED BY <1>5, <3>1, <3>2, <3>3, <3>4 DEF Arrive
  <2>3. ASSUME NEW e \in Emails, RequestLocalEmailVerification(p, e)
        PROVE  Superseded(p)' /\ Ended(p)'
    BY <2>1, <2>3 DEF RequestLocalEmailVerification, PurposeOf
  <2>4. ASSUME NEW e \in Emails, ForgotLocalPassword(p, e) PROVE Superseded(p)' /\ Ended(p)'
    BY <2>1, <2>4 DEF ForgotLocalPassword, PurposeOf
  <2> QED BY <1>3, <2>2, <2>3, <2>4
<1>6. ASSUME NEW p \in Reqs, NEW q \in Reqs, Arrive(p) \/ Step(p) \/ RequestFails(p)
      PROVE  Superseded(q)' /\ Ended(q)'
  <2>1. CASE q = p
    BY <1>4, <1>5, <1>6, <2>1
  <2>2. CASE q # p /\ Arrive(p)
    BY <1>0, <1>2, <2>2, ArriveType
  <2>3. CASE q # p /\ (Step(p) \/ RequestFails(p))
    BY <1>0, <1>2, <2>3, StepType DEF OthersSame
  <2> QED BY <1>6, <2>1, <2>2, <2>3
<1>7. ASSUME NEW q \in Reqs, UNCHANGED req PROVE Superseded(q)' /\ Ended(q)'
  BY <1>2, <1>7
<1>8. ASSUME NEW q \in Reqs PROVE Superseded(q)' /\ Ended(q)'
  BY <1>6, <1>7 DEF Next, ExpireToken, vars
<1> QED BY <1>0, <1>8 DEF EndInv

\* The invariant holds at the start: nothing is in flight.
LEMMA EndInvariant == Spec => []EndInv
<1>1. ASSUME Init PROVE EndInv
  <2>1. \A p \in Reqs : req[p].before = {}
    BY <1>1 DEF Init, IdleReq
  <2> QED BY <1>1, <2>1, InitTypeInv DEF EndInv, Superseded, Ended
<1> QED BY <1>1, NextEnd, PTL DEF Spec

\* Theorem: once a forgot-password or verification request is answered, every token that was
\* active when it arrived is dead, whatever else went on between its two statements.
THEOREM SupersededTokenIsDeadHolds == Spec => []SupersededTokenIsDead
<1>1. EndInv => SupersededTokenIsDead
  BY DEF EndInv, Superseded, SupersededTokenIsDead, At
<1> QED BY <1>1, EndInvariant, PTL

\* Theorem: once a password reset or change is answered, no session that was live when the
\* password changed is live.
THEOREM ChangeEndsSessionsHolds == Spec => []ChangeEndsSessions
<1>1. EndInv => ChangeEndsSessions
  BY DEF EndInv, Ended, ChangeEndsSessions, At
<1> QED BY <1>1, EndInvariant, PTL

-----------------------------------------------------------------------------
(* One account per e-mail, and who may sign in to it.                      *)

Creating(p) == req[p].pc \in {"role", "credential"}

\* What a request knows of the account it works on.
Entitled(p) ==
  /\ req[p].op \in {"login", "verify", "forgot", "confirm", "reset", "change"} =>
       account[req[p].email].password # Nil
  /\ Creating(p) => account[req[p].email].exists /\ account[req[p].email].password = Nil
  /\ req[p].op = "login" /\ requireVerified => account[req[p].email].verified
  /\ req[p].op = "register" /\ req[p].pc = "issue" => ~requireVerified

AccountInv ==
  /\ TypeInv
  /\ \A e \in Emails :
       /\ account[e].password # Nil => account[e].exists
       /\ account[e].verified => account[e].password # Nil
  /\ \A t \in Tokens : token[t].state # "free" => account[token[t].email].password # Nil
  /\ \A p \in Reqs : Entitled(p)
  /\ \A p, q \in Reqs : Creating(p) /\ Creating(q) /\ req[p].email = req[q].email => p = q
  /\ OnlyVerifiedSignIn

\* Where accounts, passwords and verified flags come from.
AccountOrigin ==
  \A e \in Emails :
    /\ account'[e].exists =>
         account[e].exists \/ \E p \in Reqs : CreateUser(p) /\ req[p].email = e
    /\ account'[e].password # Nil =>
         account[e].password # Nil \/ \E p \in Reqs : CreateCredential(p) /\ req[p].email = e
    /\ account'[e].verified =>
         \/ account[e].verified \/ account[e].password # Nil
         \/ \E p \in Reqs : CreateCredential(p) /\ req[p].email = e

\* Only CreateUser makes an account, and only CreateCredential gives it a first password:
\* a reset, a change and a verification find one there.
LEMMA StepOrigin ==
  ASSUME AccountInv, [Next]_vars
  PROVE  AccountOrigin
<1>0. /\ TypeInv /\ account \in [Emails -> Account]
      /\ \A p \in Reqs : req[p] \in Request /\ RequestShape(req[p]) /\ Entitled(p)
  BY DEF AccountInv, TypeInv, TypeOK, Shapes
<1>1. ASSUME UNCHANGED account PROVE AccountOrigin
  BY <1>1 DEF AccountOrigin
<1>2. ASSUME NEW p \in Reqs, CreateUser(p) PROVE AccountOrigin
  <2>1. ASSUME NEW e \in Emails
        PROVE  /\ account'[e].exists => account[e].exists \/ req[p].email = e
               /\ account'[e].password = account[e].password
               /\ account'[e].verified = account[e].verified
    BY <1>0, <1>2 DEF CreateUser, Account
  <2> QED BY <1>2, <2>1 DEF AccountOrigin
<1>3. ASSUME NEW p \in Reqs, AddUserRole(p) \/ AssignBootstrapAdmin(p) \/ LinkGoogle(p)
      PROVE  AccountOrigin
  <2>1. ASSUME NEW e \in Emails
        PROVE  /\ account'[e].exists = account[e].exists
               /\ account'[e].password = account[e].password
               /\ account'[e].verified = account[e].verified
    BY <1>0, <1>3 DEF AddUserRole, AssignBootstrapAdmin, LinkGoogle, Account
  <2> QED BY <2>1 DEF AccountOrigin
<1>4. ASSUME NEW p \in Reqs, CreateCredential(p) PROVE AccountOrigin
  <2>1. ASSUME NEW e \in Emails, e # req[p].email PROVE account'[e] = account[e]
    BY <1>0, <1>4, <2>1 DEF CreateCredential
  <2>2. account'[req[p].email].exists => account[req[p].email].exists \/ req[p].email \notin Emails
    BY <1>0, <1>4 DEF CreateCredential, Account
  <2> QED BY <1>4, <2>1, <2>2 DEF AccountOrigin
<1>5. ASSUME NEW p \in Reqs, MarkEmailVerified(p) PROVE AccountOrigin
  <2>1. account[req[p].email].password # Nil
    <3>1. req[p].pc = "mark"
      BY <1>5 DEF MarkEmailVerified, At
    <3>2. req[p].op = "confirm"
      BY <1>0, <3>1 DEF RequestShape, Request, Statements
    <3> QED BY <1>0, <3>2 DEF Entitled
  <2> QED BY <1>0, <1>5, <2>1 DEF MarkEmailVerified, AccountOrigin, Account
<1>6. ASSUME NEW p \in Reqs, UpdatePassword(p) PROVE AccountOrigin
  <2>1. account[req[p].email].password # Nil
    <3>1. req[p].pc = "update"
      BY <1>6 DEF UpdatePassword, At
    <3>2. req[p].op \in {"reset", "change"}
      BY <1>0, <3>1 DEF RequestShape, Request, Statements
    <3> QED BY <1>0, <3>2 DEF Entitled
  <2> QED BY <1>0, <1>6, <2>1 DEF UpdatePassword, AccountOrigin, Account
<1>7. ASSUME NEW p \in Reqs, Arrive(p) PROVE UNCHANGED account
  BY <1>0, <1>7, ArriveType
<1>8. ASSUME NEW p \in Reqs,
             \/ FindByEmail(p) \/ Issue(p) \/ InvalidateActiveByUserPurpose(p) \/ CreateToken(p)
             \/ Consume(p) \/ RevokeAll(p) \/ RequestFails(p)
      PROVE  UNCHANGED account
  BY <1>8 DEF FindByEmail, Issue, InvalidateActiveByUserPurpose, CreateToken, Consume, RevokeAll,
              RequestFails
<1>9. ASSUME UNCHANGED vars \/ \E t \in Tokens : ExpireToken(t) PROVE UNCHANGED account
  BY <1>9 DEF vars, ExpireToken
<1> QED
  BY <1>1, <1>2, <1>3, <1>4, <1>5, <1>6, <1>7, <1>8, <1>9 DEF Next, Step

\* How a request comes to the statements that rely on what it knows.
LEMMA OwnProgress ==
  ASSUME TypeInv, NEW p \in Reqs, Step(p) \/ RequestFails(p)
  PROVE  \/ req'[p] = IdleReq
         \/ /\ req'[p].op = req[p].op /\ req'[p].email = req[p].email
            /\ req'[p].pc = "role" =>
                 /\ CreateUser(p) /\ ~account[req[p].email].exists /\ req[p].email \in Emails
                 /\ account'[req[p].email].exists
            /\ req'[p].pc = "credential" => AddUserRole(p) /\ req[p].pc = "role"
            /\ req'[p].pc = "issue" => (req[p].op = "register" => ~requireVerified)
<1>0. /\ req \in [Reqs -> Request] /\ account \in [Emails -> Account]
      /\ req[p] \in Request /\ RequestShape(req[p])
  BY DEF TypeInv, TypeOK, Shapes
<1>1. Finish(p) => req'[p] = IdleReq
  BY <1>0, RequestMoves
<1>2. \A label : Goto(p, label) =>
        req'[p].pc = label /\ req'[p].op = req[p].op /\ req'[p].email = req[p].email
  BY <1>0, RequestMoves DEF Moved
<1> DEFINE Goal ==
      \/ req'[p] = IdleReq
      \/ /\ req'[p].op = req[p].op /\ req'[p].email = req[p].email
         /\ req'[p].pc = "role" =>
              /\ CreateUser(p) /\ ~account[req[p].email].exists /\ req[p].email \in Emails
              /\ account'[req[p].email].exists
         /\ req'[p].pc = "credential" => AddUserRole(p) /\ req[p].pc = "role"
         /\ req'[p].pc = "issue" => (req[p].op = "register" => ~requireVerified)
<1>3. ASSUME NEW label, label \notin {"role", "credential", "issue"}, Goto(p, label) PROVE Goal
  BY <1>2, <1>3
<1>4. ASSUME CreateUser(p) PROVE Goal
  <2>1. CASE Finish(p)
    BY <1>1, <2>1
  <2>2. CASE Goto(p, "role") /\ ~account[req[p].email].exists
               /\ account' = [account EXCEPT ![req[p].email].exists = TRUE]
    <3>1. req[p].email \in Emails
      BY <1>0, <1>4 DEF CreateUser, At, RequestShape, Request, Statements
    <3>2. account'[req[p].email].exists
      BY <1>0, <2>2, <3>1 DEF Account
    <3> QED BY <1>2, <1>4, <2>2, <3>1, <3>2
  <2> QED BY <1>4, <2>1, <2>2 DEF CreateUser
<1>5. ASSUME AddUserRole(p) PROVE Goal
  <2>1. req[p].pc = "role" /\ \E label \in {"credential", "link"} : Goto(p, label)
    BY <1>5 DEF AddUserRole, AfterRole, At
  <2> QED BY <1>2, <1>5, <2>1
<1>6. ASSUME AssignBootstrapAdmin(p) PROVE Goal
  <2>1. Finish(p) \/ (Goto(p, "issue") /\ (req[p].op = "register" => ~requireVerified))
    BY <1>6 DEF AssignBootstrapAdmin, AfterAdmin
  <2> QED BY <1>1, <1>2, <2>1
<1>7. ASSUME UpdatePassword(p) PROVE Goal
  BY <1>0, <1>7 DEF UpdatePassword, Request
<1> HIDE DEF Goal
<1>8. ASSUME FindByEmail(p) \/ CreateCredential(p) \/ LinkGoogle(p) \/ Issue(p) \/ CreateToken(p)
             \/ InvalidateActiveByUserPurpose(p)
      PROVE  Goal
  <2>1. Finish(p) => Goal
    BY <1>1 DEF Goal
  <2> QED
    BY <1>3, <1>8, <2>1
       DEF FindByEmail, CreateCredential, LinkGoogle, Issue, CreateToken,
           InvalidateActiveByUserPurpose
<1>9. ASSUME Consume(p) \/ MarkEmailVerified(p) \/ RevokeAll(p) \/ RequestFails(p) PROVE Goal
  <2>1. Finish(p) => Goal
    BY <1>1 DEF Goal
  <2> QED BY <1>3, <1>9, <2>1 DEF Consume, MarkEmailVerified, RevokeAll, RequestFails
<1>10. Goal
  BY <1>4, <1>5, <1>6, <1>7, <1>8, <1>9 DEF Step
<1> QED BY <1>10 DEF Goal

\* The invariant about accounts is inductive.
LEMMA NextAccount == AccountInv /\ [Next]_vars => AccountInv'
<1> SUFFICES ASSUME AccountInv, [Next]_vars PROVE AccountInv'
  OBVIOUS
<1>0. /\ TypeInv /\ TypeInv' /\ Lasting /\ AccountOrigin
      /\ req \in [Reqs -> Request] /\ account \in [Emails -> Account]
      /\ \A q \in Reqs : req[q] \in Request /\ RequestShape(req[q]) /\ Entitled(q)
      /\ AccountsOnlyGrow /\ requireVerified' = requireVerified
  BY NextTypeInv, StepLasting, StepOrigin DEF AccountInv, TypeInv, TypeOK, Shapes, Lasting
<1>1. ASSUME NEW p \in Reqs, CreateCredential(p)
      PROVE  /\ req[p].email \in Emails /\ Creating(p) /\ account[req[p].email].exists
             /\ account'[req[p].email].password # Nil
  <2>1. req[p].pc = "credential"
    BY <1>1 DEF CreateCredential, At
  <2>2. req[p].op = "register" /\ req[p].email \in Emails /\ req[p].pw # Nil
    BY <1>0, <2>1, NilAssumption DEF RequestShape, Request, Statements
  <2>3. account'[req[p].email].password = req[p].pw
    BY <1>0, <1>1, <2>2 DEF CreateCredential, Account
  <2> QED BY <1>0, <2>1, <2>2, <2>3 DEF Entitled, Creating
<1>2. ASSUME NEW e \in Emails
      PROVE  /\ account'[e].password # Nil => account'[e].exists
             /\ account'[e].verified => account'[e].password # Nil
  BY <1>0, <1>1 DEF AccountInv, AccountOrigin, AccountsOnlyGrow
<1>3. ASSUME NEW t \in Tokens, token'[t].state # "free"
      PROVE  account'[token'[t].email].password # Nil
  <2>1. CASE token[t].state # "free"
    <3>1. token'[t].email = token[t].email
      BY <1>0, <2>1 DEF Lasting, TokensOnlyDie
    <3>2. token[t].email \in Emails /\ account[token[t].email].password # Nil
      BY <1>0, <2>1 DEF AccountInv, TypeInv, Shapes, TokenShape
    <3> QED BY <1>0, <3>1, <3>2 DEF AccountsOnlyGrow
  <2>2. CASE token[t].state = "free"
    <3>1. PICK p \in Reqs : CreateToken(p)
      <4>2. ASSUME NEW p \in Reqs, InvalidateActiveByUserPurpose(p) PROVE token'[t] = token[t]
        BY <2>2, <4>2 DEF InvalidateActiveByUserPurpose, ActiveTokens, Active
      <4>3. ASSUME NEW p \in Reqs, Consume(p) PROVE token'[t] = token[t]
        BY <1>0, <2>2, <4>3 DEF Consume, Consumable, TypeInv, TypeOK
      <4>4. ASSUME NEW p \in Reqs, Arrive(p) PROVE token' = token
        BY <1>0, <4>4, ArriveType, SMTT(30)
      <4>5. ASSUME NEW p \in Reqs,
                   \/ FindByEmail(p) \/ CreateUser(p) \/ AddUserRole(p) \/ CreateCredential(p)
                   \/ LinkGoogle(p) \/ AssignBootstrapAdmin(p) \/ Issue(p) \/ MarkEmailVerified(p)
                   \/ UpdatePassword(p) \/ RevokeAll(p) \/ RequestFails(p)
            PROVE  token' = token
        BY <4>5 DEF FindByEmail, CreateUser, AddUserRole, CreateCredential, LinkGoogle,
                    AssignBootstrapAdmin, Issue, MarkEmailVerified, UpdatePassword, RevokeAll,
                    RequestFails
      <4>6. ASSUME NEW u \in Tokens, ExpireToken(u) PROVE token'[t] = token[t]
        BY <1>0, <2>2, <4>6 DEF ExpireToken, Active, TypeInv, TypeOK
      <4>7. ASSUME UNCHANGED vars PROVE token' = token
        BY <4>7 DEF vars
      <4> QED BY <1>3, <2>2, <4>2, <4>3, <4>4, <4>5, <4>6, <4>7 DEF Next, Step
    <3>2. token'[t].email = req[p].email
      BY <1>0, <1>3, <2>2, <3>1 DEF CreateToken, TypeInv, TypeOK
    <3>3. req[p].pc = "create_token"
      BY <3>1 DEF CreateToken, At
    <3>4. req[p].op \in {"verify", "forgot"} /\ req[p].email \in Emails
      BY <1>0, <3>3 DEF RequestShape, Request, Statements
    <3>5. account[req[p].email].password # Nil
      BY <1>0, <3>4 DEF Entitled
    <3> QED BY <1>0, <3>2, <3>4, <3>5 DEF AccountsOnlyGrow
  <2> QED BY <2>1, <2>2
<1>4. ASSUME NEW q \in Reqs, Creating(q), req'[q].email = req[q].email, req'[q].pc # "admin"
      PROVE  account'[req[q].email].password = Nil
  <2>1. req[q].email \in Emails /\ account[req[q].email].password = Nil
    BY <1>0, <1>4 DEF Entitled, Creating, RequestShape, Request, Statements
  <2>2. ASSUME NEW p \in Reqs, CreateCredential(p), req[p].email = req[q].email PROVE FALSE
    <3>1. p = q
      BY <1>1, <1>4, <2>2 DEF AccountInv
    <3>2. Goto(p, "admin")
      BY <2>2 DEF CreateCredential
    <3>3. req'[p].pc = "admin"
      BY <1>0, <3>2, RequestMoves DEF Moved
    <3> QED BY <1>4, <3>1, <3>3
  <2> QED BY <1>0, <2>1, <2>2 DEF AccountOrigin
<1>5. ASSUME NEW q \in Reqs, Moved(req[q], req'[q], req[q].pc) PROVE Entitled(q)'
  <2>1. req[q].op # "none" => req[q].email \in Emails
    BY <1>0 DEF RequestShape
  <2>2. Creating(q) => req[q].op # "none" /\ req'[q].pc # "admin"
    BY <1>0, <1>5 DEF Creating, RequestShape, Statements, Moved
  <2>3. Creating(q) => account'[req[q].email].password = Nil
    BY <1>4, <1>5, <2>2 DEF Moved
  <2> QED BY <1>0, <1>5, <2>1, <2>2, <2>3 DEF Entitled, Creating, Moved, AccountsOnlyGrow
<1>6. ASSUME NEW p \in Reqs, Step(p) \/ RequestFails(p) PROVE Entitled(p)'
  <2>1. CASE req'[p] = IdleReq
    BY <2>1 DEF IdleReq, Entitled, Creating
  <2>2. CASE /\ req'[p].op = req[p].op /\ req'[p].email = req[p].email
             /\ req'[p].pc = "role" =>
                  /\ CreateUser(p) /\ ~account[req[p].email].exists /\ req[p].email \in Emails
                  /\ account'[req[p].email].exists
             /\ req'[p].pc = "credential" => AddUserRole(p) /\ req[p].pc = "role"
             /\ req'[p].pc = "issue" => (req[p].op = "register" => ~requireVerified)
    <3>1. req[p].op # "none" => req[p].email \in Emails
      BY <1>0 DEF RequestShape
    <3>2. ASSUME req'[p].pc = "role"
          PROVE  account'[req[p].email].exists /\ account'[req[p].email].password = Nil
      <4>1. account[req[p].email].password = Nil /\ req[p].email \in Emails
        BY <2>2, <3>2 DEF AccountInv
      <4>2. account'[req[p].email].password = account[req[p].email].password
        BY <1>0, <2>2, <3>2, <4>1 DEF CreateUser, Account
      <4> QED BY <2>2, <3>2, <4>1, <4>2
    <3>3. ASSUME req'[p].pc = "credential"
          PROVE  account'[req[p].email].exists /\ account'[req[p].email].password = Nil
      <4>1. Creating(p) /\ account[req[p].email].exists /\ req[p].email \in Emails
        BY <1>0, <2>2, <3>3 DEF Creating, Entitled, RequestShape, Request, Statements
      <4>2. account'[req[p].email].password = Nil
        BY <1>4, <2>2, <3>3, <4>1
      <4> QED BY <1>0, <4>1, <4>2 DEF AccountsOnlyGrow
    <3> QED BY <1>0, <2>2, <3>1, <3>2, <3>3 DEF Entitled, Creating, AccountsOnlyGrow
  <2> QED BY <1>0, <1>6, <2>1, <2>2, OwnProgress
<1>7. ASSUME NEW p \in Reqs, Arrive(p) PROVE Entitled(p)'
  <2>0. UNCHANGED <<requireVerified, account>>
    BY <1>0, <1>7, ArriveType
  <2> USE <1>0, <2>0 DEF Entitled, Creating
  <2>1. ASSUME NEW e \in Emails, NEW w \in Passwords, RegisterLocal(p, e, w) PROVE Entitled(p)'
    BY <2>1 DEF RegisterLocal, Begin, IdleReq
  <2>2. ASSUME NEW e \in Emails, NEW w \in Passwords, ChangeLocalPassword(p, e, w)
        PROVE  Entitled(p)'
    BY <2>2 DEF ChangeLocalPassword, HasPassword, Begin, IdleReq
  <2>3. ASSUME NEW e \in Emails, LoginWithGoogleCode(p, e) PROVE Entitled(p)'
    BY <2>3 DEF LoginWithGoogleCode, Begin, IdleReq
  <2>4. ASSUME NEW e \in Emails, LoginWithLocalPassword(p, e) PROVE Entitled(p)'
    BY <2>4 DEF LoginWithLocalPassword, HasPassword, Begin, IdleReq
  <2>5. ASSUME NEW e \in Emails, RequestLocalEmailVerification(p, e) PROVE Entitled(p)'
    BY <2>5 DEF RequestLocalEmailVerification, HasPassword, Begin, IdleReq
  <2>6. ASSUME NEW e \in Emails, ForgotLocalPassword(p, e) PROVE Entitled(p)'
    BY <2>6 DEF ForgotLocalPassword, HasPassword, Begin, IdleReq
  <2>7. ASSUME NEW t \in Tokens, ConfirmLocalEmailVerification(p, t) PROVE Entitled(p)'
    <3>1. account[token[t].email].password # Nil
      BY <2>7 DEF ConfirmLocalEmailVerification, Active, AccountInv
    <3> QED BY <2>7, <3>1 DEF ConfirmLocalEmailVerification, Begin, IdleReq
  <2>8. ASSUME NEW t \in Tokens, NEW w \in Passwords, ResetLocalPassword(p, t, w)
        PROVE  Entitled(p)'
    <3>1. account[token[t].email].password # Nil
      BY <2>8 DEF ResetLocalPassword, Active, AccountInv
    <3> QED BY <2>8, <3>1 DEF ResetLocalPassword, Begin, IdleReq
  <2> QED BY <1>7, <2>1, <2>2, <2>3, <2>4, <2>5, <2>6, <2>7, <2>8 DEF Arrive
<1>8. ASSUME NEW p \in Reqs, Arrive(p) \/ Step(p) \/ RequestFails(p)
      PROVE  OthersSame(p)
  <2>1. CASE Arrive(p)
    BY <1>0, <2>1, ArriveType DEF OthersSame, Moved
  <2> QED BY <1>0, <1>8, <2>1, StepType
<1>9. \/ \E p \in Reqs : Arrive(p) \/ Step(p) \/ RequestFails(p)
      \/ \A q \in Reqs : Moved(req[q], req'[q], req[q].pc)
  BY DEF Next, ExpireToken, vars, Moved
<1>10. \A q \in Reqs : Entitled(q)'
  BY <1>5, <1>6, <1>7, <1>8, <1>9 DEF OthersSame
<1>11. ASSUME NEW p \in Reqs, NEW q \in Reqs, Creating(p)', Creating(q)',
              req'[p].email = req'[q].email, p # q
       PROVE  FALSE
  <2>1. ASSUME NEW r \in Reqs, Creating(r)'
        PROVE  \/ Creating(r) /\ req'[r].email = req[r].email
               \/ /\ CreateUser(r) /\ ~account[req[r].email].exists
                  /\ req'[r].email = req[r].email
    <3>1. CASE Moved(req[r], req'[r], req[r].pc)
      BY <2>1, <3>1 DEF Moved, Creating
    <3>2. CASE Step(r) \/ RequestFails(r)
      BY <1>0, <2>1, <3>2, OwnProgress DEF Creating, IdleReq
    <3>3. CASE Arrive(r)
      <4>1. req'[r].pc \in FirstStatements
        BY <1>0, <3>3, ArriveType
      <4> QED BY <2>1, <4>1 DEF Creating, FirstStatements
    <3> QED BY <1>8, <1>9, <3>1, <3>2, <3>3 DEF OthersSame
  <2>2. ASSUME NEW r \in Reqs, NEW o \in Reqs, r # o, CreateUser(r),
               ~account[req[r].email].exists, Creating(o)', req'[o].email = req[r].email
        PROVE  FALSE
    <3>1. Moved(req[o], req'[o], req[o].pc)
      BY <1>8, <2>2 DEF OthersSame, Step
    <3>2. Creating(o) /\ req[o].email = req[r].email
      BY <2>2, <3>1 DEF Moved, Creating
    <3> QED BY <1>0, <2>2, <3>2 DEF Entitled
  <2>3. \/ Creating(p) /\ req'[p].email = req[p].email
        \/ CreateUser(p) /\ ~account[req[p].email].exists /\ req'[p].email = req[p].email
    BY <1>11, <2>1
  <2>4. \/ Creating(q) /\ req'[q].email = req[q].email
        \/ CreateUser(q) /\ ~account[req[q].email].exists /\ req'[q].email = req[q].email
    BY <1>11, <2>1
  <2>5. ~(Creating(p) /\ Creating(q) /\ req[p].email = req[q].email)
    BY <1>11 DEF AccountInv
  <2> QED BY <1>11, <2>2, <2>3, <2>4, <2>5
<1>12. ASSUME requireVerified', NEW s \in SessionIds, session'[s].via = "password"
       PROVE  account'[session'[s].email].verified
  <2>1. CASE session[s].state # "free"
    <3>1. session'[s].email = session[s].email /\ session'[s].via = session[s].via
      BY <1>0, <2>1 DEF Lasting, SessionsOnlyDie
    <3>2. session[s].email \in Emails /\ account[session[s].email].verified
      BY <1>0, <1>12, <2>1, <3>1 DEF AccountInv, OnlyVerifiedSignIn, TypeInv, Shapes, SessionShape
    <3> QED BY <1>0, <3>1, <3>2 DEF AccountsOnlyGrow, AccountInv
  <2>2. CASE session[s].state = "free"
    <3>1. session[s].via = "none" /\ session \in [SessionIds -> Session]
      BY <1>0, <2>2 DEF TypeInv, TypeOK, Shapes, SessionShape
    <3>2. PICK p \in Reqs : Issue(p)
      <4>1. ASSUME NEW p \in Reqs, RevokeAll(p) PROVE session'[s] = session[s]
        BY <2>2, <4>1 DEF RevokeAll, LiveSessions
      <4>2. ASSUME NEW p \in Reqs, Arrive(p) PROVE session' = session
        BY <1>0, <4>2, ArriveType, SMTT(30)
      <4>3. ASSUME NEW p \in Reqs,
                   \/ FindByEmail(p) \/ CreateUser(p) \/ AddUserRole(p) \/ CreateCredential(p)
                   \/ LinkGoogle(p) \/ AssignBootstrapAdmin(p) \/ InvalidateActiveByUserPurpose(p)
                   \/ CreateToken(p) \/ Consume(p) \/ MarkEmailVerified(p) \/ UpdatePassword(p)
                   \/ RequestFails(p)
            PROVE  session' = session
        BY <4>3 DEF FindByEmail, CreateUser, AddUserRole, CreateCredential, LinkGoogle,
                    AssignBootstrapAdmin, InvalidateActiveByUserPurpose, CreateToken, Consume,
                    MarkEmailVerified, UpdatePassword, RequestFails
      <4>4. ASSUME UNCHANGED vars \/ \E t \in Tokens : ExpireToken(t) PROVE session' = session
        BY <4>4 DEF vars, ExpireToken
      <4> QED BY <1>12, <3>1, <4>1, <4>2, <4>3, <4>4 DEF Next, Step
    <3>3. session'[s].email = req[p].email /\ req[p].op # "google"
      BY <1>12, <3>1, <3>2 DEF Issue
    <3>4. req[p].pc = "issue"
      BY <3>2 DEF Issue, At
    <3>5. req[p].op \in {"register", "login"} /\ req[p].email \in Emails
      BY <1>0, <3>3, <3>4 DEF RequestShape, Request, Statements
    <3>6. account[req[p].email].verified
      BY <1>0, <1>12, <3>4, <3>5 DEF Entitled
    <3>7. account' = account
      BY <3>2 DEF Issue
    <3> QED BY <3>3, <3>6, <3>7
  <2> QED BY <2>1, <2>2
<1>13. OnlyVerifiedSignIn'
  BY <1>12 DEF OnlyVerifiedSignIn
<1> QED BY <1>0, <1>2, <1>3, <1>10, <1>11, <1>13 DEF AccountInv

\* The invariant holds at the start: there are no accounts.
LEMMA AccountInvariant == Spec => []AccountInv
<1>1. ASSUME Init PROVE AccountInv
  <2>1. /\ \A e \in Emails : account[e].password = Nil /\ ~account[e].verified
        /\ \A t \in Tokens : token[t].state = "free"
        /\ \A s \in SessionIds : session[s].via = "none"
        /\ \A p \in Reqs : req[p].op = "none" /\ req[p].pc = "idle"
    BY <1>1 DEF Init, NoAccount, FreeToken, FreeSession, IdleReq
  <2> QED BY <1>1, <2>1, InitTypeInv DEF AccountInv, Entitled, Creating, OnlyVerifiedSignIn
<1> QED BY <1>1, NextAccount, PTL DEF Spec

\* Theorem: of all the registrations and Google sign-ins racing for an e-mail one creates the
\* account, and no registration finds a password already there.
THEOREM OneRegistrantHolds == Spec => []OneRegistrant
<1>1. AccountInv => OneRegistrant
  BY DEF AccountInv, Entitled, Creating, OneRegistrant, HasPassword
<1> QED BY <1>1, AccountInvariant, PTL

\* Theorem: where e-mails have to be verified, whoever has signed in with a password has,
\* even when a login races with the creation of its account.
THEOREM OnlyVerifiedSignInHolds == Spec => []OnlyVerifiedSignIn
<1>1. AccountInv => OnlyVerifiedSignIn
  BY DEF AccountInv
<1> QED BY <1>1, AccountInvariant, PTL

-----------------------------------------------------------------------------
(* No account is left behind that nobody can sign in to.                   *)

Completing(p) == req[p].pc \in {"role", "credential", "link"}

OrphanInv == AccountInv /\ OrphanOnlyAfterFailure

\* A request that is completing an account goes on, gives the account a way to sign in, or
\* is on record as having failed.
LEMMA CompletionStep ==
  ASSUME AccountInv, NEW p \in Reqs, Step(p) \/ RequestFails(p), Completing(p)
  PROVE  \/ Completing(p)' /\ req'[p].email = req[p].email
         \/ account'[req[p].email].password # Nil
         \/ account'[req[p].email].google
         \/ req[p].email \in broken'
<1>0. /\ req \in [Reqs -> Request] /\ account \in [Emails -> Account]
      /\ req[p] \in Request /\ RequestShape(req[p])
  BY DEF AccountInv, TypeInv, TypeOK, Shapes
<1>1. req[p].email \in Emails
  BY <1>0 DEF Completing, RequestShape, Request, Statements
<1> DEFINE Goal ==
      \/ Completing(p)' /\ req'[p].email = req[p].email
      \/ account'[req[p].email].password # Nil
      \/ account'[req[p].email].google
      \/ req[p].email \in broken'
<1>2. ASSUME AddUserRole(p) PROVE Goal
  <2>1. PICK label \in {"credential", "link"} : Goto(p, label)
    BY <1>2 DEF AddUserRole, AfterRole
  <2>2. Moved(req[p], req'[p], label)
    BY <1>0, <2>1, RequestMoves
  <2> QED BY <2>2 DEF Moved, Completing
<1>3. ASSUME CreateCredential(p) PROVE Goal
  <2>1. req[p].pc = "credential"
    BY <1>3 DEF CreateCredential, At
  <2>2. req[p].pw # Nil
    BY <1>0, <2>1, NilAssumption, SMTT(30) DEF RequestShape, Request, Statements
  <2>3. account'[req[p].email].password = req[p].pw
    BY <1>0, <1>1, <1>3 DEF CreateCredential, Account
  <2> QED BY <2>2, <2>3
<1>4. ASSUME LinkGoogle(p) PROVE Goal
  <2>1. account'[req[p].email].google
    BY <1>0, <1>1, <1>4 DEF LinkGoogle, Account
  <2> QED BY <2>1
<1>5. ASSUME RequestFails(p) PROVE Goal
  BY <1>5 DEF RequestFails, Completing
<1>6. ASSUME \/ FindByEmail(p) \/ CreateUser(p) \/ AssignBootstrapAdmin(p) \/ Issue(p)
             \/ InvalidateActiveByUserPurpose(p) \/ CreateToken(p) \/ Consume(p)
             \/ MarkEmailVerified(p) \/ UpdatePassword(p) \/ RevokeAll(p)
      PROVE  FALSE
  BY <1>6 DEF FindByEmail, CreateUser, AssignBootstrapAdmin, Issue, InvalidateActiveByUserPurpose,
              CreateToken, Consume, MarkEmailVerified, UpdatePassword, RevokeAll, At, Completing
<1> QED BY <1>2, <1>3, <1>4, <1>5, <1>6 DEF Step

\* Every account that exists can be signed in to, is being completed, or failed to be.
LEMMA NextOrphan == OrphanInv /\ [Next]_vars => OrphanInv'
<1> SUFFICES ASSUME OrphanInv, [Next]_vars PROVE OrphanInv'
  OBVIOUS
<1>0. /\ AccountInv /\ AccountInv' /\ TypeInv /\ Lasting /\ AccountOrigin
      /\ req \in [Reqs -> Request]
  BY NextAccount, StepLasting, StepOrigin DEF OrphanInv, AccountInv, TypeInv, TypeOK
<1>1. ASSUME NEW e \in Emails, account'[e].exists
      PROVE  \/ account'[e].password # Nil \/ account'[e].google \/ e \in broken'
             \/ \E p \in Reqs : req'[p].email = e /\ Completing(p)'
  <2>1. ASSUME NEW p \in Reqs, CreateUser(p), req[p].email = e, ~account[e].exists
        PROVE  req'[p].email = e /\ Completing(p)'
    <3>1. Goto(p, "role")
      BY <2>1 DEF CreateUser
    <3>2. Moved(req[p], req'[p], "role")
      BY <1>0, <3>1, RequestMoves
    <3> QED BY <2>1, <3>2 DEF Moved, Completing
  <2>2. CASE \E p \in Reqs : req[p].email = e /\ Completing(p)
    <3>1. PICK p \in Reqs : req[p].email = e /\ Completing(p)
      BY <2>2
    <3>2. CASE Step(p) \/ RequestFails(p)
      BY <1>0, <3>1, <3>2, CompletionStep
    <3>3. CASE Moved(req[p], req'[p], req[p].pc)
      BY <3>1, <3>3 DEF Moved, Completing
    <3>4. CASE Arrive(p)
      BY <3>1, <3>4
         DEF Arrive, RegisterLocal, ChangeLocalPassword, LoginWithGoogleCode,
             LoginWithLocalPassword, RequestLocalEmailVerification, ForgotLocalPassword,
             ConfirmLocalEmailVerification, ResetLocalPassword, Begin, Completing
    <3>5. ASSUME NEW q \in Reqs, q # p, Arrive(q) \/ Step(q) \/ RequestFails(q)
          PROVE  Moved(req[p], req'[p], req[p].pc)
      <4>1. CASE Arrive(q)
        BY <1>0, <3>5, <4>1, ArriveType DEF Moved
      <4> QED BY <1>0, <3>5, <4>1, StepType DEF OthersSame
    <3>6. ASSUME UNCHANGED req PROVE Moved(req[p], req'[p], req[p].pc)
      BY <3>6 DEF Moved
    <3> QED BY <3>2, <3>3, <3>4, <3>5, <3>6 DEF Next, ExpireToken, vars
  <2>3. account[e].exists =>
          \/ account[e].password # Nil \/ account[e].google \/ e \in broken
          \/ \E p \in Reqs : req[p].email = e /\ Completing(p)
    BY DEF OrphanInv, OrphanOnlyAfterFailure, HasPassword, Completing
  <2>4. account[e].exists \/ \E p \in Reqs : CreateUser(p) /\ req[p].email = e
    BY <1>0, <1>1 DEF AccountOrigin
  <2> QED BY <1>0, <2>1, <2>2, <2>3, <2>4 DEF Lasting, AccountsOnlyGrow
<1>2. OrphanOnlyAfterFailure'
  BY <1>1 DEF OrphanOnlyAfterFailure, HasPassword, Completing
<1> QED BY <1>0, <1>2 DEF OrphanInv

\* Theorem: RegisterLocal and HandleGoogleCallback, which create the user, its role and its
\* credential or link in separate statements, leave no account behind that nobody can sign in
\* to, unless a request failed between two of them.
THEOREM OrphanOnlyAfterFailureHolds == Spec => []OrphanOnlyAfterFailure
<1>1. ASSUME Init PROVE OrphanOnlyAfterFailure
  BY <1>1 DEF Init, NoAccount, OrphanOnlyAfterFailure
<1>2. OrphanInv <=> AccountInv /\ OrphanOnlyAfterFailure
  BY DEF OrphanInv
<1> QED BY <1>1, <1>2, NextOrphan, AccountInvariant, PTL DEF Spec

-----------------------------------------------------------------------------
(* A verification token acts at most once.                                 *)

\* The request has consumed its token and not yet acted on it.
Holds(p) == req[p].pc = "mark" \/ (req[p].pc = "update" /\ req[p].op = "reset")

ConsumedInv ==
  /\ TypeInv
  /\ \A t \in applied : token[t].state = "used"
  /\ \A p \in Reqs : Holds(p) => token[req[p].tok].state = "used" /\ req[p].tok \notin applied
  /\ \A p, q \in Reqs : Holds(p) /\ Holds(q) /\ req[p].tok = req[q].tok => p = q

\* Only Consume makes a request the holder of a token, and it finds the token active.
LEMMA BecomesHolder ==
  ASSUME TypeInv, [Next]_vars, NEW p \in Reqs, Holds(p)'
  PROVE  \/ Holds(p) /\ req'[p].tok = req[p].tok
         \/ /\ Consume(p) /\ req'[p].tok = req[p].tok /\ req[p].tok \in Tokens
            /\ token[req[p].tok].state = "active" /\ token'[req[p].tok].state = "used"
<1>0. /\ req \in [Reqs -> Request] /\ token \in [Tokens -> VerificationToken]
      /\ req[p] \in Request /\ RequestShape(req[p])
  BY DEF TypeInv, TypeOK, Shapes
<1>1. CASE Moved(req[p], req'[p], req[p].pc)
  BY <1>1 DEF Moved, Holds
<1>2. CASE Arrive(p)
  <2>1. ASSUME NEW e \in Emails, NEW w \in Passwords, ChangeLocalPassword(p, e, w)
        PROVE  req'[p].op = "change" /\ req'[p].pc = "update"
    BY <1>0, <2>1 DEF ChangeLocalPassword, Begin, IdleReq
  <2>2. ASSUME NEW e \in Emails, NEW w \in Passwords, RegisterLocal(p, e, w)
        PROVE  req'[p].pc \notin {"mark", "update"}
    BY <1>0, <2>2 DEF RegisterLocal, Begin, IdleReq
  <2>3. ASSUME NEW e \in Emails,
               \/ LoginWithLocalPassword(p, e) \/ RequestLocalEmailVerification(p, e)
               \/ ForgotLocalPassword(p, e)
        PROVE  req'[p].pc \notin {"mark", "update"}
    <3> USE <1>0 DEF Begin, IdleReq
    <3>1. CASE LoginWithLocalPassword(p, e)
      BY <3>1 DEF LoginWithLocalPassword
    <3>2. CASE RequestLocalEmailVerification(p, e)
      BY <3>2 DEF RequestLocalEmailVerification
    <3>3. CASE ForgotLocalPassword(p, e)
      BY <3>3 DEF ForgotLocalPassword
    <3> QED BY <2>3, <3>1, <3>2, <3>3
  <2>6. ASSUME NEW e \in Emails, LoginWithGoogleCode(p, e)
        PROVE  req'[p].pc \notin {"mark", "update"}
    BY <1>0, <2>6 DEF LoginWithGoogleCode, Begin, IdleReq
  <2>4. ASSUME NEW t \in Tokens, ConfirmLocalEmailVerification(p, t)
        PROVE  req'[p].pc \notin {"mark", "update"}
    BY <1>0, <2>4 DEF ConfirmLocalEmailVerification, Begin, IdleReq
  <2>5. ASSUME NEW t \in Tokens, NEW w \in Passwords, ResetLocalPassword(p, t, w)
        PROVE  req'[p].pc \notin {"mark", "update"}
    BY <1>0, <2>5 DEF ResetLocalPassword, Begin, IdleReq
  <2> QED BY <1>2, <2>1, <2>2, <2>3, <2>4, <2>5, <2>6 DEF Arrive, Holds
<1>3. CASE Consume(p)
  <2>1. req[p].tok \in Tokens
    BY <1>0, <1>3 DEF Consume, At, RequestShape, Request, Statements
  <2>2. CASE Finish(p)
    BY <1>0, <2>2, RequestMoves DEF IdleReq, Holds
  <2>3. CASE /\ token[req[p].tok].state = "active"
             /\ token' = [token EXCEPT ![req[p].tok].state = "used"]
             /\ \E label : Goto(p, label)
    <3>1. req'[p].tok = req[p].tok
      BY <1>0, <2>3, RequestMoves DEF Moved
    <3>2. token'[req[p].tok].state = "used"
      BY <1>0, <2>1, <2>3 DEF VerificationToken
    <3> QED BY <1>3, <2>1, <2>3, <3>1, <3>2
  <2> QED BY <1>3, <2>2, <2>3 DEF Consume, Consumable
<1>4. CASE UpdatePassword(p)
  BY <1>0, <1>4 DEF UpdatePassword, Request, Holds
<1>5. ASSUME Finish(p) PROVE FALSE
  BY <1>0, <1>5, RequestMoves DEF IdleReq, Holds
<1>6. ASSUME NEW label, Goto(p, label), label \notin {"mark", "update"} PROVE FALSE
  BY <1>0, <1>6, RequestMoves DEF Moved, Holds
<1>7. ASSUME FindByEmail(p) \/ CreateUser(p) \/ LinkGoogle(p) \/ CreateCredential(p) \/ Issue(p)
      PROVE  FALSE
  BY <1>5, <1>6, <1>7 DEF FindByEmail, CreateUser, LinkGoogle, CreateCredential, Issue
<1>8. ASSUME AddUserRole(p) \/ AssignBootstrapAdmin(p) PROVE FALSE
  BY <1>5, <1>6, <1>8 DEF AddUserRole, AfterRole, AssignBootstrapAdmin, AfterAdmin
<1>9. ASSUME \/ InvalidateActiveByUserPurpose(p) \/ CreateToken(p) \/ MarkEmailVerified(p)
             \/ RevokeAll(p) \/ RequestFails(p)
      PROVE  FALSE
  BY <1>5, <1>6, <1>9
     DEF InvalidateActiveByUserPurpose, CreateToken, MarkEmailVerified, RevokeAll, RequestFails
<1>10. ASSUME NEW q \in Reqs, q # p, Arrive(q) \/ Step(q) \/ RequestFails(q)
       PROVE  Moved(req[p], req'[p], req[p].pc)
  <2>1. CASE Arrive(q)
    BY <1>10, <2>1, ArriveType DEF Moved
  <2> QED BY <1>10, <2>1, StepType DEF OthersSame
<1>11. ASSUME UNCHANGED req PROVE Moved(req[p], req'[p], req[p].pc)
  BY <1>11 DEF Moved
<1> QED
  BY <1>1, <1>2, <1>3, <1>4, <1>7, <1>8, <1>9, <1>10, <1>11 DEF Next, Step, ExpireToken, vars

\* Only a holder applies its token, and no longer holds it afterwards.
LEMMA AppliedByHolder ==
  ASSUME TypeInv, [Next]_vars
  PROVE  \/ applied' = applied
         \/ /\ UNCHANGED token
            /\ \E p \in Reqs : Holds(p) /\ ~Holds(p)' /\ applied' = applied \cup {req[p].tok}
<1>0. req \in [Reqs -> Request]
  BY DEF TypeInv, TypeOK
<1>1. ASSUME NEW p \in Reqs, MarkEmailVerified(p)
      PROVE  /\ UNCHANGED token /\ Holds(p) /\ ~Holds(p)'
             /\ applied' = applied \cup {req[p].tok}
  <2>1. req'[p] = IdleReq
    BY <1>0, <1>1, RequestMoves DEF MarkEmailVerified
  <2> QED BY <1>1, <2>1 DEF MarkEmailVerified, At, Holds, IdleReq
<1>2. ASSUME NEW p \in Reqs, UpdatePassword(p), req[p].op = "reset"
      PROVE  /\ UNCHANGED token /\ Holds(p) /\ ~Holds(p)'
             /\ applied' = applied \cup {req[p].tok}
  <2>1. req'[p].pc = "revoke"
    BY <1>0, <1>2 DEF UpdatePassword, Request
  <2> QED BY <1>2, <2>1 DEF UpdatePassword, At, Holds
<1>3. ASSUME NEW p \in Reqs, UpdatePassword(p), req[p].op # "reset" PROVE applied' = applied
  BY <1>3 DEF UpdatePassword
<1>4. ASSUME NEW p \in Reqs, Arrive(p) PROVE applied' = applied
  BY <1>4, ArriveType
<1>5. ASSUME NEW p \in Reqs,
             \/ FindByEmail(p) \/ CreateUser(p) \/ AddUserRole(p) \/ CreateCredential(p)
             \/ LinkGoogle(p) \/ AssignBootstrapAdmin(p) \/ Issue(p)
             \/ InvalidateActiveByUserPurpose(p) \/ CreateToken(p) \/ Consume(p) \/ RevokeAll(p)
             \/ RequestFails(p)
      PROVE  applied' = applied
  BY <1>5 DEF FindByEmail, CreateUser, AddUserRole, CreateCredential, LinkGoogle,
              AssignBootstrapAdmin, Issue, InvalidateActiveByUserPurpose, CreateToken, Consume,
              RevokeAll, RequestFails, RestUnchanged
<1>6. ASSUME UNCHANGED vars \/ \E t \in Tokens : ExpireToken(t) PROVE applied' = applied
  BY <1>6 DEF vars, ExpireToken, RestUnchanged
<1> QED BY <1>1, <1>2, <1>3, <1>4, <1>5, <1>6 DEF Next, Step

\* A token has at most one holder and is never applied while it has one.
LEMMA NextConsumed == ConsumedInv /\ [Next]_vars => ConsumedInv'
<1> SUFFICES ASSUME ConsumedInv, [Next]_vars PROVE ConsumedInv'
  OBVIOUS
<1>0. /\ TypeInv /\ TypeInv' /\ Lasting /\ TokensOnlyDie
      /\ \A p \in Reqs : Holds(p) => req[p].tok \in Tokens
      /\ \A t \in applied : t \in Tokens
  <2>1. TypeInv /\ TypeInv' /\ Lasting
    BY NextTypeInv, StepLasting DEF ConsumedInv
  <2>2. ASSUME NEW p \in Reqs, Holds(p) PROVE req[p].tok \in Tokens
    <3>1. req[p] \in Request /\ RequestShape(req[p])
      BY <2>1 DEF TypeInv, TypeOK, Shapes
    <3> QED BY <2>2, <3>1 DEF Holds, RequestShape, Request, Statements
  <2> QED BY <2>1, <2>2 DEF Lasting, TypeInv, TypeOK
<1>1. ASSUME NEW t \in applied' PROVE token'[t].state = "used"
  <2>1. t \in applied \/ \E p \in Reqs : Holds(p) /\ t = req[p].tok
    BY <1>0, AppliedByHolder
  <2>2. t \in Tokens /\ token[t].state = "used"
    BY <1>0, <2>1 DEF ConsumedInv
  <2> QED BY <1>0, <2>2 DEF TokensOnlyDie
<1>2. ASSUME NEW p \in Reqs, Holds(p)'
      PROVE  token'[req'[p].tok].state = "used" /\ req'[p].tok \notin applied'
  <2>1. CASE Holds(p) /\ req'[p].tok = req[p].tok
    <3>1. /\ req[p].tok \in Tokens /\ token[req[p].tok].state = "used"
          /\ req[p].tok \notin applied
      BY <1>0, <2>1 DEF ConsumedInv
    <3>2. ASSUME NEW q \in Reqs, Holds(q), ~Holds(q)' PROVE req[q].tok # req[p].tok
      <4>1. p # q
        BY <1>2, <3>2
      <4> QED BY <2>1, <3>2, <4>1 DEF ConsumedInv
    <3> QED BY <1>0, <2>1, <3>1, <3>2, AppliedByHolder DEF TokensOnlyDie
  <2>2. CASE /\ Consume(p) /\ req'[p].tok = req[p].tok /\ req[p].tok \in Tokens
             /\ token[req[p].tok].state = "active" /\ token'[req[p].tok].state = "used"
    <3>1. applied' = applied
      BY <2>2 DEF Consume, RestUnchanged
    <3> QED BY <2>2, <3>1 DEF ConsumedInv
  <2> QED BY <1>0, <1>2, <2>1, <2>2, BecomesHolder
<1>3. ASSUME NEW p \in Reqs, NEW q \in Reqs, Holds(p)', Holds(q)', req'[p].tok = req'[q].tok, p # q
      PROVE  FALSE
  <2>1. ASSUME NEW r \in Reqs, NEW o \in Reqs, r # o, Consume(r),
               token[req[r].tok].state = "active", Holds(o)', req'[o].tok = req[r].tok
        PROVE  FALSE
    <3>1. Moved(req[o], req'[o], req[o].pc)
      BY <1>0, <2>1, StepType DEF OthersSame, Step
    <3>2. Holds(o) /\ req[o].tok = req[r].tok
      BY <2>1, <3>1 DEF Moved, Holds
    <3> QED BY <2>1, <3>2 DEF ConsumedInv
  <2>2. \/ Holds(p) /\ req'[p].tok = req[p].tok
        \/ Consume(p) /\ token[req[p].tok].state = "active" /\ req'[p].tok = req[p].tok
    BY <1>0, <1>3, BecomesHolder
  <2>3. \/ Holds(q) /\ req'[q].tok = req[q].tok
        \/ Consume(q) /\ token[req[q].tok].state = "active" /\ req'[q].tok = req[q].tok
    BY <1>0, <1>3, BecomesHolder
  <2>4. ~(Holds(p) /\ Holds(q) /\ req[p].tok = req[q].tok)
    BY <1>3 DEF ConsumedInv
  <2> QED BY <1>3, <2>1, <2>2, <2>3, <2>4
<1> QED BY <1>0, <1>1, <1>2, <1>3 DEF ConsumedInv

\* Theorem: however often and however concurrently it is presented, a verification token
\* verifies an e-mail or sets a password at most once (the guarded UPDATE of Consume).
THEOREM TokenAppliedOnceHolds == Spec => TokenAppliedOnce
<1>1. ASSUME Init PROVE ConsumedInv
  <2>1. applied = {} /\ \A p \in Reqs : ~Holds(p)
    BY <1>1 DEF Init, IdleReq, Holds
  <2> QED BY <1>1, <2>1, InitTypeInv DEF ConsumedInv
<1>2. ConsumedInv /\ [Next]_vars =>
        [\A p \in Reqs : MarkEmailVerified(p) \/ (UpdatePassword(p) /\ req[p].op = "reset")
           => req[p].tok \notin applied]_vars
  BY DEF ConsumedInv, Holds, MarkEmailVerified, UpdatePassword, At
<1> QED BY <1>1, <1>2, NextConsumed, PTL DEF Spec, TokenAppliedOnce

=============================================================================
