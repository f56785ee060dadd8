----------------------------- MODULE Credentials -----------------------------
(***************************************************************************)
(* Accounts: registration, local and Google sign-in, e-mail verification,  *)
(* forgotten, reset and changed passwords (AuthService, OAuthService and   *)
(* the repositories they call).  None of these operations is wrapped in a  *)
(* transaction: every statement is a step, and a request may fail or die   *)
(* between any two of them.                                                *)
(*                                                                         *)
(* users.email is unique, so an account is named by its (normalised)       *)
(* e-mail, and a Google account by the e-mail it reports.  A password is a *)
(* model value: an argon2 hash verifies the password it was made from.     *)
(* Input that fails validation, an unknown e-mail and a wrong password are *)
(* answered without touching any state and are left out.  Sessions are     *)
(* abstracted to whether they are live; the module Sessions refines them.  *)
(***************************************************************************)
CONSTANTS
  Emails,
  Passwords,       \* passwords that satisfy validatePassword
  Tokens,          \* verification tokens (their number is the bound)
  SessionIds,      \* sessions (their number is the bound)
  Reqs,            \* requests served at the same time
  BootstrapAdmin,  \* BOOTSTRAP_ADMIN_EMAIL, or Nil
  Nil,
  Failures         \* TRUE: statements may fail and requests may die

ASSUME NilAssumption == Nil \notin Emails \cup Passwords \cup Tokens \cup SessionIds
ASSUME RowsAssumption == Tokens \cap SessionIds = {}
ASSUME FailuresAssumption == Failures \in BOOLEAN

VARIABLES
  requireVerified,  \* AUTH_LOCAL_REQUIRE_EMAIL_VERIFICATION of this deployment
  account,   \* users, local_credentials and oauth_accounts, by e-mail
  token,     \* verification_tokens
  session,   \* sessions
  req,       \* requests being served
  applied,   \* history: tokens that have verified an e-mail or set a password
  broken     \* history: accounts whose creation was cut short

vars == <<requireVerified, account, token, session, req, applied, broken>>

-----------------------------------------------------------------------------
Roles == {"user", "admin"}
Purposes == {"email_verify", "password_reset"}

Account ==
  [exists   : BOOLEAN,
   password : Passwords \cup {Nil},   \* Nil: no row in local_credentials
   verified : BOOLEAN,
   google   : BOOLEAN,                \* a row in oauth_accounts
   roles    : SUBSET Roles]

NoAccount ==
  [exists |-> FALSE, password |-> Nil, verified |-> FALSE, google |-> FALSE, roles |-> {}]

VerificationToken ==
  [state   : {"free", "active", "used"},
   email   : Emails \cup {Nil},
   purpose : Purposes \cup {Nil},
   expired : BOOLEAN]

FreeToken == [state |-> "free", email |-> Nil, purpose |-> Nil, expired |-> FALSE]

\* via: how its owner signed in; late: history, with a password changed meanwhile.
Session ==
  [state : {"free", "live", "revoked"},
   email : Emails \cup {Nil},
   via   : {"none", "password", "google"},
   late  : BOOLEAN]

FreeSession == [state |-> "free", email |-> Nil, via |-> "none", late |-> FALSE]

\* pc names the statement a request runs next.
Request ==
  [op     : {"none", "register", "login", "google", "verify", "forgot", "confirm", "reset",
             "change"},
   pc     : {"idle", "find_email", "create_user", "role", "credential", "link", "admin",
             "issue", "invalidate", "create_token", "consume", "mark", "update", "revoke",
             "done"},
   email  : Emails \cup {Nil},
   pw     : Passwords \cup {Nil},     \* the password to store
   tok    : Tokens \cup {Nil},
   late   : BOOLEAN,                  \* history: the password it verified was changed
   before : SUBSET (Tokens \cup SessionIds)]  \* history: what the request has to end

IdleReq ==
  [op |-> "none", pc |-> "idle", email |-> Nil, pw |-> Nil, tok |-> Nil, late |-> FALSE,
   before |-> {}]

Init ==
  /\ requireVerified \in BOOLEAN
  /\ account = [e \in Emails |-> NoAccount]
  /\ token = [t \in Tokens |-> FreeToken]
  /\ session = [s \in SessionIds |-> FreeSession]
  /\ req = [p \in Reqs |-> IdleReq]
  /\ applied = {}
  /\ broken = {}

At(p, label) == req[p].pc = label
Goto(p, label) == req' = [req EXCEPT ![p].pc = label]
Finish(p) == req' = [req EXCEPT ![p] = IdleReq]

\* A request arrives; what it has to find before it touches anything is the guard.
Begin(p, op, label, e, w, t, before) ==
  /\ req[p].pc \in {"idle", "done"}
  /\ req' = [req EXCEPT ![p] = [IdleReq EXCEPT !.op = op, !.pc = label, !.email = e,
                                               !.pw = w, !.tok = t, !.before = before]]
  /\ UNCHANGED <<requireVerified, account, token, session, applied, broken>>

RestUnchanged == UNCHANGED <<requireVerified, applied, broken>>

HasPassword(e) == account[e].password # Nil
Active(t) == token[t].state = "active" /\ ~token[t].expired
ActiveTokens(e, purpose) ==
  {t \in Tokens : Active(t) /\ token[t].email = e /\ token[t].purpose = purpose}
LiveSessions(e) == {s \in SessionIds : session[s].state = "live" /\ session[s].email = e}

-----------------------------------------------------------------------------
(* RegisterLocal and HandleGoogleCallback create accounts.                 *)

RegisterLocal(p, e, w) ==
  /\ ~account[e].exists
  /\ Begin(p, "register", "create_user", e, w, Nil, {})

\* Google has confirmed e; FindByProvider.
LoginWithGoogleCode(p, e) ==
  Begin(p, "google", IF account[e].google THEN "admin" ELSE "find_email", e, Nil, Nil, {})

\* The Google account is linked to a user with its e-mail, or to a new one.
FindByEmail(p) ==
  /\ At(p, "find_email")
  /\ Goto(p, IF account[req[p].email].exists THEN "link" ELSE "create_user")
  /\ UNCHANGED <<account, token, session>> /\ RestUnchanged

\* Faulty: users.email is not unique.
CreateUserTwice(p) ==
  /\ At(p, "create_user")
  /\ account' = [account EXCEPT ![req[p].email].exists = TRUE]
  /\ Goto(p, "role")
  /\ UNCHANGED <<token, session>> /\ RestUnchanged

\* The unique index on users.email refuses the second of two concurrent inserts.
CreateUser(p) ==
  /\ At(p, "create_user")
  /\ \/ /\ account[req[p].email].exists
        /\ Finish(p)
        /\ UNCHANGED account
     \/ /\ ~account[req[p].email].exists
        /\ account' = [account EXCEPT ![req[p].email].exists = TRUE]
        /\ Goto(p, "role")
  /\ UNCHANGED <<token, session>> /\ RestUnchanged

AfterRole(op) == IF op = "register" THEN "credential" ELSE "link"

\* Faulty: a failure to add the role ends the request.
AddUserRoleStrict(p) ==
  /\ At(p, "role")
  /\ \/ /\ account' = [account EXCEPT ![req[p].email].roles = @ \cup {"user"}]
        /\ Goto(p, AfterRole(req[p].op))
     \/ /\ Failures
        /\ Finish(p)
        /\ UNCHANGED account
  /\ UNCHANGED <<token, session>> /\ RestUnchanged

\* FindByName("user") and AddRole, whose errors are ignored.
AddUserRole(p) ==
  /\ At(p, "role")
  /\ \/ account' = [account EXCEPT ![req[p].email].roles = @ \cup {"user"}]
     \/ Failures /\ UNCHANGED account
  /\ Goto(p, AfterRole(req[p].op))
  /\ UNCHANGED <<token, session>> /\ RestUnchanged

CreateCredential(p) ==
  LET e == req[p].email IN
  /\ At(p, "credential") /\ ~HasPassword(e)
  /\ account' = [account EXCEPT ![e] = [@ EXCEPT !.password = req[p].pw,
                                                 !.verified = ~requireVerified]]
  /\ Goto(p, "admin")
  /\ UNCHANGED <<token, session>> /\ RestUnchanged

\* oauthRepo.Create: (provider, provider_user_id) is unique.
LinkGoogle(p) ==
  LET e == req[p].email IN
  /\ At(p, "link")
  /\ \/ /\ account[e].google
        /\ Finish(p)
        /\ UNCHANGED account
     \/ /\ ~account[e].google
        /\ account' = [account EXCEPT ![e].google = TRUE]
        /\ Goto(p, "admin")
  /\ UNCHANGED <<token, session>> /\ RestUnchanged

\* Faulty: a registration signs in whether or not the e-mail is verified.
AfterAdminSignIn(p) == Goto(p, "issue")

\* A registration that has to be verified first is answered without a session.
AfterAdmin(p) ==
  IF req[p].op = "register" /\ requireVerified THEN Finish(p) ELSE Goto(p, "issue")

\* (Google: save name and picture, read the user back;) assignBootstrapAdminIfNeeded.
AssignBootstrapAdmin(p) ==
  /\ At(p, "admin")
  /\ account' = [account EXCEPT ![req[p].email].roles =
       IF req[p].email = BootstrapAdmin THEN @ \cup {"admin"} ELSE @]
  /\ AfterAdmin(p)
  /\ UNCHANGED <<token, session>> /\ RestUnchanged

-----------------------------------------------------------------------------
(* LoginWithLocalPassword: one read of the credential decides; the session *)
(* is issued later.                                                        *)

LoginWithLocalPassword(p, e) ==
  /\ HasPassword(e) /\ (requireVerified => account[e].verified)
  /\ Begin(p, "login", "issue", e, Nil, Nil, {})

\* GetByID and TokenService.Issue.
Issue(p) ==
  /\ At(p, "issue")
  /\ \E s \in SessionIds :
       /\ session[s].state = "free"
       /\ session' = [session EXCEPT ![s] =
            [state |-> "live", email |-> req[p].email,
             via   |-> IF req[p].op = "google" THEN "google" ELSE "password",
             late  |-> req[p].late]]
  /\ Finish(p)
  /\ UNCHANGED <<account, token>> /\ RestUnchanged

-----------------------------------------------------------------------------
(* Verification tokens.                                                    *)

RequestLocalEmailVerification(p, e) ==
  /\ HasPassword(e) /\ ~account[e].verified
  /\ Begin(p, "verify", "invalidate", e, Nil, Nil, ActiveTokens(e, "email_verify"))

ForgotLocalPassword(p, e) ==
  /\ HasPassword(e)
  /\ Begin(p, "forgot", "invalidate", e, Nil, Nil, ActiveTokens(e, "password_reset"))

PurposeOf(op) == IF op \in {"verify", "confirm"} THEN "email_verify" ELSE "password_reset"

\* Faulty: the tokens of the other purpose are invalidated.
InvalidateOtherPurpose(p) ==
  /\ At(p, "invalidate")
  /\ token' = [t \in Tokens |->
       IF Active(t) /\ token[t].email = req[p].email /\ token[t].purpose # PurposeOf(req[p].op)
         THEN [token[t] EXCEPT !.state = "used"] ELSE token[t]]
  /\ Goto(p, "create_token")
  /\ UNCHANGED <<account, session>> /\ RestUnchanged

InvalidateActiveByUserPurpose(p) ==
  /\ At(p, "invalidate")
  /\ token' = [t \in Tokens |->
       IF t \in ActiveTokens(req[p].email, PurposeOf(req[p].op))
         THEN [token[t] EXCEPT !.state = "used"] ELSE token[t]]
  /\ Goto(p, "create_token")
  /\ UNCHANGED <<account, session>> /\ RestUnchanged

\* Create; the notification that follows changes nothing here, sent or not.
CreateToken(p) ==
  /\ At(p, "create_token")
  /\ \E t \in Tokens :
       /\ token[t].state = "free"
       /\ token' = [token EXCEPT ![t] =
            [state |-> "active", email |-> req[p].email, purpose |-> PurposeOf(req[p].op),
             expired |-> FALSE]]
  /\ Goto(p, "done")
  /\ UNCHANGED <<account, session>> /\ RestUnchanged

\* FindActiveByHashPurpose for a token someone presents.
ConfirmLocalEmailVerification(p, t) ==
  /\ Active(t) /\ token[t].purpose = "email_verify"
  /\ Begin(p, "confirm", "consume", token[t].email, Nil, t, {})

ResetLocalPassword(p, t, w) ==
  /\ Active(t) /\ token[t].purpose = "password_reset"
  /\ Begin(p, "reset", "consume", token[t].email, w, t, {})

\* Faulty: the UPDATE does not ask for used_at IS NULL.
ConsumableUsed(t) == TRUE

\* The WHERE clause of Consume; expires_at was checked when the token was read.
Consumable(t) == token[t].state = "active"

Consume(p) ==
  LET t == req[p].tok IN
  /\ At(p, "consume")
  /\ \/ /\ ~Consumable(t)
        /\ Finish(p)
        /\ UNCHANGED token
     \/ /\ Consumable(t)
        /\ token' = [token EXCEPT ![t].state = "used"]
        /\ Goto(p, IF req[p].op = "confirm" THEN "mark" ELSE "update")
  /\ UNCHANGED <<account, session>> /\ RestUnchanged

MarkEmailVerified(p) ==
  /\ At(p, "mark")
  /\ account' = [account EXCEPT ![req[p].email].verified = TRUE]
  /\ Finish(p)
  /\ applied' = applied \cup {req[p].tok}
  /\ UNCHANGED <<requireVerified, token, session, broken>>

-----------------------------------------------------------------------------
(* New passwords: update the credential, then revoke every session.        *)

\* A signed-in user whose current password was verified; w differs from it.
ChangeLocalPassword(p, e, w) ==
  /\ \E s \in SessionIds : session[s].email = e
  /\ HasPassword(e) /\ w # account[e].password
  /\ Begin(p, "change", "update", e, w, Nil, {})

\* A sign-in that verified the old password goes on (history: late).
UpdatePassword(p) ==
  LET e == req[p].email IN
  /\ At(p, "update")
  /\ account' = [account EXCEPT ![e].password = req[p].pw]
  /\ req' = [q \in Reqs |->
       IF q = p THEN [req[q] EXCEPT !.pc = "revoke", !.before = LiveSessions(e)]
       ELSE IF req[q].op \in {"login", "register"} /\ req[q].email = e
         THEN [req[q] EXCEPT !.late = TRUE] ELSE req[q]]
  /\ applied' = IF req[p].op = "reset" THEN applied \cup {req[p].tok} ELSE applied
  /\ UNCHANGED <<requireVerified, token, session, broken>>

\* Faulty: the answer does not wait for the revocation.
RevokeAllLater(p) ==
  /\ At(p, "revoke")
  /\ Goto(p, "done")
  /\ UNCHANGED <<account, token, session>> /\ RestUnchanged

RevokeAll(p) ==
  /\ At(p, "revoke")
  /\ session' = [s \in SessionIds |->
       IF s \in LiveSessions(req[p].email) THEN [session[s] EXCEPT !.state = "revoked"]
       ELSE session[s]]
  /\ Goto(p, "done")
  /\ UNCHANGED <<account, token>> /\ RestUnchanged

-----------------------------------------------------------------------------
(* The environment.                                                        *)

\* A statement fails and ends the request, or the process dies.
RequestFails(p) ==
  /\ Failures /\ req[p].pc \notin {"idle", "done"}
  /\ Finish(p)
  /\ broken' = IF req[p].pc \in {"role", "credential", "link"}
                 THEN broken \cup {req[p].email} ELSE broken
  /\ UNCHANGED <<requireVerified, account, token, session, applied>>

ExpireToken(t) ==
  /\ Active(t)
  /\ token' = [token EXCEPT ![t].expired = TRUE]
  /\ UNCHANGED <<account, session, req>> /\ RestUnchanged

Arrive(p) ==
  \/ \E e \in Emails, w \in Passwords : RegisterLocal(p, e, w) \/ ChangeLocalPassword(p, e, w)
  \/ \E e \in Emails : \/ LoginWithGoogleCode(p, e) \/ LoginWithLocalPassword(p, e)
                       \/ RequestLocalEmailVerification(p, e) \/ ForgotLocalPassword(p, e)
  \/ \E t \in Tokens : ConfirmLocalEmailVerification(p, t)
  \/ \E t \in Tokens, w \in Passwords : ResetLocalPassword(p, t, w)

Step(p) ==
  \/ FindByEmail(p) \/ CreateUser(p) \/ AddUserRole(p) \/ CreateCredential(p)
  \/ LinkGoogle(p) \/ AssignBootstrapAdmin(p) \/ Issue(p)
  \/ InvalidateActiveByUserPurpose(p) \/ CreateToken(p) \/ Consume(p)
  \/ MarkEmailVerified(p) \/ UpdatePassword(p) \/ RevokeAll(p)

Next ==
  \/ \E p \in Reqs : Arrive(p) \/ Step(p) \/ RequestFails(p)
  \/ \E t \in Tokens : ExpireToken(t)

Spec == Init /\ [][Next]_vars

-----------------------------------------------------------------------------
(* Properties.                                                             *)

\* Every table and request stays within its type.
TypeOK ==
  /\ requireVerified \in BOOLEAN
  /\ account \in [Emails -> Account]
  /\ token \in [Tokens -> VerificationToken]
  /\ session \in [SessionIds -> Session]
  /\ req \in [Reqs -> Request]
  /\ applied \in SUBSET Tokens
  /\ broken \in SUBSET Emails

\* However often and however concurrently it is presented, a verification token
\* verifies an e-mail or sets a password at most once.
TokenAppliedOnce ==
  [][\A p \in Reqs : MarkEmailVerified(p) \/ (UpdatePassword(p) /\ req[p].op = "reset")
       => req[p].tok \notin applied]_vars

\* Once a forgot-password or verification request is answered, every token that was
\* active when it arrived is dead, whatever else was going on.
SupersededTokenIsDead ==
  \A p \in Reqs, t \in Tokens :
    At(p, "done") /\ t \in req[p].before => ~Active(t)

\* Of all the registrations and Google sign-ins racing for an e-mail one creates the
\* account, and no registration finds a password already there.
OneRegistrant ==
  \A p, q \in Reqs :
    LET creating(r) == req[r].pc \in {"role", "credential"} IN
    /\ creating(p) => ~HasPassword(req[p].email)
    /\ creating(p) /\ creating(q) /\ req[p].email = req[q].email => p = q

\* Once a password reset or change is answered, no session that was live when the
\* password changed is live.
ChangeEndsSessions ==
  \A p \in Reqs, s \in SessionIds :
    At(p, "done") /\ s \in req[p].before => session[s].state # "live"

\* Where e-mails have to be verified, whoever has signed in with a password has.
OnlyVerifiedSignIn ==
  requireVerified =>
    \A s \in SessionIds : session[s].via = "password" => account[session[s].email].verified

\* An account that nobody can sign in to is being created, or its creation failed
\* midway: RegisterLocal and HandleGoogleCallback leave none behind by themselves.
OrphanOnlyAfterFailure ==
  \A e \in Emails :
    account[e].exists =>
      \/ HasPassword(e) \/ account[e].google \/ e \in broken
      \/ \E p \in Reqs : req[p].email = e /\ req[p].pc \in {"role", "credential", "link"}

\* Once a password has been reset or changed, nobody stays signed in with the old one.
OldPasswordLocksOut ==
  \A p \in Reqs, s \in SessionIds :
    At(p, "done") /\ req[p].op \in {"reset", "change"}
      => ~(session[s].state = "live" /\ session[s].late /\ session[s].email = req[p].email)
=============================================================================
