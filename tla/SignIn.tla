------------------------------- MODULE SignIn -------------------------------
(***************************************************************************)
(* Signing in to the admin panel: a password, then an authenticator code,  *)
(* then a session that may work. One staff account, the browsers it is     *)
(* used from, each with its cookie, and the requests they have under way,  *)
(* from one tab or from several; a request is a page visit or a server     *)
(* action and runs statement by statement.                                 *)
(***************************************************************************)
EXTENDS Naturals, FiniteSets

CONSTANTS
  Request,       \* what may be under way at once: the tabs, each with one request
  Browser,
  BrowserOf,     \* request -> the browser whose cookie it carries
  MaxSession,    \* bound: sessions ever created
  MaxSecret,     \* bound: authenticator secrets ever issued
  MaxStep,       \* bound: time steps that pass
  MaxFailures,   \* wrong codes that lock the account (MAX_FAILURES)
  LoginAttempts  \* failed sign-ins a window allows (env.access.loginAttempts)

ASSUME SignInAssumption ==
  /\ IsFiniteSet(Request) /\ BrowserOf \in [Request -> Browser]
  /\ MaxSession \in Nat /\ MaxSecret \in Nat \ {0} /\ MaxStep \in Nat \ {0}
  /\ MaxFailures \in Nat \ {0} /\ LoginAttempts \in Nat \ {0}

VARIABLES
  now,        \* the time step of the server's clock
  account,    \* the game account: its password, whether it is staff, its ban
  attempts,   \* admin_login_attempt: failures in the window
  guesses,    \* wrong passwords that were compared in the window
  totp,       \* admin_totp: the account's row
  recovery,   \* admin_recovery_code: the latest batch, and whether a code is left
  session,    \* admin_session
  cookie,     \* browser -> the session its cookie names, 0 for none
  req,        \* the requests under way
  shown,      \* request -> the secret on the enrolment page of its tab
  device,     \* the secret in the person's authenticator
  held,       \* the batch of recovery codes the person wrote down
  accepted,   \* codes accepted since the enrolment was last confirmed
  redeemed,   \* batches a recovery code of which was accepted
  issued      \* secrets issued

person == <<shown, device, held>>
history == <<guesses, accepted, redeemed, issued>>
vars == <<now, account, attempts, totp, recovery, session, cookie, req,
          person, history>>

Stages == {"pending_totp", "pending_enrolment", "active"}
Session == 1..MaxSession
States == {"none", "live", "idle", "expired", "revoked"}
Unborn == [state |-> "none", fp |-> 0, stage |-> "pending_totp"]

NoRow == [secret |-> 0, confirmed |-> FALSE, last |-> 0, failures |-> 0, locked |-> FALSE]
HasRow == totp.secret # 0

Kinds == {"password", "verify", "recovery", "confirm", "restart", "finish", "signOut",
          "enrolPage", "visit"}
Steps == {"idle", "credentials", "mfa", "create", "failed",
          "refused", "work", "count", "spend", "clear", "promote", "issue", "commit"}
Idle == [kind |-> "visit", step |-> "idle", stage |-> "active", fp |-> 0, id |-> 0,
         code |-> 0, secret |-> 0, failures |-> 0]

At(r, step) == req[r].step = step
Doing(r, kind, step) == req[r].kind = kind /\ req[r].step = step

Goto(r, step) ==
  req' = [req EXCEPT ![r] = [Idle EXCEPT !.kind = req[r].kind, !.step = step, !.id = req[r].id]]
\* The page is shown, or the browser sent to another, which it asks for anew.
Answer(r) == req' = [req EXCEPT ![r] = Idle]

\* Any page may be asked for and any server action sent at any time, whatever
\* the browser shows: an action runs its own checks (actions.ts:15-18).
Begins(r) == At(r, "idle")

-----------------------------------------------------------------------------
(* Step one: the password *)

Blocked_OneMore == attempts > LoginAttempts
Blocked == attempts >= LoginAttempts

CheckThrottle(r) ==
  /\ Begins(r)
  /\ req' = IF Blocked
              THEN req
              ELSE [req EXCEPT ![r] = [Idle EXCEPT !.kind = "password", !.step = "credentials"]]
  /\ UNCHANGED <<now, account, attempts, totp, recovery, session, cookie, person, history>>

\* The account is read and the password compared.
ReadCredentials(r, correct) ==
  /\ Doing(r, "password", "credentials")
  /\ IF correct /\ account.staff /\ ~account.banned
       THEN req' = [req EXCEPT ![r].step = "mfa", ![r].fp = account.cred]
       ELSE Goto(r, "failed")
  /\ guesses' = IF correct THEN guesses ELSE guesses + 1
  /\ UNCHANGED <<now, account, attempts, totp, recovery, session, cookie, person,
                 accepted, redeemed, issued>>

\* mfaState: an account without a second factor is sent to enrol.
ReadMfaState(r) ==
  /\ Doing(r, "password", "mfa")
  /\ IF totp.locked
       THEN Goto(r, "failed")
       ELSE req' = [req EXCEPT ![r].step = "create",
              ![r].stage = IF totp.confirmed THEN "pending_totp" ELSE "pending_enrolment"]
  /\ UNCHANGED <<now, account, attempts, totp, recovery, session, cookie, person, history>>

\* createSession inserts the row and the cookie names it.
CreateSession(r) ==
  /\ Doing(r, "password", "create")
  /\ \E s \in Session :
       /\ session[s].state = "none" /\ \A t \in 1..(s - 1) : session[t].state # "none"
       /\ session' = [session EXCEPT ![s] =
            [state |-> "live", fp |-> req[r].fp, stage |-> req[r].stage]]
       /\ cookie' = [cookie EXCEPT ![BrowserOf[r]] = s]
  /\ Answer(r)
  /\ UNCHANGED <<now, account, attempts, totp, recovery, person, history>>

\* recordAttempt of a failure; the form is shown again.
RecordFailure(r) ==
  /\ At(r, "failed")
  /\ attempts' = IF attempts < LoginAttempts THEN attempts + 1 ELSE attempts
  /\ Answer(r)
  /\ UNCHANGED <<now, account, totp, recovery, session, cookie, person, history>>

-----------------------------------------------------------------------------
(* loadSession, and what the pages and actions do with the stage *)

\* revokeSession: whatever row has no revoked_at yet, one that expired included.
Revoked(s) ==
  [session EXCEPT ![s].state = IF @ \in {"live", "idle", "expired"} THEN "revoked" ELSE @]

\* What a request that is refused came for matters no more, but to a sign-out.
Refused(kind) == IF kind = "signOut" THEN "signOut" ELSE "visit"

\* The request ends at the sign-in page, a sign-out without its cookie.
Refuse(r, kind) ==
  /\ cookie' = IF kind = "signOut" THEN [cookie EXCEPT ![BrowserOf[r]] = 0] ELSE cookie
  /\ Answer(r)

\* The stages a request does its work at; at another the browser is sent away.
\* A visit of the code page, or of a page behind the gate, only loads the session.
Needed ==
  [password |-> {}, visit |-> {}, finish |-> Stages, signOut |-> Stages,
   verify |-> {"pending_totp"}, recovery |-> {"pending_totp"},
   enrolPage |-> {"pending_enrolment"}, confirm |-> {"pending_enrolment"},
   restart |-> {"pending_enrolment"}]

\* readAccountStanding: the account must still back the session.
Backed(s) == session[s].fp = account.cred /\ account.staff

\* loadSession: the row behind the cookie, then the account behind the row; an
\* idle row, and one the account no longer backs, is going to be revoked. (The two
\* readings are one step: a row's fingerprint never changes, so what comes between
\* them may as well come after. The time touch writes is seen by SessionIdles alone.)
LoadSession(r, kind) ==
  LET s == cookie[BrowserOf[r]]
      state == IF s = 0 THEN "none" ELSE session[s].state
  IN /\ Begins(r) /\ kind # "password"
     /\ IF state = "live" /\ Backed(s)
          THEN /\ req' = IF session[s].stage \in Needed[kind]
                          THEN [req EXCEPT ![r] = [Idle EXCEPT !.kind = kind, !.step = "work",
                                                              !.id = s]]
                          ELSE req
               /\ UNCHANGED cookie
          ELSE IF state \in {"live", "idle"}
                 THEN /\ req' = [req EXCEPT ![r] = [Idle EXCEPT !.kind = Refused(kind),
                                                                !.step = "refused", !.id = s]]
                      /\ UNCHANGED cookie
                 ELSE Refuse(r, kind)
     /\ UNCHANGED <<now, account, attempts, totp, recovery, session, person, history>>

\* revokeSession, of a session that was refused or is signed out.
RevokeSession(r) ==
  /\ At(r, "refused") \/ Doing(r, "signOut", "work")
  /\ session' = Revoked(req[r].id)
  /\ Refuse(r, req[r].kind)
  /\ UNCHANGED <<now, account, attempts, totp, recovery, person, history>>

-----------------------------------------------------------------------------
(* Step two: the authenticator *)

\* verifyCode: one step of drift either way.
InWindow(step) == step <= now + 1 /\ now <= step + 1

\* checkCode reads the row and judges the code against it.
ReadTotp(r, code) ==
  /\ Doing(r, "verify", "work")
  /\ IF ~totp.confirmed \/ totp.locked
       THEN Goto(r, "failed")
       ELSE IF device = totp.secret /\ InWindow(code) /\ code > totp.last
              THEN req' = [req EXCEPT ![r].step = "spend", ![r].code = code,
                                      ![r].secret = totp.secret]
              ELSE req' = [req EXCEPT ![r].step = "count",
                                      ![r].failures = totp.failures + 1]
  /\ UNCHANGED <<now, account, attempts, totp, recovery, session, cookie, person, history>>

Lapsed_NoReset(failures) ==
  [totp EXCEPT !.failures = failures, !.locked = failures >= MaxFailures]
\* At the limit the row locks and its count starts over.
Lapsed(failures) ==
  LET lock == failures >= MaxFailures
  IN [totp EXCEPT !.failures = IF lock THEN 0 ELSE failures, !.locked = lock]

\* The failure is counted from the row as it was read.
CountFailure(r) ==
  /\ At(r, "count")
  /\ totp' = IF HasRow THEN Lapsed(req[r].failures) ELSE totp
  /\ Goto(r, "failed")
  /\ UNCHANGED <<now, account, attempts, recovery, session, cookie, person, history>>

Unspent_AsRead(r) == HasRow
Unspent(r) == HasRow /\ totp.last < req[r].code

\* "WHERE account_id = ? AND last_step < ?" is the race guard.
SpendCode(r) ==
  /\ At(r, "spend")
  /\ IF Unspent(r)
       THEN /\ totp' = [totp EXCEPT !.last = req[r].code, !.failures = 0, !.locked = FALSE]
            /\ accepted' = accepted \cup {<<req[r].secret, req[r].code>>}
            /\ Goto(r, "promote")
       ELSE UNCHANGED <<totp, accepted>> /\ Goto(r, "failed")
  /\ UNCHANGED <<now, account, attempts, recovery, session, cookie, person,
                 guesses, redeemed, issued>>

Redeemable(batch) == held = batch /\ recovery.unused

\* redeemRecoveryCode: looked up and marked used in one statement ...
RedeemRecovery(r) ==
  /\ Doing(r, "recovery", "work")
  /\ IF held # 0 /\ Redeemable(recovery.batch)
       THEN /\ recovery' = [recovery EXCEPT !.unused = FALSE]
            /\ redeemed' = redeemed \cup {held}
            /\ Goto(r, "clear")
       ELSE UNCHANGED <<recovery, redeemed>> /\ Goto(r, "failed")
  /\ UNCHANGED <<now, account, attempts, totp, session, cookie, person,
                 guesses, accepted, issued>>

\* ... and then the lockout is lifted.
ClearFailures(r) ==
  /\ At(r, "clear")
  /\ totp' = [totp EXCEPT !.failures = 0, !.locked = FALSE]
  /\ Goto(r, "promote")
  /\ UNCHANGED <<now, account, attempts, recovery, session, cookie, person, history>>

Promotable_Any(s) == session[s].state # "none"
Promotable(s) == session[s].state \in {"live", "idle", "expired"}

\* promoteSession: "SET stage = ?, last_seen_at = NOW() WHERE id = ? AND
\* revoked_at IS NULL": an idle row is renewed, an expired one is past its expires_at.
Promote(r) ==
  /\ At(r, "promote") \/ Doing(r, "finish", "work")
  /\ session' = IF Promotable(req[r].id)
                  THEN [session EXCEPT ![req[r].id].stage = "active",
                                       ![req[r].id].state = IF @ = "idle" THEN "live" ELSE @]
                  ELSE session
  /\ Answer(r)
  /\ UNCHANGED <<now, account, attempts, totp, recovery, cookie, person, history>>

-----------------------------------------------------------------------------
(* Enrolment *)

\* beginEnrolment: an unconfirmed secret is resumed, a confirmed one left alone.
BeginEnrolment(r) ==
  /\ Doing(r, "enrolPage", "work")
  /\ CASE totp.confirmed -> Answer(r) /\ UNCHANGED shown
       [] HasRow /\ ~totp.confirmed ->
            shown' = [shown EXCEPT ![r] = totp.secret] /\ Answer(r)
       [] OTHER -> Goto(r, "issue") /\ UNCHANGED shown
  /\ UNCHANGED <<now, account, attempts, totp, recovery, session, cookie, device, held, history>>

\* "INSERT ... ON DUPLICATE KEY UPDATE": a row that has come since loses its secret.
IssueSecret(r) ==
  /\ At(r, "issue") /\ issued < MaxSecret
  /\ issued' = issued + 1
  /\ totp' = [totp EXCEPT !.secret = issued + 1, !.last = 0, !.failures = 0, !.locked = FALSE]
  /\ shown' = [shown EXCEPT ![r] = issued + 1]
  /\ Answer(r)
  /\ UNCHANGED <<now, account, attempts, recovery, session, cookie, device, held,
                 guesses, accepted, redeemed>>

\* restartEnrolment deletes an unconfirmed row.
RestartEnrolment(r) ==
  /\ Doing(r, "restart", "work")
  /\ totp' = IF totp.confirmed THEN totp ELSE NoRow
  /\ Answer(r)
  /\ UNCHANGED <<now, account, attempts, recovery, session, cookie, person, history>>

\* confirmEnrolment reads the row and judges the code; the person has added
\* the secret on the page to the authenticator.
ReadEnrolment(r, code) ==
  /\ Doing(r, "confirm", "work")
  /\ IF HasRow /\ ~totp.confirmed /\ shown[r] = totp.secret /\ InWindow(code)
       THEN req' = [req EXCEPT ![r].step = "commit", ![r].code = code,
                               ![r].secret = totp.secret]
       ELSE Answer(r)
  /\ UNCHANGED <<now, account, attempts, totp, recovery, session, cookie, person, history>>

\* The transaction: the row confirmed, the recovery codes replaced.
CommitEnrolment(r) ==
  /\ At(r, "commit")
  /\ totp' = IF HasRow
               THEN [totp EXCEPT !.confirmed = TRUE, !.last = req[r].code,
                                 !.failures = 0, !.locked = FALSE]
               ELSE totp
  /\ recovery' = [batch |-> recovery.batch + 1, unused |-> TRUE]
  /\ held' = recovery.batch + 1
  /\ device' = req[r].secret
  /\ shown' = [shown EXCEPT ![r] = 0]
  /\ accepted' = {<<req[r].secret, req[r].code>>}
  /\ Answer(r)
  /\ UNCHANGED <<now, account, attempts, session, cookie, guesses, redeemed, issued>>

-----------------------------------------------------------------------------
(* Everything outside *)

\* The hours of a session are over, or its minutes without a request; nothing is
\* written (loadSession finds out at the next request). A request from another
\* address counts as idle: it revokes the row the same way.
SessionExpires(s) ==
  /\ session[s].state \in {"live", "idle"}
  /\ session' = [session EXCEPT ![s].state = "expired"]
  /\ UNCHANGED <<now, account, attempts, totp, recovery, cookie, req, person, history>>

SessionIdles(s) ==
  /\ session[s].state = "live"
  /\ session' = [session EXCEPT ![s].state = "idle"]
  /\ UNCHANGED <<now, account, attempts, totp, recovery, cookie, req, person, history>>

\* revokeSessionsForAccount, by another's staff action: all that have not expired.
RevokeSessionsForAccount ==
  /\ session' = [s \in Session |->
       [session[s] EXCEPT !.state = IF @ \in {"live", "idle"} THEN "revoked" ELSE @]]
  /\ UNCHANGED <<now, account, attempts, totp, recovery, cookie, req, person, history>>

\* What the account was when it was set up (bound: one change of its standing
\* or of its password).
Unchanged == account = [cred |-> 0, staff |-> TRUE, banned |-> FALSE]

PasswordChanges ==
  /\ Unchanged
  /\ account' = [account EXCEPT !.cred = @ + 1]
  /\ UNCHANGED <<now, attempts, totp, recovery, session, cookie, req, person, history>>

StandingChanges ==
  /\ Unchanged
  /\ \/ account' = [account EXCEPT !.staff = FALSE]
     \/ account' = [account EXCEPT !.banned = TRUE]
  /\ UNCHANGED <<now, attempts, totp, recovery, session, cookie, req, person, history>>

Tick ==
  /\ now < MaxStep
  /\ now' = now + 1
  /\ UNCHANGED <<account, attempts, totp, recovery, session, cookie, req, person, history>>

\* The lockout of LOCKOUT_MINUTES runs out.
LockExpires ==
  /\ totp.locked
  /\ totp' = [totp EXCEPT !.locked = FALSE]
  /\ UNCHANGED <<now, account, attempts, recovery, session, cookie, req, person, history>>

\* The failures leave the window of loginWindowMinutes.
WindowPasses ==
  /\ attempts > 0
  /\ attempts' = 0 /\ guesses' = 0
  /\ UNCHANGED <<now, account, totp, recovery, session, cookie, req, person,
                 accepted, redeemed, issued>>

-----------------------------------------------------------------------------
\* An account that never signed in, and one that enrolled in a session since
\* ended, with a code that is still in the window.
NeverEnrolled ==
  /\ totp = NoRow /\ recovery = [batch |-> 0, unused |-> FALSE]
  /\ device = 0 /\ held = 0 /\ issued = 0 /\ accepted = {}
EnrolledBefore ==
  /\ recovery = [batch |-> 1, unused |-> TRUE]
  /\ device = 1 /\ held = 1 /\ issued = 1
  /\ totp = [NoRow EXCEPT !.secret = 1, !.confirmed = TRUE, !.last = 1]
  /\ accepted = {<<1, 1>>}

Init ==
  /\ now = 1
  /\ account = [cred |-> 0, staff |-> TRUE, banned |-> FALSE]
  /\ attempts = 0 /\ guesses = 0
  /\ NeverEnrolled \/ EnrolledBefore
  /\ session = [s \in Session |-> Unborn]
  /\ cookie = [b \in Browser |-> 0]
  /\ req = [r \in Request |-> Idle]
  /\ shown = [r \in Request |-> 0]
  /\ redeemed = {}

Serve(r) ==
  \/ ReadMfaState(r) \/ CreateSession(r) \/ RecordFailure(r)
  \/ \E correct \in BOOLEAN : ReadCredentials(r, correct)
  \/ \E code \in 1..(MaxStep + 1) : ReadTotp(r, code) \/ ReadEnrolment(r, code)
  \/ CountFailure(r) \/ SpendCode(r) \/ RedeemRecovery(r) \/ ClearFailures(r) \/ Promote(r)
  \/ BeginEnrolment(r) \/ IssueSecret(r) \/ RestartEnrolment(r) \/ CommitEnrolment(r)
  \/ RevokeSession(r)

Begin(r) ==
  \/ CheckThrottle(r)
  \/ \E kind \in Kinds : LoadSession(r, kind)

Outside ==
  \/ PasswordChanges \/ StandingChanges
  \/ Tick \/ LockExpires \/ WindowPasses
  \/ \E s \in Session : SessionExpires(s) \/ SessionIdles(s)
  \/ RevokeSessionsForAccount

Next ==
  \/ \E r \in Request : Begin(r) \/ Serve(r)
  \/ Outside

Spec == Init /\ [][Next]_vars

-----------------------------------------------------------------------------
(* Properties *)

\* Types. A request past loadSession belongs to a session that was created.
TypeOK ==
  /\ now \in 1..MaxStep
  /\ account \in [cred : 0..1, staff : BOOLEAN, banned : BOOLEAN]
  /\ attempts \in 0..LoginAttempts
  /\ totp \in [secret : 0..MaxSecret, confirmed : BOOLEAN, last : 0..(MaxStep + 1),
               failures : 0..(MaxFailures - 1), locked : BOOLEAN]
  /\ recovery.unused \in BOOLEAN
  /\ session \in [Session -> [state : States, fp : 0..1, stage : Stages]]
  /\ cookie \in [Browser -> 0..MaxSession]
  /\ req \in [Request -> [kind : Kinds, step : Steps, stage : Stages, fp : 0..1,
                          id : 0..MaxSession, code : 0..(MaxStep + 1), secret : 0..MaxSecret,
                          failures : 0..MaxFailures]]
  /\ \A r \in Request :
       req[r].step \in {"refused", "work", "count", "spend", "clear", "promote", "issue", "commit"}
         => req[r].id \in Session /\ session[req[r].id].state # "none"
  /\ shown \in [Request -> 0..MaxSecret] /\ device \in 0..MaxSecret /\ issued \in 0..MaxSecret

\* "A code is spent when it is used", "recovery codes are single-use" (mfa.ts,
\* rules 1 and 3): whichever requests send one together, a code of the secret in
\* the row that was accepted is not accepted again, nor is the one the enrolment
\* was confirmed with. A code that was judged by a secret replaced since may be:
\* IssueSecret starts the row's count of steps over.
CodeSpentOnce ==
  [][\A r \in Request :
       /\ At(r, "spend") /\ req'[r].step = "promote" /\ req[r].secret = totp.secret
            => <<req[r].secret, req[r].code>> \notin accepted
       /\ Doing(r, "recovery", "work") /\ req'[r].step = "clear"
            => held \notin redeemed]_vars

\* "A staff session must be killable now" (session.ts): a request under way changes
\* nothing of a session revoked meanwhile, by a sign-out in another tab or a staff
\* action, its promotion least of all (but for touch, which writes last_seen_at of
\* any row: no reader of a revoked one asks for it). Expiry is weaker: nothing is written
\* when the hours are over, and promoteSession asks only for revoked_at, so the
\* stage of a row may still change then; but such a session never loads again.
RevokedStaysDead ==
  [][\A s \in Session :
       /\ session[s].state = "revoked" => session'[s] = session[s]
       /\ session[s].state = "expired" => session'[s].state \in {"expired", "revoked"}]_vars

\* However many requests come at once, a window lets no more wrong passwords be
\* compared than it allows, plus those already past the throttle (checkThrottle
\* reads before the attempt is recorded).
GuessesLimited == guesses <= LoginAttempts + Cardinality(Request) - 1

=============================================================================
