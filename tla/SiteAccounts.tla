---------------------------- MODULE SiteAccounts ----------------------------
(***************************************************************************)
(* The account forms of the public site: register, sign in, sign out, ask  *)
(* for a reset link, use one, change the password. One account name, any   *)
(* number of visitors, each with a cookie and one request under way, which *)
(* goes from one database statement to the next.                           *)
(*                                                                         *)
(* A verifier is computed from a fresh salt, so writing credentials always *)
(* gives a new one; a cookie carries its fingerprint.                      *)
(***************************************************************************)
EXTENDS SiteProcess

CONSTANTS
  Password, NoPassword,
  MaxVerifier,  \* bound: verifiers computed
  MaxLink,      \* bound: reset links issued
  LinkLife      \* ticks a reset link is valid (resetTokenMinutes)

ASSUME SiteAccountsAssumption ==
  /\ IsFiniteSet(Password) /\ NoPassword \notin Password
  /\ Form = {"register", "login", "forgot", "reset", "change"}
  /\ MaxVerifier \in Nat \ {0} /\ MaxLink \in Nat \ {0, 1} /\ LinkLife \in Nat

VARIABLES
  writeMode,  \* ACCOUNT_WRITE_MODE
  account,    \* the account's row: its credentials, mail address, realmcharacters row
  verifiers,  \* verifiers computed so far
  console,    \* passwords of `account create` commands the worldserver has yet to run
  link,       \* web_password_reset: the rows, in the order they were issued
  mailbox,    \* the links that were delivered
  cookie,     \* visitor -> fingerprint, and the password it was given for
  req,        \* visitor -> its request: what was typed and what was read
  closed      \* links issued before a completed change of the password

accountVars == <<writeMode, account, verifiers, console, link, mailbox, cookie, req, closed>>
vars == <<processVars, accountVars>>
\* Of the process, all but the count of events.
rest == <<now, fixed, memos, buckets, sources, ask>>

NoAccount == [made |-> FALSE, fp |-> 0, pass |-> NoPassword,
              mail |-> FALSE, counted |-> FALSE, locked |-> FALSE]
Links == 1..MaxLink
NoCookie == [fp |-> 0, pass |-> NoPassword]
Idle == [kind |-> "none", step |-> "idle", pass |-> NoPassword, current |-> NoPassword,
         fp |-> 0, link |-> 0, late |-> FALSE, older |-> 0]

Now(v, step) == req[v].step = step
In(v, kind, step) == req[v].kind = kind /\ req[v].step = step
Next_(v, step) == req' = [req EXCEPT ![v].step = step]
Done(v) == req' = [req EXCEPT ![v] = Idle]

\* The account with credentials just computed.
Credentials(row, pass) == [row EXCEPT !.fp = verifiers + 1, !.pass = pass]
ComputeVerifier == verifiers < MaxVerifier /\ verifiers' = verifiers + 1

Resolves(v) == cookie[v].fp # 0 /\ account.made /\ cookie[v].fp = account.fp

-----------------------------------------------------------------------------
(* Beginning: the rate limit comes first *)

Begin(v, r) ==
  /\ Now(v, "idle") /\ AskAt(v, "idle")
  /\ Happens
  /\ req' = [req EXCEPT ![v] = r]

Limited(v) == ask' = [ask EXCEPT ![v] = [NoAsk EXCEPT !.for = req'[v].kind, !.step = "limit"]]
Form_(kind, pass) == [Idle EXCEPT !.kind = kind, !.step = "limited", !.pass = pass]

BeginForm(v, kind, pass) ==
  /\ \/ kind \in {"register", "login"} /\ pass # NoPassword
     \/ kind = "forgot" /\ pass = NoPassword
  /\ Begin(v, Form_(kind, pass)) /\ Limited(v)
  /\ UNCHANGED <<now, fixed, memos, buckets, sources>>
  /\ UNCHANGED <<writeMode, account, verifiers, console, link, mailbox, cookie, closed>>

\* resetAction, with a link somebody was sent.
BeginReset(v, l, pass) ==
  /\ l \in mailbox
  /\ Begin(v, [Form_("reset", pass) EXCEPT !.link = l, !.late = l <= closed]) /\ Limited(v)
  /\ UNCHANGED <<now, fixed, memos, buckets, sources>>
  /\ UNCHANGED <<writeMode, account, verifiers, console, link, mailbox, cookie, closed>>

\* changePasswordAction resolves the cookie first, and clears one that is stale.
BeginChange(v, current, pass) ==
  /\ cookie[v] # NoCookie
  /\ IF Resolves(v)
       THEN /\ Begin(v, [Form_("change", pass) EXCEPT !.current = current])
            /\ Limited(v) /\ UNCHANGED cookie
       ELSE /\ Begin(v, Idle)
            /\ cookie' = [cookie EXCEPT ![v] = NoCookie] /\ UNCHANGED ask
  /\ UNCHANGED <<now, fixed, memos, buckets, sources>>
  /\ UNCHANGED <<writeMode, account, verifiers, console, link, mailbox, closed>>

\* Signing out needs no database; a cookie may also run out.
DropCookie(v) ==
  /\ Now(v, "idle") /\ cookie[v] # NoCookie
  /\ Happens
  /\ cookie' = [cookie EXCEPT ![v] = NoCookie]
  /\ UNCHANGED <<rest, writeMode, account, verifiers, console, link, mailbox,
                 req, closed>>

\* The manifest and the status need no account.
BeginAnswer(v, a) ==
  /\ Begin(v, Idle) /\ GetCached(v, a)
  /\ UNCHANGED <<writeMode, account, verifiers, console, link, mailbox, cookie, closed>>

FirstStep(kind) ==
  CASE kind = "register" -> "lookup"
    [] kind = "login"    -> "authenticate"
    [] kind = "change"   -> "check"
    [] OTHER             -> "ready"

\* The limiter's verdict arrives.
Proceed(v) ==
  /\ Now(v, "limited") /\ ask[v].step \in {"admitted", "refused"}
  /\ IF AskAt(v, "admitted") THEN Next_(v, FirstStep(req[v].kind)) ELSE Done(v)
  /\ ask' = [ask EXCEPT ![v] = NoAsk]
  /\ UNCHANGED <<events, now, fixed, memos, buckets, sources>>
  /\ UNCHANGED <<writeMode, account, verifiers, console, link, mailbox, cookie, closed>>

-----------------------------------------------------------------------------
(* registerAccount *)

\* "That account name is taken", and so is the email address then.
Lookup(v) ==
  /\ Now(v, "lookup")
  /\ IF account.made THEN Done(v)
     ELSE Next_(v, IF writeMode = "soap" THEN "create" ELSE "insert")
  /\ UNCHANGED <<processVars, writeMode, account, verifiers, console, link, mailbox,
                 cookie, closed>>

\* The INSERT; the unique key refuses the second of two.
InsertAccount(v) ==
  /\ Now(v, "insert")
  /\ IF account.made
       THEN Done(v) /\ UNCHANGED <<account, verifiers>>
       ELSE /\ ComputeVerifier
            /\ account' = [Credentials(account, req[v].pass) EXCEPT !.made = TRUE, !.mail = TRUE]
            /\ Next_(v, "counter")
  /\ UNCHANGED <<processVars, writeMode, console, link, mailbox, cookie, closed>>

\* The row of realmcharacters "the core does after every account creation".
InsertCounter(v) ==
  /\ Now(v, "counter")
  /\ account' = [account EXCEPT !.counted = TRUE]
  /\ Next_(v, "authenticate")
  /\ UNCHANGED <<processVars, writeMode, verifiers, console, link, mailbox, cookie, closed>>

\* `account create` by SOAP: refused if the name is taken, else on its way to
\* the database; whether its answer comes in time is another matter.
CreateByConsole(v) ==
  /\ Now(v, "create")
  /\ IF account.made
       THEN Done(v) /\ UNCHANGED console
       ELSE /\ console' = console \cup {req[v].pass}
            /\ Next_(v, "find") \/ Done(v)
  /\ UNCHANGED <<processVars, writeMode, account, verifiers, link, mailbox, cookie, closed>>

\* The worldserver writes the account, without a mail address.
ConsoleCreates(p) ==
  /\ p \in console
  /\ console' = console \ {p}
  /\ IF account.made
       THEN UNCHANGED <<account, verifiers>>
       ELSE /\ ComputeVerifier
            /\ account' = [Credentials(account, p) EXCEPT !.made = TRUE, !.counted = TRUE]
  /\ UNCHANGED <<processVars, writeMode, link, mailbox, cookie, req, closed>>

FindCreated_StraightOn(v) ==
  /\ Now(v, "find")
  /\ IF account.made THEN Next_(v, "authenticate") ELSE Done(v)
  /\ UNCHANGED <<processVars, writeMode, account, verifiers, console, link, mailbox,
                 cookie, closed>>
\* "It is not in the database yet" is an answer too.
FindCreated(v) ==
  /\ Now(v, "find")
  /\ IF account.made THEN Next_(v, "mail") ELSE Done(v)
  /\ UNCHANGED <<processVars, writeMode, account, verifiers, console, link, mailbox,
                 cookie, closed>>

SetMail(v) ==
  /\ Now(v, "mail")
  /\ account' = [account EXCEPT !.mail = TRUE]
  /\ Next_(v, "authenticate")
  /\ UNCHANGED <<processVars, writeMode, verifiers, console, link, mailbox, cookie, closed>>

-----------------------------------------------------------------------------
(* authenticate, and the cookie it earns *)

Matches(v) == account.made /\ account.pass = req[v].pass

\* loginAction and the launcher's sign-in; registerAction signs in as well.
Authenticate(v) ==
  /\ Now(v, "authenticate")
  /\ IF Matches(v) /\ ~account.locked
       THEN req' = [req EXCEPT ![v].step = "respond", ![v].fp = account.fp]
       ELSE Done(v)
  /\ UNCHANGED <<processVars, writeMode, account, verifiers, console, link, mailbox,
                 cookie, closed>>

Reissued_FromTheRow(v) == account.fp
Reissued(v) == req[v].fp

\* writeSessionCookie: the response reaches the browser.
Respond(v) ==
  /\ Now(v, "respond")
  /\ cookie' = [cookie EXCEPT ![v] = [fp |-> Reissued(v), pass |-> req[v].pass]]
  /\ closed' = IF closed < req[v].older THEN req[v].older ELSE closed
  /\ Done(v)
  /\ UNCHANGED <<processVars, writeMode, account, verifiers, console, link, mailbox>>

-----------------------------------------------------------------------------
(* createPasswordReset *)

\* resetTableReady, for a request of a link and for the use of one.
ResetTableReady(v, found) ==
  /\ Now(v, "ready") /\ req[v].kind # "change"
  /\ TableExists("web_password_reset", found)
  /\ IF ~found THEN Done(v)
     ELSE Next_(v, IF req[v].kind = "forgot" THEN "issue" ELSE "redeem")
  /\ UNCHANGED <<now, fixed, cache, buckets, sources, ask>>
  /\ UNCHANGED <<writeMode, account, verifiers, console, link, mailbox, cookie, closed>>

FindByMail_Anyway(v) ==
  /\ In(v, "forgot", "issue")
  /\ Next_(v, "token")
  /\ UNCHANGED <<processVars, writeMode, account, verifiers, console, link, mailbox,
                 cookie, closed>>
\* The account of the mail address is looked up; without one the visitor is
\* told the same.
FindByMail(v) ==
  /\ In(v, "forgot", "issue")
  /\ IF account.made /\ account.mail THEN Next_(v, "token") ELSE Done(v)
  /\ UNCHANGED <<processVars, writeMode, account, verifiers, console, link, mailbox,
                 cookie, closed>>

IssueLink(v, delivered) ==
  /\ In(v, "forgot", "token")
  /\ Cardinality(DOMAIN link) < MaxLink
  /\ LET l == Cardinality(DOMAIN link) + 1
     IN /\ link' = [x \in DOMAIN link \cup {l} |->
                      IF x = l THEN [used |-> FALSE, expires |-> now + LinkLife] ELSE link[x]]
        /\ mailbox' = IF delivered THEN mailbox \cup {l} ELSE mailbox
  /\ Done(v)
  /\ UNCHANGED <<processVars, writeMode, account, verifiers, console, cookie, closed>>

-----------------------------------------------------------------------------
(* consumePasswordReset and changePassword *)

Redeemable(l) == ~link[l].used /\ now < link[l].expires

\* The link's row is read; an unused link that has not expired goes on.
RedeemLink(v) ==
  /\ In(v, "reset", "redeem")
  /\ IF Redeemable(req[v].link) THEN Next_(v, "write") ELSE Done(v)
  /\ UNCHANGED <<processVars, writeMode, account, verifiers, console, link, mailbox,
                 cookie, closed>>

\* changePassword reads the row again, and compares the current password.
CheckCurrent(v) ==
  /\ In(v, "change", "check")
  /\ IF account.pass = req[v].current THEN Next_(v, "write") ELSE Done(v)
  /\ UNCHANGED <<processVars, writeMode, account, verifiers, console, link, mailbox,
                 cookie, closed>>

\* writeCredentials: UPDATE account ... WHERE id = ?
WriteCredentials(v) ==
  /\ Now(v, "write")
  /\ ComputeVerifier
  /\ account' = Credentials(account, req[v].pass)
  /\ req' = [req EXCEPT ![v].step = IF req[v].kind = "reset" THEN "burn" ELSE "ready",
                        ![v].fp = verifiers + 1]
  /\ UNCHANGED <<processVars, writeMode, console, link, mailbox, cookie, closed>>

\* invalidateResetTokens skips the burning when the table seems not to be there.
InvalidateResetTokens(v, found) ==
  /\ In(v, "change", "ready")
  /\ TableExists("web_password_reset", found)
  /\ Next_(v, IF found THEN "burn" ELSE "respond")
  /\ UNCHANGED <<now, fixed, cache, buckets, sources, ask>>
  /\ UNCHANGED <<writeMode, account, verifiers, console, link, mailbox, cookie, closed>>

Burnt_OnlyThisOne(v) ==
  [l \in DOMAIN link |-> IF l = req[v].link THEN [link[l] EXCEPT !.used = TRUE] ELSE link[l]]
Burnt(v) == [l \in DOMAIN link |-> [link[l] EXCEPT !.used = TRUE]]

\* "Burn this token and every other outstanding one for the account."
BurnLinks(v) ==
  /\ Now(v, "burn")
  /\ link' = Burnt(v)
  /\ IF req[v].kind = "reset"
       THEN /\ closed' = Cardinality(DOMAIN link)
            /\ Done(v)
       ELSE /\ req' = [req EXCEPT ![v].step = "respond", ![v].older = Cardinality(DOMAIN link)]
            /\ UNCHANGED closed
  /\ UNCHANGED <<processVars, writeMode, account, verifiers, console, mailbox, cookie>>

-----------------------------------------------------------------------------
(* Whatever goes wrong, and everybody else *)

Statements == {"lookup", "insert", "counter", "create", "find", "mail", "authenticate",
               "issue", "token", "redeem", "check", "write", "burn"}

\* A statement fails: the request ends there, with what it has already done.
StatementFails(v) ==
  /\ req[v].step \in Statements
  /\ Happens
  /\ Done(v)
  /\ UNCHANGED <<rest, writeMode, account, verifiers, console, link, mailbox,
                 cookie, closed>>

\* The password is changed in the game or by the staff, or the account locked.
SetInTheGame(p) ==
  /\ account.made
  /\ Happens
  /\ ComputeVerifier
  /\ account' = Credentials(account, p)
  /\ UNCHANGED <<rest, writeMode, console, link, mailbox, cookie, req, closed>>

Lock ==
  /\ account.made /\ ~account.locked
  /\ Happens
  /\ account' = [account EXCEPT !.locked = TRUE]
  /\ UNCHANGED <<rest, writeMode, verifiers, console, link, mailbox, cookie, req,
                 closed>>

-----------------------------------------------------------------------------
\* A realm without the account, or with it: two reset links are out, and any
\* of the visitors signed in.
Unknown ==
  /\ writeMode \in {"sql", "soap"}
  /\ account = NoAccount /\ verifiers = 0
  /\ link = [l \in {} |-> [used |-> FALSE, expires |-> 0]] /\ mailbox = {}
  /\ cookie = [v \in Visitor |-> NoCookie]
Established ==
  /\ writeMode = "sql"
  /\ account \in {[made |-> TRUE, fp |-> 1, pass |-> p, mail |-> TRUE, counted |-> TRUE,
                   locked |-> FALSE] : p \in Password}
  /\ verifiers = 1
  /\ link = [l \in 1..2 |-> [used |-> FALSE, expires |-> LinkLife]] /\ mailbox = 1..2
  /\ cookie \in [Visitor -> {NoCookie, [fp |-> 1, pass |-> account.pass]}]

Init ==
  /\ InitProcess
  /\ Unknown \/ Established
  /\ console = {} /\ closed = 0
  /\ req = [v \in Visitor |-> Idle]

Elsewhere ==
  /\ Tick \/ \E s \in Source : SourceChanges(s)
  /\ UNCHANGED <<writeMode, account, verifiers, console, link, mailbox, cookie, req, closed>>

InProcess(v) == (LimitSteps(v) \/ AnswerSteps(v)) /\ UNCHANGED accountVars

Handle(v) ==
  \/ Proceed(v) \/ Lookup(v) \/ InsertAccount(v) \/ InsertCounter(v)
  \/ CreateByConsole(v) \/ FindCreated(v) \/ SetMail(v)
  \/ Authenticate(v) \/ Respond(v)
  \/ FindByMail(v) \/ RedeemLink(v) \/ CheckCurrent(v) \/ WriteCredentials(v) \/ BurnLinks(v)
  \/ \E b \in BOOLEAN : ResetTableReady(v, b) \/ IssueLink(v, b) \/ InvalidateResetTokens(v, b)
  \/ StatementFails(v)

Visit(v) ==
  \/ \E kind \in Form, p \in Password \cup {NoPassword} : BeginForm(v, kind, p)
  \/ \E l \in Links, p \in Password : BeginReset(v, l, p)
  \/ \E current, p \in Password : BeginChange(v, current, p)
  \/ \E a \in Answer : BeginAnswer(v, a)
  \/ DropCookie(v)

Others ==
  \/ \E p \in Password : ConsoleCreates(p) \/ SetInTheGame(p)
  \/ Lock
  \/ Elsewhere

Next ==
  \/ \E v \in Visitor : Visit(v) \/ Handle(v) \/ InProcess(v)
  \/ Others

Spec == Init /\ [][Next]_vars

-----------------------------------------------------------------------------
(* Properties *)

TypeOK ==
  /\ ProcessTypeOK
  /\ writeMode \in {"sql", "soap"}
  /\ account \in [made : BOOLEAN, fp : 0..MaxVerifier, pass : Password \cup {NoPassword}, mail : BOOLEAN,
                  counted : BOOLEAN, locked : BOOLEAN]
  /\ account.made <=> account.fp # 0
  /\ account.fp <= verifiers
  /\ console \subseteq Password
  /\ \E n \in 0..MaxLink : link \in [1..n -> [used : BOOLEAN, expires : Nat]]
  /\ mailbox \subseteq DOMAIN link
  /\ cookie \in [Visitor -> [fp : 0..MaxVerifier, pass : Password \cup {NoPassword}]]
  /\ closed \in 0..MaxLink
  /\ \A v \in Visitor :
       req[v].step = "limited" <=> ask[v].step \in {"limit", "count", "judge", "admitted", "refused"}

\* "Changing a password invalidates every session that account had open"
\* (session.ts): whatever a login, a reset and a change do at once, a cookie that
\* still resolves was earned with the password the account has now.
SessionKnowsPassword ==
  \A v \in Visitor : Resolves(v) => cookie[v].pass = account.pass

\* A link is over with the password it was asked for: once a reset, or a change
\* that burnt links, has been answered, none of the links issued before writes
\* credentials for a request that comes later (used_at; invalidateResetTokens).
OldLinksWriteNothing ==
  \A v \in Visitor : req[v].late => req[v].step \notin {"write", "burn"}

\* A visitor signed in by registering has an account with all of its parts: the
\* mail address a reset needs and the core's row per realm (registerAccount).
WelcomedIsWhole ==
  \A v \in Visitor :
    In(v, "register", "respond") => account.mail /\ account.counted

=============================================================================
