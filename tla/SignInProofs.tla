---------------------------- MODULE SignInProofs ----------------------------
(***************************************************************************)
(* Proofs about SignIn, for any number of requests, browsers, sessions,    *)
(* secrets and time steps and for any limits on failures.                  *)
(***************************************************************************)
EXTENDS SignIn, FiniteSetTheorems, TLAPS

-----------------------------------------------------------------------------
(* Types, in the parts the actions touch *)

\* Ranges by name: a secret (0 for none), a code (0 for none), failures of a row.
Secrets == 0..MaxSecret
Codes == 0..(MaxStep + 1)
Failing == 0..(MaxFailures - 1)

RequestState == [kind : Kinds, step : Steps, stage : Stages, fp : 0..1, id : 0..MaxSession,
                 code : Codes, secret : Secrets, failures : 0..MaxFailures]
TotpState == [secret : Secrets, confirmed : BOOLEAN, last : Codes, failures : Failing,
              locked : BOOLEAN]
SessionState == [state : States, fp : 0..1, stage : Stages]

\* The sessions that were created, whoever ended them since.
Born == {s \in Session : session[s].state # "none"}

\* The steps behind loadSession.
SignedIn == {"refused", "work", "count", "spend", "clear", "promote", "issue", "commit"}

StandingOK ==
  /\ now \in 1..MaxStep
  /\ account \in [cred : 0..1, staff : BOOLEAN, banned : BOOLEAN]
  /\ attempts \in 0..LoginAttempts
TotpOK ==
  /\ totp \in TotpState
  /\ recovery \in [batch : Nat, unused : BOOLEAN]
  /\ shown \in [Request -> Secrets] /\ device \in Secrets /\ issued \in Secrets
SessionOK ==
  /\ session \in [Session -> SessionState]
  /\ cookie \in [Browser -> 0..MaxSession]
  /\ \A b \in Browser : cookie[b] # 0 => cookie[b] \in Born
RequestOK ==
  /\ req \in [Request -> RequestState]
  /\ \A r \in Request : req[r].step \in SignedIn => req[r].id \in Born

TypeInv == StandingOK /\ TotpOK /\ SessionOK /\ RequestOK

LEMMA TypeInvImplies == TypeInv => TypeOK
BY DEF TypeInv, TypeOK, StandingOK, TotpOK, SessionOK, RequestOK, RequestState, SignedIn,
  TotpState, SessionState, Secrets, Codes, Failing, Born

LEMMA ZeroTyped == 0 \in Secrets /\ 0 \in Codes /\ 0 \in Failing
BY SignInAssumption DEF Secrets, Codes, Failing

LEMMA NoRowTyped == NoRow \in TotpState
BY ZeroTyped DEF NoRow, TotpState

-----------------------------------------------------------------------------
(* Where a request goes *)

LEMMA IdleTyped == Idle \in RequestState /\ Idle.step = "idle"
BY SignInAssumption, ZeroTyped DEF Idle, RequestState, Kinds, Steps, Stages

\* One request is replaced by a well-formed one; sessions are only created.
LEMMA RequestMoves ==
  ASSUME RequestOK, NEW r \in Request, NEW q \in RequestState,
         req' = [req EXCEPT ![r] = q], Born \subseteq Born',
         q.step \in SignedIn => q.id \in Born
  PROVE  RequestOK'
<1>1. req' \in [Request -> RequestState]
  BY DEF RequestOK
<1>2. req'[r] = q /\ \A x \in Request \ {r} : req'[x] = req[x]
  BY DEF RequestOK
<1>3. \A x \in Request : req'[x].step \in SignedIn => req'[x].id \in Born'
  BY <1>2 DEF RequestOK
<1> QED
  BY <1>1, <1>3 DEF RequestOK

LEMMA GotoSets ==
  ASSUME RequestOK, NEW r \in Request, NEW step \in Steps, Goto(r, step)
  PROVE  /\ req'[r].step = step /\ req'[r].id = req[r].id
         /\ req'[r] \in RequestState /\ req' = [req EXCEPT ![r] = req'[r]]
         /\ \A x \in Request \ {r} : req'[x] = req[x]
<1> DEFINE q == [Idle EXCEPT !.kind = req[r].kind, !.step = step, !.id = req[r].id]
<1>1. q \in RequestState /\ q.step = step /\ q.id = req[r].id
  BY IdleTyped DEF RequestOK, RequestState
<1>2. req' = [req EXCEPT ![r] = q]
  BY DEF Goto
<1> HIDE DEF q
<1> QED
  BY <1>1, <1>2 DEF RequestOK

LEMMA GotoMoves ==
  ASSUME RequestOK, NEW r \in Request, NEW step \in Steps, Goto(r, step),
         step \in SignedIn => req[r].id \in Born, Born \subseteq Born'
  PROVE  RequestOK'
BY GotoSets, RequestMoves

LEMMA AnswerSets ==
  ASSUME RequestOK, NEW r \in Request, Answer(r)
  PROVE  /\ req' = [req EXCEPT ![r] = Idle] /\ req'[r] = Idle
         /\ \A x \in Request \ {r} : req'[x] = req[x]
BY DEF Answer, RequestOK

LEMMA AnswerMoves ==
  ASSUME RequestOK, NEW r \in Request, Answer(r), Born \subseteq Born'
  PROVE  RequestOK'
<1>1. Idle.step \notin SignedIn
  BY IdleTyped DEF SignedIn
<1> QED
  BY <1>1, AnswerSets, IdleTyped, RequestMoves

-----------------------------------------------------------------------------
(* Type correctness *)

LEMMA BornSame == session' = session => Born' = Born
BY DEF Born

\* A session that ends is one that was created, and stays so.
LEMMA RevokedTyped ==
  ASSUME session \in [Session -> SessionState], NEW s, session' = Revoked(s)
  PROVE  session' \in [Session -> SessionState] /\ Born' = Born
<1>1. session' \in [Session -> SessionState]
  BY DEF SessionState, States, Revoked
<1>2. \A t \in Session : session'[t].state = "none" <=> session[t].state = "none"
  BY DEF SessionState, States, Revoked
<1> QED
  BY <1>1, <1>2 DEF Born

\* A cookie is kept, dropped, or names a session that is there.
LEMMA CookieMoves ==
  ASSUME SessionOK, NEW b \in Browser, NEW s \in {0} \cup Born',
         session' \in [Session -> SessionState], Born \subseteq Born',
         cookie' = cookie \/ cookie' = [cookie EXCEPT ![b] = s]
  PROVE  SessionOK'
<1>1. s \in 0..MaxSession
  BY SignInAssumption DEF Born, Session
<1> QED
  BY <1>1 DEF SessionOK

LEMMA InitType == Init => TypeInv
<1> SUFFICES ASSUME Init PROVE TypeInv
  OBVIOUS
<1>1. StandingOK
  BY SignInAssumption DEF Init, StandingOK
<1>2. TotpOK
  <2>1. /\ shown \in [Request -> Secrets]
        /\ 1 \in Secrets /\ 0 \in Secrets
    BY SignInAssumption DEF Init, Secrets
  <2>2. CASE NeverEnrolled
    BY <2>1, <2>2, NoRowTyped DEF NeverEnrolled, TotpOK
  <2>3. CASE EnrolledBefore
    <3>1. 1 \in Codes
      BY SignInAssumption DEF Codes
    <3>2. totp \in TotpState
      BY <2>1, <2>3, <3>1, NoRowTyped DEF EnrolledBefore, TotpState
    <3> QED
      BY <2>1, <2>3, <3>2 DEF EnrolledBefore, TotpOK
  <2> QED
    BY <2>2, <2>3 DEF Init
<1>3. SessionOK
  BY SignInAssumption DEF Init, SessionOK, SessionState, States, Unborn, Stages
<1>4. RequestOK
  BY IdleTyped DEF Init, RequestOK, SignedIn
<1> QED
  BY <1>1, <1>2, <1>3, <1>4 DEF TypeInv

\* Step one: the throttle, the password, the second factor, the session.
LEMMA PasswordType ==
  ASSUME TypeInv, NEW r \in Request,
         \/ CheckThrottle(r)
         \/ \E correct \in BOOLEAN : ReadCredentials(r, correct)
         \/ ReadMfaState(r)
         \/ CreateSession(r)
         \/ RecordFailure(r)
  PROVE  TypeInv'
<1> USE DEF TypeInv
<1>0. req[r] \in RequestState /\ BrowserOf[r] \in Browser
  BY SignInAssumption DEF RequestOK
<1>1. CASE CheckThrottle(r)
  <2> DEFINE q == [Idle EXCEPT !.kind = "password", !.step = "credentials"]
  <2>1. q \in RequestState /\ q.step \notin SignedIn
    BY IdleTyped DEF RequestState, Kinds, Steps, SignedIn
  <2> HIDE DEF q
  <2>2. session' = session /\ Born' = Born
    BY <1>1, BornSame DEF CheckThrottle
  <2>3. CASE Blocked
    BY <1>1, <2>2, <2>3 DEF CheckThrottle, StandingOK, TotpOK, SessionOK, RequestOK, person, history
  <2>4. CASE ~Blocked
    <3>1. req' = [req EXCEPT ![r] = q]
      BY <1>1, <2>4 DEF CheckThrottle, q
    <3>2. RequestOK'
      BY <2>1, <2>2, <3>1, RequestMoves
    <3> QED
      BY <1>1, <2>2, <3>2 DEF CheckThrottle, StandingOK, TotpOK, SessionOK, person, history
  <2> QED
    BY <2>3, <2>4
<1>2. ASSUME NEW correct \in BOOLEAN, ReadCredentials(r, correct) PROVE TypeInv'
  <2>0. Born' = Born
    BY <1>2, BornSame DEF ReadCredentials
  <2>1. RequestOK'
    <3>1. CASE correct /\ account.staff /\ ~account.banned
      <4> DEFINE q == [req[r] EXCEPT !.step = "mfa", !.fp = account.cred]
      <4>1. q \in RequestState /\ q.step \notin SignedIn
        BY <1>0 DEF StandingOK, RequestState, Steps, SignedIn
      <4>2. req' = [req EXCEPT ![r] = q]
        BY <1>2, <3>1 DEF ReadCredentials, RequestOK, RequestState
      <4> HIDE DEF q
      <4> QED
        BY <2>0, <4>1, <4>2, RequestMoves
    <3>2. CASE ~(correct /\ account.staff /\ ~account.banned)
      <4>1. Goto(r, "failed")
        BY <1>2, <3>2 DEF ReadCredentials
      <4> QED
        BY <2>0, <4>1, GotoMoves DEF Steps, SignedIn
    <3> QED
      BY <3>1, <3>2
  <2> QED
    BY <1>2, <2>0, <2>1 DEF ReadCredentials, StandingOK, TotpOK, SessionOK, person
<1>3. CASE ReadMfaState(r)
  <2>0. Born' = Born
    BY <1>3, BornSame DEF ReadMfaState
  <2>1. RequestOK'
    <3>1. CASE ~totp.locked
      <4> DEFINE q == [req[r] EXCEPT !.step = "create",
                         !.stage = IF totp.confirmed THEN "pending_totp" ELSE "pending_enrolment"]
      <4>1. q \in RequestState /\ q.step \notin SignedIn
        BY <1>0 DEF RequestState, Steps, SignedIn, Stages
      <4>2. req' = [req EXCEPT ![r] = q]
        BY <1>3, <3>1 DEF ReadMfaState, RequestOK, RequestState
      <4> HIDE DEF q
      <4> QED
        BY <2>0, <4>1, <4>2, RequestMoves
    <3>2. CASE totp.locked
      <4>1. Goto(r, "failed")
        BY <1>3, <3>2 DEF ReadMfaState
      <4> QED
        BY <2>0, <4>1, GotoMoves DEF Steps, SignedIn
    <3> QED
      BY <3>1, <3>2
  <2> QED
    BY <1>3, <2>0, <2>1 DEF ReadMfaState, StandingOK, TotpOK, SessionOK, person, history
<1>4. CASE CreateSession(r)
  <2>1. PICK s \in Session :
          /\ session' = [session EXCEPT ![s] =
               [state |-> "live", fp |-> req[r].fp, stage |-> req[r].stage]]
          /\ cookie' = [cookie EXCEPT ![BrowserOf[r]] = s]
    BY <1>4 DEF CreateSession
  <2>2. session' \in [Session -> SessionState] /\ Born \subseteq Born' /\ s \in Born'
    BY <1>0, <2>1 DEF SessionOK, SessionState, States, RequestState, Born
  <2>3. SessionOK'
    BY <1>0, <2>1, <2>2, CookieMoves
  <2>4. RequestOK'
    BY <1>4, <2>2, AnswerMoves DEF CreateSession
  <2> QED
    BY <1>4, <2>3, <2>4 DEF CreateSession, StandingOK, TotpOK, person, history
<1>5. CASE RecordFailure(r)
  <2>0. Born' = Born
    BY <1>5, BornSame DEF RecordFailure
  <2>1. RequestOK'
    BY <1>5, <2>0, AnswerMoves DEF RecordFailure
  <2>2. StandingOK'
    BY <1>5, SignInAssumption DEF RecordFailure, StandingOK
  <2> QED
    BY <1>5, <2>0, <2>1, <2>2 DEF RecordFailure, TotpOK, SessionOK, person, history
<1> QED
  BY <1>1, <1>2, <1>3, <1>4, <1>5

LEMMA RefusedKind == \A kind \in Kinds : Refused(kind) \in Kinds
BY DEF Refused, Kinds

\* What loadSession does to the cookie and the request.
LEMMA Loaded ==
  ASSUME NEW r \in Request, NEW kind, LoadSession(r, kind)
  PROVE  /\ session' = session
         /\ cookie' = cookie \/ cookie' = [cookie EXCEPT ![BrowserOf[r]] = 0]
         /\ \/ Answer(r)
            \/ req' = req
            \/ /\ cookie[BrowserOf[r]] # 0
               /\ req' = [req EXCEPT ![r] = [Idle EXCEPT !.kind = kind, !.step = "work",
                                                        !.id = cookie[BrowserOf[r]]]]
            \/ /\ cookie[BrowserOf[r]] # 0
               /\ req' = [req EXCEPT ![r] = [Idle EXCEPT !.kind = Refused(kind),
                                                        !.step = "refused",
                                                        !.id = cookie[BrowserOf[r]]]]
<1> DEFINE s == cookie[BrowserOf[r]]
           state == IF s = 0 THEN "none" ELSE session[s].state
           on == [req EXCEPT ![r] = [Idle EXCEPT !.kind = kind, !.step = "work", !.id = s]]
           off == [req EXCEPT ![r] = [Idle EXCEPT !.kind = Refused(kind), !.step = "refused",
                                                  !.id = s]]
<1>1. \/ state = "live" /\ (req' = on \/ req' = req) /\ cookie' = cookie
      \/ state \in {"live", "idle"} /\ req' = off /\ cookie' = cookie
      \/ Refuse(r, kind)
  BY DEF LoadSession
<1>2. state \in {"live", "idle"} => s # 0
  OBVIOUS
<1>3. session' = session
  BY DEF LoadSession
<1>4. CASE Refuse(r, kind)
  BY <1>3, <1>4 DEF Refuse
<1> QED
  BY <1>1, <1>2, <1>3, <1>4

LEMMA SessionType ==
  ASSUME TypeInv, NEW r \in Request,
         (\E kind \in Kinds : LoadSession(r, kind)) \/ RevokeSession(r)
  PROVE  TypeInv'
<1> USE DEF TypeInv
<1>0. BrowserOf[r] \in Browser
  BY SignInAssumption
<1>1. ASSUME NEW kind \in Kinds, LoadSession(r, kind) PROVE TypeInv'
  <2>1. session' = session /\ session' \in [Session -> SessionState] /\ Born' = Born
    BY <1>1, BornSame, Loaded DEF SessionOK
  <2>2. SessionOK'
    BY <1>0, <1>1, <2>1, Loaded, CookieMoves
  <2>3. RequestOK'
    <3>1. CASE Answer(r)
      BY <2>1, <3>1, AnswerMoves
    <3>2. CASE req' = req
      BY <2>1, <3>2 DEF RequestOK
    <3> DEFINE s == cookie[BrowserOf[r]]
               q == [Idle EXCEPT !.kind = kind, !.step = "work", !.id = s]
               n == [Idle EXCEPT !.kind = Refused(kind), !.step = "refused", !.id = s]
    <3>3. CASE s # 0 /\ (req' = [req EXCEPT ![r] = q] \/ req' = [req EXCEPT ![r] = n])
      <4>1. s \in Born /\ s \in 0..MaxSession
        BY <1>0, <3>3 DEF SessionOK
      <4>2. q \in RequestState /\ q.id = s
        BY <4>1, IdleTyped DEF RequestState, Steps
      <4>3. n \in RequestState /\ n.id = s
        BY <4>1, IdleTyped, RefusedKind DEF RequestState, Steps
      <4> HIDE DEF q, n, s
      <4> QED
        BY <2>1, <3>3, <4>1, <4>2, <4>3, RequestMoves
    <3> QED
      BY <1>1, <3>1, <3>2, <3>3, Loaded
  <2> QED
    BY <1>1, <2>2, <2>3 DEF LoadSession, StandingOK, TotpOK, person, history
<1>2. CASE RevokeSession(r)
  <2>1. session' \in [Session -> SessionState] /\ Born' = Born
    BY <1>2, RevokedTyped DEF RevokeSession, SessionOK
  <2>2. SessionOK'
    BY <1>0, <1>2, <2>1, CookieMoves DEF RevokeSession, Refuse
  <2>3. RequestOK'
    BY <1>2, <2>1, AnswerMoves DEF RevokeSession, Refuse
  <2> QED
    BY <1>2, <2>2, <2>3 DEF RevokeSession, StandingOK, TotpOK, person, history
<1> QED
  BY <1>1, <1>2

\* At every step behind loadSession the request has its session.
LEMMA WithSession ==
  ASSUME RequestOK, NEW r \in Request, req[r].step \in SignedIn
  PROVE  req[r].id \in Born /\ req[r] \in RequestState
BY DEF RequestOK

\* Step two: a request that goes on with the row as it read it.
LEMMA GoesOn ==
  ASSUME RequestOK, NEW r \in Request, req[r].id \in Born, UNCHANGED session,
         NEW q \in RequestState, q.id = req[r].id, req' = [req EXCEPT ![r] = q]
  PROVE  RequestOK'
BY BornSame, RequestMoves

LEMMA CodeType ==
  ASSUME TypeInv, NEW r \in Request,
         \/ \E code \in 1..(MaxStep + 1) : ReadTotp(r, code)
         \/ CountFailure(r)
         \/ SpendCode(r)
         \/ RedeemRecovery(r)
         \/ ClearFailures(r)
         \/ Promote(r)
  PROVE  TypeInv'
<1> USE DEF TypeInv
<1>1. ASSUME NEW code \in 1..(MaxStep + 1), ReadTotp(r, code) PROVE TypeInv'
  <2>0. req[r].step = "work" /\ req[r].id \in Born /\ req[r] \in RequestState
    BY <1>1, WithSession DEF ReadTotp, Doing, SignedIn
  <2>1. UNCHANGED session /\ Born' = Born
    BY <1>1, BornSame DEF ReadTotp
  <2>2. RequestOK'
    <3>1. CASE ~totp.confirmed \/ totp.locked
      <4>1. Goto(r, "failed")
        BY <1>1, <3>1 DEF ReadTotp
      <4> QED
        BY <2>1, <4>1, GotoMoves DEF Steps, SignedIn
    <3>2. CASE ~(~totp.confirmed \/ totp.locked)
      <4> DEFINE q == [req[r] EXCEPT !.step = "spend", !.code = code, !.secret = totp.secret]
                 n == [req[r] EXCEPT !.step = "count", !.failures = totp.failures + 1]
      <4>1. q \in RequestState /\ q.id = req[r].id
        <5>1. totp.secret \in Secrets /\ code \in Codes
          BY SignInAssumption DEF TotpOK, TotpState, Codes
        <5> QED
          BY <2>0, <5>1 DEF RequestState, Steps
      <4>2. n \in RequestState /\ n.id = req[r].id
        <5>1. totp.failures + 1 \in 0..MaxFailures
          BY SignInAssumption DEF TotpOK, TotpState, Failing
        <5> QED
          BY <2>0, <5>1 DEF RequestState, Steps
      <4>3. req' = [req EXCEPT ![r] = q] \/ req' = [req EXCEPT ![r] = n]
        BY <1>1, <3>2 DEF ReadTotp, RequestOK, RequestState
      <4> HIDE DEF q, n
      <4> QED
        BY <2>0, <2>1, <4>1, <4>2, <4>3, GoesOn
    <3> QED
      BY <3>1, <3>2
  <2> QED
    BY <1>1, <2>1, <2>2 DEF ReadTotp, StandingOK, TotpOK, SessionOK, person, history
<1>2. CASE CountFailure(r)
  <2>0. UNCHANGED session /\ Born' = Born
    BY <1>2, BornSame DEF CountFailure
  <2>1. RequestOK'
    BY <1>2, <2>0, GotoMoves DEF CountFailure, Steps, SignedIn
  <2>2. TotpOK'
    <3>1. req[r].failures \in 0..MaxFailures
      BY DEF RequestOK, RequestState
    <3>2. Lapsed(req[r].failures) \in TotpState
      <4>1. (IF req[r].failures >= MaxFailures THEN 0 ELSE req[r].failures) \in Failing
        BY <3>1, SignInAssumption DEF Failing
      <4>2. (req[r].failures >= MaxFailures) \in BOOLEAN
        OBVIOUS
      <4> HIDE DEF Failing
      <4> QED
        BY <4>1, <4>2 DEF TotpOK, TotpState, Lapsed
    <3> QED
      BY <1>2, <3>2 DEF CountFailure, TotpOK, person, history
  <2> QED
    BY <1>2, <2>0, <2>1, <2>2 DEF CountFailure, StandingOK, SessionOK
<1>3. CASE SpendCode(r)
  <2>0. req[r].step = "spend" /\ req[r].id \in Born /\ req[r] \in RequestState
    BY <1>3, WithSession DEF SpendCode, At, SignedIn
  <2>1. UNCHANGED session /\ Born' = Born
    BY <1>3, BornSame DEF SpendCode
  <2>2. RequestOK'
    <3>1. Goto(r, "promote") \/ Goto(r, "failed")
      BY <1>3 DEF SpendCode
    <3> QED
      BY <2>0, <2>1, <3>1, GotoMoves DEF Steps, SignedIn
  <2>3. TotpOK'
    BY <1>3, <2>0, ZeroTyped DEF SpendCode, TotpOK, TotpState, RequestState, person
  <2> QED
    BY <1>3, <2>1, <2>2, <2>3 DEF SpendCode, StandingOK, SessionOK
<1>4. CASE RedeemRecovery(r)
  <2>0. req[r].id \in Born
    BY <1>4, WithSession DEF RedeemRecovery, Doing, SignedIn
  <2>1. UNCHANGED session /\ Born' = Born
    BY <1>4, BornSame DEF RedeemRecovery
  <2>2. RequestOK'
    <3>1. Goto(r, "clear") \/ Goto(r, "failed")
      BY <1>4 DEF RedeemRecovery
    <3> QED
      BY <2>0, <2>1, <3>1, GotoMoves DEF Steps, SignedIn
  <2>3. TotpOK'
    BY <1>4 DEF RedeemRecovery, TotpOK, person
  <2> QED
    BY <1>4, <2>1, <2>2, <2>3 DEF RedeemRecovery, StandingOK, SessionOK
<1>5. CASE ClearFailures(r)
  <2>0. req[r].id \in Born
    BY <1>5, WithSession DEF ClearFailures, At, SignedIn
  <2>1. UNCHANGED session /\ Born' = Born
    BY <1>5, BornSame DEF ClearFailures
  <2>2. RequestOK'
    BY <1>5, <2>0, <2>1, GotoMoves DEF ClearFailures, Steps
  <2>3. TotpOK'
    BY <1>5, ZeroTyped DEF ClearFailures, TotpOK, TotpState, person, history
  <2> QED
    BY <1>5, <2>1, <2>2, <2>3 DEF ClearFailures, StandingOK, SessionOK
<1>6. CASE Promote(r)
  <2>1. session' \in [Session -> SessionState]
    BY <1>6 DEF Promote, SessionOK, SessionState, States, Stages
  <2>2. \A t \in Session : session'[t].state = "none" <=> session[t].state = "none"
    BY <1>6 DEF Promote, SessionOK, SessionState
  <2>3. Born' = Born
    BY <2>2 DEF Born
  <2>4. RequestOK'
    BY <1>6, <2>3, AnswerMoves DEF Promote
  <2> QED
    BY <1>6, <2>1, <2>3, <2>4 DEF Promote, StandingOK, TotpOK, SessionOK, person, history
<1> QED
  BY <1>1, <1>2, <1>3, <1>4, <1>5, <1>6

LEMMA EnrolmentType ==
  ASSUME TypeInv, NEW r \in Request,
         \/ BeginEnrolment(r)
         \/ IssueSecret(r)
         \/ RestartEnrolment(r)
         \/ \E code \in 1..(MaxStep + 1) : ReadEnrolment(r, code)
         \/ CommitEnrolment(r)
  PROVE  TypeInv'
<1> USE DEF TypeInv
<1>0. UNCHANGED session /\ Born' = Born
  BY BornSame DEF BeginEnrolment, IssueSecret, RestartEnrolment, ReadEnrolment, CommitEnrolment
<1>1. CASE BeginEnrolment(r)
  <2>0. req[r].id \in Born
    BY <1>1, WithSession DEF BeginEnrolment, Doing, SignedIn
  <2>1. /\ shown' = shown \/ shown' = [shown EXCEPT ![r] = totp.secret]
        /\ Answer(r) \/ Goto(r, "issue")
    BY <1>1 DEF BeginEnrolment
  <2>2. RequestOK'
    BY <1>0, <2>0, <2>1, AnswerMoves, GotoMoves DEF Steps
  <2>3. TotpOK'
    BY <1>1, <2>1 DEF BeginEnrolment, TotpOK, TotpState, history
  <2> QED
    BY <1>0, <1>1, <2>2, <2>3 DEF BeginEnrolment, StandingOK, SessionOK
<1>2. CASE IssueSecret(r)
  <2>1. RequestOK'
    BY <1>0, <1>2, AnswerMoves DEF IssueSecret
  <2>2. TotpOK'
    <3>1. issued + 1 \in Secrets
      BY <1>2, SignInAssumption DEF IssueSecret, TotpOK, Secrets
    <3> QED
      BY <1>2, <3>1, ZeroTyped DEF IssueSecret, TotpOK, TotpState
  <2> QED
    BY <1>0, <1>2, <2>1, <2>2 DEF IssueSecret, StandingOK, SessionOK
<1>3. CASE RestartEnrolment(r)
  <2>1. RequestOK'
    BY <1>0, <1>3, AnswerMoves DEF RestartEnrolment
  <2>2. TotpOK'
    BY <1>3, NoRowTyped DEF RestartEnrolment, TotpOK, person, history
  <2> QED
    BY <1>0, <1>3, <2>1, <2>2 DEF RestartEnrolment, StandingOK, SessionOK
<1>4. ASSUME NEW code \in 1..(MaxStep + 1), ReadEnrolment(r, code) PROVE TypeInv'
  <2>0. req[r].step = "work" /\ req[r].id \in Born /\ req[r] \in RequestState
    BY <1>4, WithSession DEF ReadEnrolment, Doing, SignedIn
  <2>1. RequestOK'
    <3>1. CASE HasRow /\ ~totp.confirmed /\ shown[r] = totp.secret /\ InWindow(code)
      <4> DEFINE q == [req[r] EXCEPT !.step = "commit", !.code = code, !.secret = totp.secret]
      <4>1. q \in RequestState /\ q.id = req[r].id
        <5>1. totp.secret \in Secrets /\ code \in Codes
          BY SignInAssumption DEF TotpOK, TotpState, Codes
        <5> QED
          BY <2>0, <5>1 DEF RequestState, Steps
      <4>2. req' = [req EXCEPT ![r] = q]
        BY <1>4, <3>1 DEF ReadEnrolment, RequestOK, RequestState
      <4> HIDE DEF q
      <4> QED
        BY <1>0, <2>0, <4>1, <4>2, GoesOn
    <3>2. CASE ~(HasRow /\ ~totp.confirmed /\ shown[r] = totp.secret /\ InWindow(code))
      <4>1. Answer(r)
        BY <1>4, <3>2 DEF ReadEnrolment
      <4> QED
        BY <1>0, <4>1, AnswerMoves
    <3> QED
      BY <3>1, <3>2
  <2> QED
    BY <1>0, <1>4, <2>1 DEF ReadEnrolment, StandingOK, TotpOK, SessionOK, person, history
<1>5. CASE CommitEnrolment(r)
  <2>0. req[r] \in RequestState
    BY DEF RequestOK
  <2>1. RequestOK'
    BY <1>0, <1>5, AnswerMoves DEF CommitEnrolment
  <2>2. TotpOK'
    <3>1. totp' \in TotpState
      BY <1>5, <2>0, ZeroTyped DEF CommitEnrolment, TotpOK, TotpState, RequestState
    <3>2. recovery' \in [batch : Nat, unused : BOOLEAN]
      BY <1>5 DEF CommitEnrolment, TotpOK
    <3>3. shown' \in [Request -> Secrets] /\ device' \in Secrets /\ issued' = issued
      BY <1>5, <2>0, ZeroTyped DEF CommitEnrolment, TotpOK, RequestState
    <3> QED
      BY <3>1, <3>2, <3>3 DEF TotpOK
  <2> QED
    BY <1>0, <1>5, <2>1, <2>2 DEF CommitEnrolment, StandingOK, SessionOK
<1> QED
  BY <1>1, <1>2, <1>3, <1>4, <1>5

LEMMA OutsideType == ASSUME TypeInv, Outside PROVE TypeInv'
<1> USE DEF TypeInv
<1>0. ASSUME UNCHANGED session PROVE Born' = Born
  BY <1>0, BornSame
<1>1. CASE PasswordChanges
  <2>1. account.cred = 0
    BY <1>1 DEF PasswordChanges, Unchanged
  <2>2. account' = [account EXCEPT !.cred = account.cred + 1] /\ UNCHANGED <<now, attempts>>
    BY <1>1 DEF PasswordChanges
  <2>3. StandingOK'
    BY <2>1, <2>2 DEF StandingOK
  <2> QED
    BY <1>0, <1>1, <2>3 DEF PasswordChanges, TotpOK, SessionOK, RequestOK, person, history
<1>2. CASE StandingChanges
  BY <1>0, <1>2 DEF StandingChanges, StandingOK, TotpOK, SessionOK, RequestOK, person, history
<1>3. CASE Tick
  BY <1>0, <1>3, SignInAssumption DEF Tick, StandingOK, TotpOK, SessionOK, RequestOK, person, history
<1>4. CASE LockExpires
  BY <1>0, <1>4 DEF LockExpires, StandingOK, TotpOK, TotpState, SessionOK, RequestOK, person, history
<1>5. CASE WindowPasses
  BY <1>0, <1>5, SignInAssumption DEF WindowPasses, StandingOK, TotpOK, SessionOK, RequestOK, person
<1>6. CASE (\E s \in Session : SessionExpires(s) \/ SessionIdles(s)) \/ RevokeSessionsForAccount
  <2>1. session' \in [Session -> SessionState]
    BY <1>6 DEF SessionExpires, SessionIdles, RevokeSessionsForAccount, SessionOK, SessionState, States
  <2>2. \A t \in Session : session'[t].state = "none" <=> session[t].state = "none"
    BY <1>6 DEF SessionExpires, SessionIdles, RevokeSessionsForAccount, SessionOK, SessionState
  <2>3. Born' = Born
    BY <2>2 DEF Born
  <2>4. UNCHANGED <<now, account, attempts, totp, recovery, cookie, req, person, history>>
    BY <1>6 DEF SessionExpires, SessionIdles, RevokeSessionsForAccount
  <2> QED
    BY <2>1, <2>3, <2>4 DEF StandingOK, TotpOK, SessionOK, RequestOK, person, history
<1> QED
  BY <1>1, <1>2, <1>3, <1>4, <1>5, <1>6 DEF Outside

LEMMA StepType == TypeInv /\ [Next]_vars => TypeInv'
<1> SUFFICES ASSUME TypeInv, [Next]_vars PROVE TypeInv'
  OBVIOUS
<1>1. ASSUME NEW r \in Request, Begin(r) PROVE TypeInv'
  BY <1>1, PasswordType, SessionType DEF Begin
<1>2. ASSUME NEW r \in Request, Serve(r) PROVE TypeInv'
  BY <1>2, PasswordType, SessionType, CodeType, EnrolmentType DEF Serve
<1>3. CASE Outside
  BY <1>3, OutsideType
<1>4. CASE UNCHANGED vars
  BY <1>4, BornSame DEF vars, person, history, TypeInv, StandingOK, TotpOK, SessionOK, RequestOK
<1> QED
  BY <1>1, <1>2, <1>3, <1>4 DEF Next

LEMMA Typed == Spec => []TypeInv
BY InitType, StepType, PTL DEF Spec

\* Whatever the requests, the clock and the rest of the panel do, every table and
\* every request is well formed: the count of wrong codes stays below its limit,
\* and a request past loadSession has a session that was created.
THEOREM SignInTypeCorrect == Spec => []TypeOK
BY Typed, TypeInvImplies, PTL

-----------------------------------------------------------------------------
(* One request moves at a time *)

\* What a step of one request does to the requests: the others wait; a password is
\* awaited only by one that passed the throttle, a failure is left only by being
\* recorded, and a code is about to be written only once it was judged.
Passes(r) == CheckThrottle(r) /\ ~Blocked
Judges(r) == \E code \in 1..(MaxStep + 1) : ReadTotp(r, code) \/ ReadEnrolment(r, code)

Moves(r) ==
  /\ \A x \in Request \ {r} : req'[x] = req[x]
  /\ req'[r].step = "credentials" => Passes(r)
  /\ req[r].step = "failed" => RecordFailure(r)
  /\ req'[r].step \in {"spend", "commit"} => Judges(r)

LEMMA GoesMoves ==
  ASSUME TypeInv, NEW r \in Request, req[r].step # "failed",
         \/ \E step \in Steps : Goto(r, step) /\ step \notin {"credentials", "spend", "commit"}
         \/ Answer(r)
  PROVE  Moves(r)
<1>1. ASSUME NEW step \in Steps, Goto(r, step), step \notin {"credentials", "spend", "commit"}
      PROVE  Moves(r)
  <2>1. req'[r].step = step /\ \A x \in Request \ {r} : req'[x] = req[x]
    BY <1>1, GotoSets DEF TypeInv
  <2> QED
    BY <1>1, <2>1 DEF Moves
<1>2. CASE Answer(r)
  BY <1>2, AnswerSets, IdleTyped DEF Moves, TypeInv
<1> QED
  BY <1>1, <1>2

\* The request keeps its fields but for the step, and some that were read.
LEMMA UpdateMoves ==
  ASSUME TypeInv, NEW r \in Request, req[r].step # "failed", NEW q,
         req' = [req EXCEPT ![r] = q], q.step # "credentials",
         q.step \in {"spend", "commit"} => Judges(r)
  PROVE  Moves(r)
BY DEF Moves, TypeInv, RequestOK

LEMMA PasswordMoves ==
  ASSUME TypeInv, NEW r \in Request,
         \/ CheckThrottle(r)
         \/ \E correct \in BOOLEAN : ReadCredentials(r, correct)
         \/ ReadMfaState(r)
         \/ CreateSession(r)
         \/ RecordFailure(r)
  PROVE  Moves(r)
<1> USE DEF TypeInv
<1>0. req[r] \in RequestState
  BY DEF RequestOK
<1>1. CASE CheckThrottle(r)
  <2>1. CASE Blocked
    BY <1>1, <2>1 DEF CheckThrottle, Begins, At, Moves
  <2>2. CASE ~Blocked
    <3> DEFINE q == [Idle EXCEPT !.kind = "password", !.step = "credentials"]
    <3>1. q.step = "credentials"
      BY IdleTyped DEF RequestState
    <3>2. req' = [req EXCEPT ![r] = q] /\ req[r].step = "idle"
      BY <1>1, <2>2 DEF CheckThrottle, Begins, At
    <3> HIDE DEF q
    <3> QED
      BY <1>1, <2>2, <3>1, <3>2 DEF Moves, RequestOK, Passes
  <2> QED
    BY <2>1, <2>2
<1>2. ASSUME NEW correct \in BOOLEAN, ReadCredentials(r, correct) PROVE Moves(r)
  <2>0. req[r].step = "credentials"
    BY <1>2 DEF ReadCredentials, Doing
  <2>1. CASE correct /\ account.staff /\ ~account.banned
    <3> DEFINE q == [req[r] EXCEPT !.step = "mfa", !.fp = account.cred]
    <3>1. q.step = "mfa"
      BY <1>0 DEF RequestState
    <3>2. req' = [req EXCEPT ![r] = q]
      BY <1>2, <2>1 DEF ReadCredentials, RequestOK, RequestState
    <3> HIDE DEF q
    <3> QED
      BY <2>0, <3>1, <3>2, UpdateMoves
  <2>2. CASE ~(correct /\ account.staff /\ ~account.banned)
    <3>1. Goto(r, "failed")
      BY <1>2, <2>2 DEF ReadCredentials
    <3> QED
      BY <2>0, <3>1, GoesMoves DEF Steps
  <2> QED
    BY <2>1, <2>2
<1>3. CASE ReadMfaState(r)
  <2>0. req[r].step = "mfa"
    BY <1>3 DEF ReadMfaState, Doing
  <2>1. CASE ~totp.locked
    <3> DEFINE q == [req[r] EXCEPT !.step = "create",
                       !.stage = IF totp.confirmed THEN "pending_totp" ELSE "pending_enrolment"]
    <3>1. q.step = "create"
      BY <1>0 DEF RequestState
    <3>2. req' = [req EXCEPT ![r] = q]
      BY <1>3, <2>1 DEF ReadMfaState, RequestOK, RequestState
    <3> HIDE DEF q
    <3> QED
      BY <2>0, <3>1, <3>2, UpdateMoves
  <2>2. CASE totp.locked
    <3>1. Goto(r, "failed")
      BY <1>3, <2>2 DEF ReadMfaState
    <3> QED
      BY <2>0, <3>1, GoesMoves DEF Steps
  <2> QED
    BY <2>1, <2>2
<1>4. CASE CreateSession(r)
  BY <1>4, GoesMoves DEF CreateSession, Doing
<1>5. CASE RecordFailure(r)
  BY <1>5, AnswerSets, IdleTyped DEF RecordFailure, Moves
<1> QED
  BY <1>1, <1>2, <1>3, <1>4, <1>5

LEMMA SessionMoves ==
  ASSUME TypeInv, NEW r \in Request,
         (\E kind \in Kinds : LoadSession(r, kind)) \/ RevokeSession(r)
  PROVE  Moves(r)
<1>1. ASSUME NEW kind \in Kinds, LoadSession(r, kind) PROVE Moves(r)
  <2>0. req[r].step = "idle"
    BY <1>1 DEF LoadSession, Begins, At
  <2>1. CASE Answer(r)
    BY <2>0, <2>1, GoesMoves
  <2>2. CASE req' = req
    BY <2>0, <2>2 DEF Moves
  <2> DEFINE q == [Idle EXCEPT !.kind = kind, !.step = "work", !.id = cookie[BrowserOf[r]]]
             n == [Idle EXCEPT !.kind = Refused(kind), !.step = "refused",
                               !.id = cookie[BrowserOf[r]]]
  <2>3. CASE req' = [req EXCEPT ![r] = q] \/ req' = [req EXCEPT ![r] = n]
    <3>1. q.step = "work" /\ n.step = "refused"
      BY IdleTyped DEF RequestState
    <3> HIDE DEF q, n
    <3> QED
      BY <2>0, <2>3, <3>1, UpdateMoves
  <2> QED
    BY <1>1, <2>1, <2>2, <2>3, Loaded
<1>2. CASE RevokeSession(r)
  BY <1>2, GoesMoves DEF RevokeSession, Refuse, At, Doing
<1> QED
  BY <1>1, <1>2

LEMMA WorkMoves ==
  ASSUME TypeInv, NEW r \in Request,
         \/ CountFailure(r) \/ SpendCode(r) \/ RedeemRecovery(r) \/ ClearFailures(r) \/ Promote(r)
         \/ BeginEnrolment(r) \/ IssueSecret(r) \/ RestartEnrolment(r) \/ CommitEnrolment(r)
  PROVE  Moves(r)
<1>1. req[r].step \in {"count", "spend", "work", "clear", "promote", "issue", "commit"}
  BY DEF CountFailure, SpendCode, RedeemRecovery, ClearFailures, Promote, BeginEnrolment,
    IssueSecret, RestartEnrolment, CommitEnrolment, At, Doing
<1>2. \/ Goto(r, "failed") \/ Goto(r, "promote") \/ Goto(r, "clear") \/ Goto(r, "issue")
      \/ Answer(r)
  BY DEF CountFailure, SpendCode, RedeemRecovery, ClearFailures, Promote, BeginEnrolment,
    IssueSecret, RestartEnrolment, CommitEnrolment
<1> QED
  BY <1>1, <1>2, GoesMoves DEF Steps

LEMMA JudgeMoves ==
  ASSUME TypeInv, NEW r \in Request, Judges(r)
  PROVE  Moves(r)
<1>1. PICK code \in 1..(MaxStep + 1) : ReadTotp(r, code) \/ ReadEnrolment(r, code)
  BY DEF Judges
<1>2. req[r].step = "work" /\ req[r] \in RequestState
  BY <1>1 DEF ReadTotp, ReadEnrolment, Doing, TypeInv, RequestOK
<1>3. ASSUME NEW step \in {"spend", "count", "commit"}, NEW q,
             req' = [req EXCEPT ![r] = q], q.step = step
      PROVE  Moves(r)
  BY <1>2, <1>3, UpdateMoves
<1>4. CASE ReadTotp(r, code)
  <2>1. CASE Goto(r, "failed")
    BY <1>2, <2>1, GoesMoves DEF Steps
  <2>2. CASE req' = [req EXCEPT ![r].step = "spend", ![r].code = code, ![r].secret = totp.secret]
    <3> DEFINE q == [req[r] EXCEPT !.step = "spend", !.code = code, !.secret = totp.secret]
    <3>1. req' = [req EXCEPT ![r] = q] /\ q.step = "spend"
      BY <1>2, <2>2 DEF TypeInv, RequestOK, RequestState
    <3> QED
      BY <1>3, <3>1
  <2>3. CASE req' = [req EXCEPT ![r].step = "count", ![r].failures = totp.failures + 1]
    <3> DEFINE q == [req[r] EXCEPT !.step = "count", !.failures = totp.failures + 1]
    <3>1. req' = [req EXCEPT ![r] = q] /\ q.step = "count"
      BY <1>2, <2>3 DEF TypeInv, RequestOK, RequestState
    <3> QED
      BY <1>3, <3>1
  <2> QED
    BY <1>4, <2>1, <2>2, <2>3 DEF ReadTotp
<1>5. CASE ReadEnrolment(r, code)
  <2>1. CASE Answer(r)
    BY <1>2, <2>1, GoesMoves
  <2>2. CASE req' = [req EXCEPT ![r].step = "commit", ![r].code = code, ![r].secret = totp.secret]
    <3> DEFINE q == [req[r] EXCEPT !.step = "commit", !.code = code, !.secret = totp.secret]
    <3>1. req' = [req EXCEPT ![r] = q] /\ q.step = "commit"
      BY <1>2, <2>2 DEF TypeInv, RequestOK, RequestState
    <3> QED
      BY <1>3, <3>1
  <2> QED
    BY <1>5, <2>1, <2>2 DEF ReadEnrolment
<1> QED
  BY <1>1, <1>4, <1>5

LEMMA OneMoves ==
  ASSUME TypeInv, NEW r \in Request, Begin(r) \/ Serve(r)
  PROVE  Moves(r)
BY PasswordMoves, SessionMoves, WorkMoves, JudgeMoves DEF Begin, Serve, Judges

-----------------------------------------------------------------------------
(* A session that was revoked stays as it was *)

\* What a step leaves of a session that is over.
Over(t) ==
  /\ session[t].state = "revoked" => session'[t] = session[t]
  /\ session[t].state = "expired" => session'[t].state \in {"expired", "revoked"}

LEMMA RevokedOver ==
  ASSUME TypeInv, NEW s, session' = Revoked(s), NEW t \in Session
  PROVE  Over(t)
<1>0. session \in [Session -> SessionState]
  BY DEF TypeInv, SessionOK
<1>1. CASE t = s
  <2>1. session' = [session EXCEPT ![t] = [session[t] EXCEPT !.state =
          IF session[t].state \in {"live", "idle", "expired"} THEN "revoked" ELSE session[t].state]]
    BY <1>1 DEF Revoked
  <2> QED
    BY <1>0, <2>1 DEF SessionState, Over
<1>2. CASE t # s
  BY <1>0, <1>2 DEF Revoked, Over
<1> QED
  BY <1>1, <1>2

LEMMA RevokedKept ==
  ASSUME TypeInv, [Next]_vars, NEW t \in Session
  PROVE  Over(t)
<1>0. session \in [Session -> SessionState]
  BY DEF TypeInv, SessionOK
<1>1. ASSUME NEW r \in Request, CreateSession(r) PROVE Over(t)
  <2>1. PICK s \in Session : /\ session[s].state = "none"
                             /\ session' = [session EXCEPT ![s] =
                                  [state |-> "live", fp |-> req[r].fp, stage |-> req[r].stage]]
    BY <1>1 DEF CreateSession
  <2> QED
    BY <1>0, <2>1 DEF Over
<1>2. ASSUME NEW r \in Request, Promote(r) PROVE Over(t)
  BY <1>0, <1>2 DEF Promote, Promotable, SessionState, Over
<1>3. ASSUME NEW r \in Request, Begin(r) \/ RevokeSession(r) PROVE Over(t)
  <2>1. session' = session \/ \E s \in 0..MaxSession : session' = Revoked(s)
    <3>1. req[r].id \in 0..MaxSession
      BY DEF TypeInv, RequestOK, RequestState
    <3> QED
      BY <1>3, <3>1, Loaded DEF Begin, CheckThrottle, RevokeSession
  <2> QED
    BY <2>1, RevokedOver DEF Over
<1>4. ASSUME NEW s \in Session, SessionExpires(s) \/ SessionIdles(s) PROVE Over(t)
  BY <1>0, <1>4 DEF SessionExpires, SessionIdles, SessionState, Over
<1>5. CASE RevokeSessionsForAccount
  BY <1>0, <1>5 DEF RevokeSessionsForAccount, SessionState, Over
<1>6. ASSUME NEW r \in Request, Serve(r), ~CreateSession(r), ~Promote(r), ~RevokeSession(r)
      PROVE  session' = session
  BY <1>6 DEF Serve, ReadMfaState, RecordFailure, ReadCredentials, ReadTotp,
    ReadEnrolment, CountFailure, SpendCode, RedeemRecovery, ClearFailures, BeginEnrolment,
    IssueSecret, RestartEnrolment, CommitEnrolment
<1>7. CASE PasswordChanges \/ StandingChanges \/ Tick \/ LockExpires \/ WindowPasses
  BY <1>7 DEF PasswordChanges, StandingChanges, Tick, LockExpires, WindowPasses, Over
<1>8. CASE UNCHANGED vars
  BY <1>8 DEF vars, Over
<1>9. session' = session => Over(t)
  BY DEF Over
<1> QED
  BY <1>1, <1>2, <1>3, <1>4, <1>5, <1>6, <1>7, <1>8, <1>9 DEF Next, Outside

\* Whatever requests were under way when a session was revoked, none of them changes
\* its row again, and one that expired never loads again, though the request that
\* holds it may still promote it: promoteSession asks for revoked_at alone.
THEOREM RevokedIsDead == Spec => RevokedStaysDead
<1>1. TypeInv /\ [Next]_vars =>
        [\A s \in Session :
           /\ session[s].state = "revoked" => session'[s] = session[s]
           /\ session[s].state = "expired" => session'[s].state \in {"expired", "revoked"}]_vars
  BY RevokedKept DEF Over
<1> QED
  BY <1>1, Typed, PTL DEF Spec, RevokedStaysDead

-----------------------------------------------------------------------------
(* Guesses at the password *)

\* Requests whose failure is not recorded yet, and those past the throttle.
Failed == {x \in Request : At(x, "failed")}
Comparing == {x \in Request : At(x, "credentials")}

\* Below the limit each compared guess is recorded or about to be; at it, no
\* request joins those that passed the throttle, and each may fail once more.
GuessInv ==
  /\ guesses \in Nat
  /\ IF attempts < LoginAttempts
       THEN guesses <= attempts + Cardinality(Failed)
       ELSE guesses + Cardinality(Comparing) <= LoginAttempts + Cardinality(Request) - 1

LEMMA WaitingFinite ==
  /\ IsFiniteSet(Failed) /\ Cardinality(Failed) \in Nat
  /\ IsFiniteSet(Comparing) /\ Cardinality(Comparing) \in Nat
  /\ Cardinality(Request) \in Nat
  /\ Cardinality(Failed) + Cardinality(Comparing) <= Cardinality(Request)
<1>1. Failed \in SUBSET Request /\ Comparing \in SUBSET Request
  BY DEF Failed, Comparing
<1>2. Failed \cap Comparing = {} /\ Failed \cup Comparing \in SUBSET Request
  BY DEF Failed, Comparing, At
<1>3. IsFiniteSet(Failed) /\ IsFiniteSet(Comparing) /\ IsFiniteSet(Request)
  BY <1>1, FS_Subset, SignInAssumption
<1>4. /\ Cardinality(Failed) \in Nat /\ Cardinality(Comparing) \in Nat
      /\ Cardinality(Request) \in Nat
  BY <1>3, FS_CardinalityType
<1>5. Cardinality(Failed \cup Comparing) = Cardinality(Failed) + Cardinality(Comparing)
  <2>1. Cardinality(Failed \cap Comparing) = 0
    BY <1>2, FS_EmptySet
  <2>2. Cardinality(Failed \cup Comparing)
          = Cardinality(Failed) + Cardinality(Comparing) - Cardinality(Failed \cap Comparing)
    BY <1>3, FS_Union
  <2> QED
    BY <1>4, <2>1, <2>2
<1>6. Cardinality(Failed \cup Comparing) <= Cardinality(Request)
  BY <1>2, <1>3, FS_Subset
<1> QED
  BY <1>3, <1>4, <1>5, <1>6

LEMMA GuessInvImplies == TypeInv /\ GuessInv => GuessesLimited
<1> SUFFICES ASSUME TypeInv, GuessInv PROVE GuessesLimited
  OBVIOUS
<1>1. attempts \in 0..LoginAttempts
  BY DEF TypeInv, StandingOK
<1>2. CASE attempts < LoginAttempts
  BY <1>1, <1>2, WaitingFinite, SignInAssumption DEF GuessInv, GuessesLimited
<1>3. CASE ~(attempts < LoginAttempts)
  BY <1>1, <1>3, WaitingFinite, SignInAssumption DEF GuessInv, GuessesLimited
<1> QED
  BY <1>2, <1>3

\* The steps that count nothing: none begins to wait for a password, and no
\* failure is left behind.
LEMMA GuessFrame ==
  ASSUME TypeInv, GuessInv, UNCHANGED <<attempts, guesses>>,
         Failed \subseteq Failed', Comparing' \subseteq Comparing,
         Failed' \subseteq Request, Comparing' \subseteq Request
  PROVE  GuessInv'
<1>1. IsFiniteSet(Failed') /\ IsFiniteSet(Comparing')
  BY FS_Subset, SignInAssumption
<1>2. Cardinality(Failed) <= Cardinality(Failed') /\ Cardinality(Comparing') <= Cardinality(Comparing)
  BY <1>1, WaitingFinite, FS_Subset
<1>3. Cardinality(Failed') \in Nat /\ Cardinality(Comparing') \in Nat
  BY <1>1, FS_CardinalityType
<1> QED
  BY <1>2, <1>3, WaitingFinite, SignInAssumption DEF GuessInv, TypeInv, StandingOK

LEMMA GuessStep == TypeInv /\ GuessInv /\ [Next]_vars => GuessInv'
<1> SUFFICES ASSUME TypeInv, GuessInv, [Next]_vars PROVE GuessInv'
  OBVIOUS
<1> USE DEF At, Doing
<1>a. attempts \in 0..LoginAttempts /\ LoginAttempts \in Nat \ {0}
  BY SignInAssumption DEF TypeInv, StandingOK
<1>0. /\ attempts \in 0..LoginAttempts /\ LoginAttempts \in Nat \ {0}
      /\ Failed' = {x \in Request : req'[x].step = "failed"}
      /\ Comparing' = {x \in Request : req'[x].step = "credentials"}
  BY SignInAssumption DEF TypeInv, StandingOK, Failed, Comparing
<1>1. ASSUME NEW r \in Request, RecordFailure(r) PROVE GuessInv'
  <2>1. /\ Failed' = Failed \ {r} /\ Comparing' = Comparing /\ r \in Failed
    <3>1. req[r].step = "failed" /\ req'[r] = Idle /\ \A x \in Request \ {r} : req'[x] = req[x]
      BY <1>1 DEF RecordFailure, Answer, TypeInv, RequestOK
    <3> QED
      BY <1>0, <3>1, IdleTyped DEF Failed, Comparing
  <2>2. Cardinality(Failed') = Cardinality(Failed) - 1
    BY <2>1, WaitingFinite, FS_RemoveElement
  <2>3. guesses' = guesses /\ attempts' = IF attempts < LoginAttempts THEN attempts + 1 ELSE attempts
    BY <1>1 DEF RecordFailure, history
  <2>4. CASE attempts + 1 < LoginAttempts
    BY <1>a, <2>2, <2>3, <2>4, WaitingFinite DEF GuessInv
  <2>5. CASE attempts + 1 = LoginAttempts
    <3>1. guesses <= attempts + Cardinality(Failed) /\ guesses \in Nat
      BY <1>a, <2>5 DEF GuessInv
    <3>2. guesses + Cardinality(Comparing) <= LoginAttempts + Cardinality(Request) - 1
      BY <1>a, <2>5, <3>1, WaitingFinite
    <3> QED
      BY <1>a, <2>1, <2>3, <2>5, <3>1, <3>2 DEF GuessInv
  <2>6. CASE attempts = LoginAttempts
    BY <1>a, <2>1, <2>3, <2>6 DEF GuessInv
  <2> QED
    BY <1>a, <2>4, <2>5, <2>6
<1>2. ASSUME NEW r \in Request, CheckThrottle(r), ~Blocked PROVE GuessInv'
  <2>1. Failed' = Failed /\ UNCHANGED <<attempts, guesses>> /\ attempts < LoginAttempts
    <3> DEFINE q == [Idle EXCEPT !.kind = "password", !.step = "credentials"]
    <3>1. q.step = "credentials" /\ req[r].step = "idle" /\ req' = [req EXCEPT ![r] = q]
      BY <1>2, IdleTyped DEF CheckThrottle, Begins, RequestState
    <3> HIDE DEF q
    <3>2. req'[r].step = "credentials" /\ \A x \in Request \ {r} : req'[x] = req[x]
      BY <3>1 DEF TypeInv, RequestOK
    <3> QED
      BY <1>0, <1>2, <3>1, <3>2 DEF Failed, CheckThrottle, Blocked, history
  <2> QED
    BY <1>0, <2>1 DEF GuessInv
<1>3. ASSUME NEW r \in Request, NEW correct \in BOOLEAN, ReadCredentials(r, correct), ~correct
      PROVE  GuessInv'
  <2>1. Failed' = Failed \cup {r} /\ Comparing' = Comparing \ {r} /\ r \in Comparing /\ r \notin Failed
    <3>1. Goto(r, "failed") /\ req[r].step = "credentials"
      BY <1>3 DEF ReadCredentials
    <3>2. req'[r].step = "failed" /\ \A x \in Request \ {r} : req'[x] = req[x]
      BY <3>1, GotoSets DEF Steps, TypeInv
    <3> QED
      BY <1>0, <3>1, <3>2 DEF Failed, Comparing
  <2>2. /\ Cardinality(Failed') = Cardinality(Failed) + 1
        /\ Cardinality(Comparing') = Cardinality(Comparing) - 1
    BY <2>1, WaitingFinite, FS_AddElement, FS_RemoveElement
  <2>3. guesses' = guesses + 1 /\ attempts' = attempts
    BY <1>3 DEF ReadCredentials
  <2> QED
    BY <1>0, <2>2, <2>3, WaitingFinite DEF GuessInv
<1>4. ASSUME NEW r \in Request, Begin(r) \/ Serve(r), ~RecordFailure(r), ~Passes(r),
             UNCHANGED <<attempts, guesses>>
      PROVE  GuessInv'
  <2>1. Moves(r)
    BY <1>4, OneMoves
  <2>2. Failed \subseteq Failed' /\ Comparing' \subseteq Comparing
    BY <1>0, <1>4, <2>1 DEF Moves, Failed, Comparing
  <2> QED
    BY <1>0, <1>4, <2>2, GuessFrame
<1>5. ASSUME NEW r \in Request, Begin(r) \/ Serve(r), ~RecordFailure(r),
             ~ReadCredentials(r, FALSE)
      PROVE  UNCHANGED <<attempts, guesses>>
  <2>1. CASE Begin(r)
    BY <2>1 DEF Begin, CheckThrottle, LoadSession, history
  <2>2. ASSUME NEW correct \in BOOLEAN, ReadCredentials(r, correct)
        PROVE  UNCHANGED <<attempts, guesses>>
    BY <1>5, <2>2 DEF ReadCredentials
  <2>3. CASE Serve(r)
    BY <1>5, <2>2, <2>3 DEF Serve, ReadMfaState, CreateSession, ReadTotp,
      ReadEnrolment, CountFailure, SpendCode, RedeemRecovery, ClearFailures, Promote,
      BeginEnrolment, IssueSecret, RestartEnrolment, CommitEnrolment, RevokeSession, Refuse, history
  <2> QED
    BY <1>5, <2>1, <2>3
<1>6. CASE Outside
  <2>1. CASE WindowPasses
    <3>1. attempts' = 0 /\ guesses' = 0 /\ req' = req
      BY <2>1 DEF WindowPasses
    <3>2. Failed' = Failed
      BY <1>0, <3>1 DEF Failed
    <3>3. guesses' <= attempts' + Cardinality(Failed')
      BY <3>1, <3>2, WaitingFinite
    <3> QED
      BY <1>a, <3>1, <3>3 DEF GuessInv
  <2>2. CASE ~WindowPasses
    <3>1. UNCHANGED <<attempts, guesses, req>>
      BY <1>6, <2>2 DEF Outside, PasswordChanges, StandingChanges, Tick, LockExpires, SessionExpires,
        SessionIdles, RevokeSessionsForAccount, history
    <3> QED
      BY <1>0, <3>1, GuessFrame DEF Failed, Comparing
  <2> QED
    BY <2>1, <2>2
<1>7. CASE UNCHANGED vars
  BY <1>0, <1>7, GuessFrame DEF vars, history, Failed, Comparing
<1> QED
  BY <1>1, <1>2, <1>3, <1>4, <1>5, <1>6, <1>7 DEF Next, Passes, Begin, Serve

\* Whatever the number of requests and however their requests interleave, the
\* wrong passwords compared in a window are at most the limit and one for each
\* request that had passed the throttle before the limit was reached.
THEOREM GuessesAreLimited == Spec => []GuessesLimited
<1>1. Init => GuessInv
  <2> SUFFICES ASSUME Init PROVE GuessInv
    OBVIOUS
  <2> QED
    BY WaitingFinite, SignInAssumption DEF Init, GuessInv
<1> QED
  BY <1>1, GuessStep, GuessInvImplies, Typed, PTL DEF Spec

-----------------------------------------------------------------------------
(* Codes are spent once *)

CodesInv ==
  /\ totp.confirmed => totp.secret # 0
  /\ totp.secret <= issued
  /\ \A r \in Request : req[r].step \in {"spend", "commit"} => req[r].secret \in 1..issued
  /\ accepted \in SUBSET ((1..issued) \X Codes)
  /\ \A p \in accepted : p[1] = totp.secret => p[2] <= totp.last
  /\ recovery.unused => recovery.batch \notin redeemed
  /\ \A batch \in redeemed : batch \in 0..recovery.batch

\* What the requests hold when a step issues no secret and judges no code.
LEMMA SpendingKept ==
  ASSUME TypeInv, CodesInv, NEW r \in Request, Moves(r), ~Judges(r), issued' \in Nat,
         issued <= issued'
  PROVE  \A x \in Request : req'[x].step \in {"spend", "commit"} => req'[x].secret \in 1..issued'
<1> SUFFICES ASSUME NEW x \in Request, req'[x].step \in {"spend", "commit"}
             PROVE  req'[x].secret \in 1..issued'
  OBVIOUS
<1>1. req'[x] = req[x]
  BY DEF Moves
<1>2. issued \in Nat
  BY SignInAssumption DEF TypeInv, TotpOK, Secrets
<1> QED
  BY <1>1, <1>2 DEF CodesInv

LEMMA JudgesCodes ==
  ASSUME TypeInv, CodesInv, NEW r \in Request, NEW code \in 1..(MaxStep + 1),
         ReadTotp(r, code) \/ ReadEnrolment(r, code)
  PROVE  CodesInv'
<1>1. UNCHANGED <<totp, recovery, accepted, redeemed, issued>>
  BY DEF ReadTotp, ReadEnrolment, history
<1>2. Moves(r)
  BY OneMoves DEF Serve
<1>3. req'[r].step \in {"spend", "commit"} => req'[r].secret \in 1..issued
  <2>0. req[r] \in RequestState /\ totp \in TotpState /\ issued \in Nat
    BY SignInAssumption
      DEF TypeInv, RequestOK, TotpOK, Secrets, ReadTotp, ReadEnrolment, Doing, SignedIn
  <2>1. HasRow => totp.secret \in 1..issued
    BY <2>0, SignInAssumption DEF HasRow, CodesInv, TotpState, Secrets
  <2>2. CASE req' = [req EXCEPT ![r].step = "count", ![r].failures = totp.failures + 1]
    <3>1. req'[r].step = "count"
      BY <2>0, <2>2 DEF TypeInv, RequestOK, RequestState
    <3> QED
      BY <3>1
  <2>3. CASE Goto(r, "failed")
    BY <2>3, GotoSets DEF TypeInv, Steps
  <2>4. CASE Answer(r)
    BY <2>4, IdleTyped DEF Answer, TypeInv, RequestOK
  <2>5. ASSUME NEW step, HasRow,
               req' = [req EXCEPT ![r].step = step, ![r].code = code, ![r].secret = totp.secret]
        PROVE  req'[r].secret \in 1..issued
    <3>1. req'[r].secret = totp.secret
      BY <2>0, <2>5 DEF TypeInv, RequestOK, RequestState
    <3> QED
      BY <2>1, <2>5, <3>1
  <2>6. totp.confirmed => HasRow
    BY DEF CodesInv, HasRow
  <2> QED
    BY <2>2, <2>3, <2>4, <2>5, <2>6 DEF ReadTotp, ReadEnrolment
<1> QED
  BY <1>1, <1>2, <1>3 DEF CodesInv, Moves

LEMMA SpendsCodes ==
  ASSUME TypeInv, CodesInv, NEW r \in Request, SpendCode(r)
  PROVE  CodesInv'
<1>0. /\ issued \in Nat /\ totp \in TotpState
      /\ req[r].secret \in 1..issued /\ req[r].code \in Codes
  BY SignInAssumption
    DEF TypeInv, TotpOK, RequestOK, RequestState, Secrets, CodesInv, SpendCode, At
<1>1. \A x \in Request : req'[x].step \in {"spend", "commit"} => req'[x].secret \in 1..issued'
  <2>1. issued' = issued /\ Moves(r) /\ ~Judges(r)
    BY OneMoves DEF Serve, SpendCode, Judges, ReadTotp, ReadEnrolment, At, Doing
  <2> QED
    BY <1>0, <2>1, SpendingKept
<1>2. CASE Unspent(r)
  <2>1. totp' = [totp EXCEPT !.last = req[r].code, !.failures = 0, !.locked = FALSE]
    BY <1>2 DEF SpendCode
  <2>2. /\ totp'.confirmed = totp.confirmed /\ totp'.secret = totp.secret
        /\ totp'.last = req[r].code /\ totp.last \in Codes
    BY <1>0, <2>1 DEF TotpState
  <2>3. /\ accepted' = accepted \cup {<<req[r].secret, req[r].code>>}
        /\ UNCHANGED <<recovery, redeemed, issued>> /\ totp.last < req[r].code
    BY <1>2 DEF SpendCode, Unspent
  <2>4. accepted' \in SUBSET ((1..issued') \X Codes)
    BY <1>0, <2>3 DEF CodesInv
  <2>5. \A p \in accepted' : p[1] = totp'.secret => p[2] <= totp'.last
    <3> SUFFICES ASSUME NEW p \in accepted', p[1] = totp'.secret PROVE p[2] <= totp'.last
      OBVIOUS
    <3>1. CASE p \in accepted
      <4>1. p[2] \in Codes /\ p[2] <= totp.last
        BY <2>2, <3>1 DEF CodesInv
      <4> QED
        BY <1>0, <2>2, <2>3, <4>1, SignInAssumption DEF Codes
    <3>2. CASE p = <<req[r].secret, req[r].code>>
      BY <1>0, <2>2, <3>2, SignInAssumption DEF Codes
    <3> QED
      BY <2>3, <3>1, <3>2
  <2> QED
    BY <1>1, <2>2, <2>3, <2>4, <2>5 DEF CodesInv
<1>3. CASE ~Unspent(r)
  BY <1>1, <1>3 DEF SpendCode, CodesInv
<1> QED
  BY <1>2, <1>3

LEMMA EnrolmentCodes ==
  ASSUME TypeInv, CodesInv, NEW r \in Request,
         IssueSecret(r) \/ RestartEnrolment(r) \/ CommitEnrolment(r)
  PROVE  CodesInv'
<1>0. issued \in Nat /\ totp \in TotpState /\ recovery \in [batch : Nat, unused : BOOLEAN]
  BY SignInAssumption DEF TypeInv, TotpOK, Secrets
<1>1. \A x \in Request : req'[x].step \in {"spend", "commit"} => req'[x].secret \in 1..issued'
  <2>1. Moves(r) /\ ~Judges(r)
    BY OneMoves DEF Serve, IssueSecret, RestartEnrolment, CommitEnrolment,
      Judges, ReadTotp, ReadEnrolment, At, Doing
  <2>2. issued' \in Nat /\ issued <= issued'
    BY <1>0 DEF IssueSecret, RestartEnrolment, CommitEnrolment, history
  <2> QED
    BY <2>1, <2>2, SpendingKept
<1>2. CASE IssueSecret(r)
  <2>1. /\ totp' = [totp EXCEPT !.secret = issued + 1, !.last = 0, !.failures = 0, !.locked = FALSE]
        /\ issued' = issued + 1 /\ UNCHANGED <<recovery, accepted, redeemed>>
    BY <1>2 DEF IssueSecret
  <2>2. totp'.secret = issued + 1
    BY <1>0, <2>1 DEF TotpState
  <2>3. accepted' \in SUBSET ((1..issued') \X Codes)
    BY <1>0, <2>1 DEF CodesInv
  <2>4. \A p \in accepted' : p[1] # totp'.secret
    BY <1>0, <2>1, <2>2 DEF CodesInv
  <2> QED
    BY <1>0, <1>1, <2>1, <2>2, <2>3, <2>4 DEF CodesInv
<1>3. CASE RestartEnrolment(r)
  <2>1. UNCHANGED <<recovery, accepted, redeemed, issued>>
    BY <1>3 DEF RestartEnrolment, history
  <2>2. CASE totp' = totp
    BY <1>1, <2>1, <2>2 DEF CodesInv
  <2>3. CASE totp' = NoRow
    <3>1. totp'.secret = 0 /\ totp'.confirmed = FALSE
      BY <2>3 DEF NoRow
    <3>2. \A p \in accepted' : p[1] # totp'.secret
      BY <1>0, <2>1, <3>1 DEF CodesInv
    <3> QED
      BY <1>0, <1>1, <2>1, <3>1, <3>2 DEF CodesInv
  <2> QED
    BY <1>3, <2>2, <2>3 DEF RestartEnrolment
<1>4. CASE CommitEnrolment(r)
  <2>1. /\ accepted' = {<<req[r].secret, req[r].code>>} /\ UNCHANGED <<redeemed, issued>>
        /\ recovery' = [batch |-> recovery.batch + 1, unused |-> TRUE]
    BY <1>4 DEF CommitEnrolment
  <2>2. req[r].secret \in 1..issued /\ req[r].code \in Codes
    BY <1>4 DEF CommitEnrolment, At, CodesInv, TypeInv, RequestOK, RequestState
  <2>3. accepted' \in SUBSET ((1..issued') \X Codes)
    BY <2>1, <2>2
  <2>4. \A batch \in redeemed' : batch \in 0..recovery'.batch /\ batch # recovery'.batch
    BY <1>0, <2>1 DEF CodesInv
  <2>5. /\ totp'.confirmed => totp'.secret # 0
        /\ totp'.secret = totp.secret
        /\ totp'.secret # 0 => totp'.last = req[r].code
    <3>1. CASE HasRow
      <4>1. totp' = [totp EXCEPT !.confirmed = TRUE, !.last = req[r].code,
                                 !.failures = 0, !.locked = FALSE]
        BY <1>4, <3>1 DEF CommitEnrolment
      <4> QED
        BY <1>0, <3>1, <4>1 DEF HasRow, TotpState
    <3>2. CASE ~HasRow
      BY <1>4, <3>2 DEF CommitEnrolment, HasRow, CodesInv
    <3> QED
      BY <3>1, <3>2
  <2>6. \A p \in accepted' : p[1] = totp'.secret => p[2] <= totp'.last
    BY <1>0, <2>1, <2>2, <2>5, SignInAssumption DEF Codes
  <2> QED
    BY <1>1, <2>1, <2>3, <2>4, <2>5, <2>6 DEF CodesInv
<1> QED
  BY <1>2, <1>3, <1>4

\* What changes none of the ledger of codes keeps the invariant.
LEMMA CodesFrame ==
  ASSUME TypeInv, CodesInv, UNCHANGED <<accepted, issued>>,
         UNCHANGED <<recovery, redeemed>>,
         UNCHANGED <<totp.secret, totp.confirmed, totp.last>>,
         \/ UNCHANGED req
         \/ \E r \in Request : Moves(r) /\ ~Judges(r)
  PROVE  CodesInv'
<1>1. issued \in Nat
  BY SignInAssumption DEF TypeInv, TotpOK, Secrets
<1>2. \A x \in Request : req'[x].step \in {"spend", "commit"} => req'[x].secret \in 1..issued'
  BY <1>1, SpendingKept DEF CodesInv
<1> QED
  BY <1>2 DEF CodesInv

LEMMA LapsedKeeps ==
  ASSUME TypeInv, NEW failures
  PROVE  /\ Lapsed(failures).secret = totp.secret
         /\ Lapsed(failures).confirmed = totp.confirmed
         /\ Lapsed(failures).last = totp.last
BY DEF Lapsed, TypeInv, TotpOK, TotpState

LEMMA CodesStep == TypeInv /\ CodesInv /\ [Next]_vars => CodesInv'
<1> SUFFICES ASSUME TypeInv, CodesInv, [Next]_vars PROVE CodesInv'
  OBVIOUS
<1>0. totp \in TotpState /\ recovery \in [batch : Nat, unused : BOOLEAN]
  BY DEF TypeInv, TotpOK
<1>1. ASSUME NEW r \in Request, Judges(r) PROVE CodesInv'
  BY <1>1, JudgesCodes DEF Judges
<1>2. ASSUME NEW r \in Request, SpendCode(r) PROVE CodesInv'
  BY <1>2, SpendsCodes
<1>3. ASSUME NEW r \in Request, IssueSecret(r) \/ RestartEnrolment(r) \/ CommitEnrolment(r)
      PROVE  CodesInv'
  BY <1>3, EnrolmentCodes
<1>4. ASSUME NEW r \in Request, CountFailure(r) \/ ClearFailures(r) PROVE CodesInv'
  <2>1. Moves(r) /\ ~Judges(r)
    BY <1>4, OneMoves DEF Serve, CountFailure, ClearFailures, Judges, ReadTotp, ReadEnrolment,
      At, Doing
  <2>2. UNCHANGED <<totp.secret, totp.confirmed, totp.last>>
    BY <1>0, <1>4, LapsedKeeps DEF CountFailure, ClearFailures, TotpState
  <2> QED
    BY <1>4, <2>1, <2>2, CodesFrame DEF CountFailure, ClearFailures, history
<1>5. ASSUME NEW r \in Request, RedeemRecovery(r) PROVE CodesInv'
  <2>1. Moves(r) /\ ~Judges(r)
    BY <1>5, OneMoves DEF Serve, RedeemRecovery, Judges, ReadTotp, ReadEnrolment, Doing
  <2>2. CASE held # 0 /\ Redeemable(recovery.batch)
    <3>1. /\ recovery' = [recovery EXCEPT !.unused = FALSE] /\ redeemed' = redeemed \cup {held}
          /\ held = recovery.batch /\ UNCHANGED <<totp, accepted, issued>>
      BY <1>5, <2>2 DEF RedeemRecovery, Redeemable
    <3>2. recovery'.batch = recovery.batch /\ recovery'.unused = FALSE
      BY <1>0, <3>1
    <3>3. \A batch \in redeemed' : batch \in 0..recovery'.batch
      BY <1>0, <3>1, <3>2 DEF CodesInv
    <3>4. issued \in Nat
      BY SignInAssumption DEF TypeInv, TotpOK, Secrets
    <3>5. \A x \in Request : req'[x].step \in {"spend", "commit"} => req'[x].secret \in 1..issued'
      BY <2>1, <3>1, <3>4, SpendingKept
    <3> QED
      BY <3>1, <3>2, <3>3, <3>5 DEF CodesInv
  <2>3. CASE ~(held # 0 /\ Redeemable(recovery.batch))
    BY <1>5, <2>1, <2>3, CodesFrame DEF RedeemRecovery
  <2> QED
    BY <2>2, <2>3
<1>6. ASSUME NEW r \in Request, Begin(r) \/ Serve(r), ~Judges(r), ~SpendCode(r), ~IssueSecret(r),
             ~RestartEnrolment(r), ~CommitEnrolment(r), ~CountFailure(r), ~ClearFailures(r),
             ~RedeemRecovery(r)
      PROVE  CodesInv'
  <2>1. Moves(r)
    BY <1>6, OneMoves
  <2>2. CASE Begin(r)
    <3>1. UNCHANGED <<totp, recovery, accepted, redeemed, issued>>
      BY <2>2 DEF Begin, CheckThrottle, LoadSession, history
    <3> QED
      BY <1>6, <2>1, <3>1, CodesFrame
  <2>3. CASE Serve(r)
    <3>1. UNCHANGED <<totp, recovery, accepted, redeemed, issued>>
      BY <1>6, <2>3 DEF Serve, Judges, ReadMfaState, CreateSession, RecordFailure, ReadCredentials,
        Promote, BeginEnrolment, RevokeSession, Refuse, history
    <3> QED
      BY <1>6, <2>1, <3>1, CodesFrame
  <2> QED
    BY <1>6, <2>2, <2>3
<1>7. CASE Outside
  <2>1. UNCHANGED <<req, recovery, accepted, redeemed, issued>>
    BY <1>7 DEF Outside, PasswordChanges, StandingChanges, Tick, LockExpires, WindowPasses,
      SessionExpires, SessionIdles, RevokeSessionsForAccount, history
  <2>2. UNCHANGED <<totp.secret, totp.confirmed, totp.last>>
    BY <1>0, <1>7 DEF Outside, PasswordChanges, StandingChanges, Tick, LockExpires, WindowPasses,
      SessionExpires, SessionIdles, RevokeSessionsForAccount, TotpState
  <2> QED
    BY <2>1, <2>2, CodesFrame
<1>8. CASE UNCHANGED vars
  BY <1>8, CodesFrame DEF vars, history
<1> QED
  BY <1>1, <1>2, <1>3, <1>4, <1>5, <1>6, <1>7, <1>8 DEF Next

\* A request at one of these steps is served only there, and only by itself.
LEMMA SpendsAlone ==
  ASSUME TypeInv, [Next]_vars, NEW r \in Request,
         At(r, "spend") \/ Doing(r, "recovery", "work"), req'[r] # req[r]
  PROVE  /\ At(r, "spend") => SpendCode(r)
         /\ Doing(r, "recovery", "work") => RedeemRecovery(r)
<1>1. PICK x \in Request : Begin(x) \/ Serve(x)
  <2>1. Outside \/ UNCHANGED vars => req' = req
    BY DEF Outside, PasswordChanges, StandingChanges, Tick, LockExpires, WindowPasses,
      SessionExpires, SessionIdles, RevokeSessionsForAccount, vars
  <2> QED
    BY <2>1 DEF Next
<1>2. x = r
  BY <1>1, OneMoves DEF Moves
<1>3. ~Begin(r)
  BY DEF Begin, CheckThrottle, LoadSession, Begins, At, Doing
<1>4. At(r, "spend") => SpendCode(r)
  BY <1>1, <1>2, <1>3 DEF Serve, At, Doing, ReadMfaState, CreateSession, RecordFailure,
    ReadCredentials, ReadTotp, ReadEnrolment, CountFailure, RedeemRecovery,
    ClearFailures, Promote, BeginEnrolment, IssueSecret, RestartEnrolment, CommitEnrolment,
    RevokeSession
<1>5. Doing(r, "recovery", "work") => RedeemRecovery(r)
  BY <1>1, <1>2, <1>3 DEF Serve, At, Doing, ReadMfaState, CreateSession, RecordFailure,
    ReadCredentials, ReadTotp, ReadEnrolment, CountFailure, SpendCode,
    ClearFailures, Promote, BeginEnrolment, IssueSecret, RestartEnrolment, CommitEnrolment,
    RevokeSession
<1> QED
  BY <1>4, <1>5

LEMMA CodesOnce ==
  ASSUME TypeInv, CodesInv, [Next]_vars, NEW r \in Request
  PROVE  /\ At(r, "spend") /\ req'[r].step = "promote" /\ req[r].secret = totp.secret
              => <<req[r].secret, req[r].code>> \notin accepted
         /\ Doing(r, "recovery", "work") /\ req'[r].step = "clear" => held \notin redeemed
<1>1. ASSUME At(r, "spend"), req'[r].step = "promote", req[r].secret = totp.secret,
             <<req[r].secret, req[r].code>> \in accepted
      PROVE  FALSE
  <2>1. SpendCode(r)
    BY <1>1, SpendsAlone DEF At
  <2>2. Unspent(r)
    <3>1. Goto(r, "failed") => req'[r].step = "failed"
      BY <2>1, GotoSets DEF TypeInv, Steps, SpendCode
    <3> QED
      BY <1>1, <2>1, <3>1 DEF SpendCode
  <2>3. req[r].code <= totp.last /\ req[r].code \in Codes /\ totp.last \in Codes
    BY <1>1 DEF CodesInv, TypeInv, TotpOK, TotpState, RequestOK, RequestState
  <2> QED
    BY <2>2, <2>3, SignInAssumption DEF Unspent, Codes
<1>2. ASSUME Doing(r, "recovery", "work"), req'[r].step = "clear" PROVE held \notin redeemed
  <2>1. RedeemRecovery(r)
    BY <1>2, SpendsAlone DEF Doing
  <2>2. Redeemable(recovery.batch)
    <3>1. Goto(r, "failed") => req'[r].step = "failed"
      BY <2>1, GotoSets DEF TypeInv, Steps, RedeemRecovery
    <3> QED
      BY <1>2, <2>1, <3>1 DEF RedeemRecovery
  <2> QED
    BY <2>2 DEF Redeemable, CodesInv
<1> QED
  BY <1>1, <1>2

\* An authenticator code of the secret in the row is accepted once, however many
\* requests judged it before one of them wrote it down, and so is a recovery code.
THEOREM CodesAreSpentOnce == Spec => CodeSpentOnce
<1>1. Init => CodesInv
  <2> SUFFICES ASSUME Init PROVE CodesInv
    OBVIOUS
  <2>1. \A r \in Request : req[r].step \notin {"spend", "commit"}
    BY IdleTyped DEF Init
  <2>2. CASE NeverEnrolled
    BY <2>1, <2>2 DEF Init, NeverEnrolled, NoRow, CodesInv
  <2>3. CASE EnrolledBefore
    <3>1. totp.secret = 1 /\ totp.last = 1 /\ issued = 1 /\ accepted = {<<1, 1>>}
      BY <2>3 DEF EnrolledBefore, NoRow
    <3>2. accepted \in SUBSET ((1..issued) \X Codes)
      BY <3>1, SignInAssumption DEF Codes
    <3>3. \A p \in accepted : p[1] = totp.secret => p[2] <= totp.last
      BY <3>1
    <3>4. recovery.batch = 1 /\ redeemed = {}
      BY <2>3 DEF EnrolledBefore, Init
    <3> QED
      BY <2>1, <3>1, <3>2, <3>3, <3>4 DEF CodesInv
  <2> QED
    BY <2>2, <2>3 DEF Init
<1>2. TypeInv /\ CodesInv /\ [Next]_vars =>
        [\A r \in Request :
           /\ At(r, "spend") /\ req'[r].step = "promote" /\ req[r].secret = totp.secret
                => <<req[r].secret, req[r].code>> \notin accepted
           /\ Doing(r, "recovery", "work") /\ req'[r].step = "clear"
                => held \notin redeemed]_vars
  BY CodesOnce
<1> QED
  BY <1>1, <1>2, CodesStep, Typed, PTL DEF Spec, CodeSpentOnce
=============================================================================
