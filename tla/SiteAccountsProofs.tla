-------------------------- MODULE SiteAccountsProofs --------------------------
(***************************************************************************)
(* Proofs about SiteAccounts and the process it runs in (SiteProcess), for *)
(* any number of visitors, forms, answers, sources and links, and for any  *)
(* limit, window and time to live.                                         *)
(***************************************************************************)
EXTENDS SiteAccounts, FiniteSetTheorems, TLAPS

-----------------------------------------------------------------------------
(* The process: types *)

\* Ranges by name: the windows there are, and when something happened.
Windows == 0..WindowOf(MaxTime)
Stamps == 0..Never

LimitSteps_ == {"limit", "count", "judge", "admitted", "refused"}
AskState == [for : {"nothing"} \cup Form \cup Answer, step : {"idle", "fetch"} \cup LimitSteps_,
             at : Time, read : Versions]
BucketState == [window : Windows, hits : Nat]
Counters == {"memory", "mysql"} \X Form \X Windows

ClockOK ==
  /\ events \in 0..MaxEvent /\ now \in Time
  /\ driver \in {"memory", "mysql"} /\ applied \in BOOLEAN
  /\ probed \in [Table -> [value : BOOLEAN, at : Stamps]]
\* A request at the limiter is a form's, one that fetches an answer's.
AskOK ==
  /\ ask \in [Visitor -> AskState]
  /\ \A v \in Visitor :
       /\ ask[v].step \in {"limit", "count", "judge"} => ask[v].for \in Form
       /\ ask[v].step = "count" => ask[v].at \in Windows /\ ask[v].at <= WindowOf(now)

-----------------------------------------------------------------------------
(* The process: the rate limiter *)

\* The bucket in memory counts what it admitted in its window, and nothing was
\* admitted in a later one.
MemoryOK ==
  /\ memory \in [Form -> BucketState]
  /\ \A f \in Form :
       /\ memory[f].window <= WindowOf(now)
       /\ \A w \in Windows :
            /\ admitted[<<"memory", f, w>>] <= Limit
            /\ w = memory[f].window => admitted[<<"memory", f, w>>] <= memory[f].hits
            /\ w > memory[f].window => admitted[<<"memory", f, w>>] = 0

\* Those whose hit is in the database's bucket and who have not read it yet.
Judging(f) ==
  {v \in Visitor : AskAt(v, "judge") /\ ask[v].for = f /\ ask[v].at = bucket[f].window}

\* Every hit of the window is a request that was admitted, that was turned away
\* or moved on, or that has yet to read the bucket.
BucketOK ==
  /\ bucket \in [Form -> BucketState]
  /\ \A f \in Form :
       /\ bucket[f].hits = 0 => bucket[f].window = 0
       /\ \A w \in Windows :
            /\ admitted[<<"mysql", f, w>>] <= Limit
            /\ w = bucket[f].window =>
                 admitted[<<"mysql", f, w>>] + Cardinality(Judging(f)) <= bucket[f].hits
            /\ w > bucket[f].window => admitted[<<"mysql", f, w>>] = 0
  /\ \A v \in Visitor :
       AskAt(v, "judge") => ask[v].at <= bucket[ask[v].for].window /\ ask[v].at \in Windows

LimitInv == admitted \in [Counters -> Nat] /\ MemoryOK /\ BucketOK

-----------------------------------------------------------------------------
(* The process: the cached answers *)

\* What was read by a request, and what is in the cache, was current when the
\* request came in or later.
ReadSince(versions, stamp) ==
  \A s \in DOMAIN versions : replaced[<<s, versions[s]>>] >= stamp

SourcesOK ==
  /\ source \in [Source -> Version]
  /\ replaced \in [Source \X Version -> Stamps]
  /\ \A s \in Source : \A n \in Version : n >= source[s] => replaced[<<s, n>>] = Never
Reading(v) ==
  /\ ask[v].for \in Answer /\ DOMAIN ask[v].read \subseteq SourceOf[ask[v].for]
  /\ ask[v].at <= now /\ ReadSince(ask[v].read, ask[v].at)
Holding(a) ==
  /\ DOMAIN cache[a].versions = SourceOf[a]
  /\ cache[a].at <= now /\ ReadSince(cache[a].versions, cache[a].at)
ReadsOK == \A v \in Visitor : AskAt(v, "fetch") => Reading(v)
CachedOK ==
  /\ cache \in [Answer -> [versions : Versions, at : Stamps]]
  /\ \A a \in Answer : cache[a].at # Never => Holding(a)

ServedInv == SourcesOK /\ ReadsOK /\ CachedOK

ProcessInv == ClockOK /\ AskOK /\ LimitInv /\ ServedInv

-----------------------------------------------------------------------------
(* The process: its steps *)

\* A table is looked for; a form asks to be let through; its request leaves the
\* limiter; something happens elsewhere.
Probes(t) ==
  /\ \E found \in BOOLEAN : TableExists(t, found)
  /\ UNCHANGED <<now, fixed, cache, buckets, sources, ask>>
Asks(v, f) ==
  /\ AskAt(v, "idle")
  /\ Happens
  /\ ask' = [ask EXCEPT ![v] = [NoAsk EXCEPT !.for = f, !.step = "limit"]]
  /\ UNCHANGED <<now, fixed, memos, buckets, sources>>
Leaves(v) ==
  /\ ask[v].step \in {"admitted", "refused"}
  /\ ask' = [ask EXCEPT ![v] = NoAsk]
  /\ UNCHANGED <<events, now, fixed, memos, buckets, sources>>
Looks(v, a) == Happens /\ GetCached(v, a)
Passes == Happens /\ UNCHANGED rest

ProcessNext ==
  \/ \E v \in Visitor : LimitSteps(v) \/ AnswerSteps(v) \/ Leaves(v)
  \/ \E v \in Visitor, f \in Form : Asks(v, f)
  \/ \E v \in Visitor, a \in Answer : Looks(v, a)
  \/ \E t \in Table : Probes(t)
  \/ \E s \in Source : SourceChanges(s)
  \/ Tick
  \/ Passes
  \/ UNCHANGED processVars

LEMMA RestUnchanged == UNCHANGED <<rest, events>> <=> UNCHANGED processVars
BY DEF rest, processVars

LEMMA VisitSteps ==
  ASSUME NEW v \in Visitor, v \in DOMAIN req, Visit(v)
  PROVE  ProcessNext
<1>1. ASSUME NEW kind \in Form, NEW p, BeginForm(v, kind, p)
      PROVE  Asks(v, kind)
  BY <1>1 DEF BeginForm, Begin, Limited, Asks, Form_, Idle
<1>2. ASSUME NEW l, NEW p, BeginReset(v, l, p)
      PROVE  Asks(v, "reset")
  BY <1>2 DEF BeginReset, Begin, Limited, Asks, Form_, Idle
<1>3. ASSUME NEW c, NEW p, BeginChange(v, c, p)
      PROVE  Asks(v, "change") \/ Passes
  <2>1. CASE Resolves(v)
    BY <1>3, <2>1 DEF BeginChange, Begin, Limited, Asks, Form_, Idle
  <2>2. CASE ~Resolves(v)
    BY <1>3, <2>2 DEF BeginChange, Begin, Passes, rest
  <2> QED
    BY <2>1, <2>2
<1>4. ASSUME NEW a \in Answer, BeginAnswer(v, a)
      PROVE  Looks(v, a)
  BY <1>4 DEF BeginAnswer, Begin, Looks
<1>5. DropCookie(v) => Passes
  BY DEF DropCookie, Passes
<1>6. "reset" \in Form /\ "change" \in Form
  BY SiteAccountsAssumption
<1>7. CASE \E kind \in Form, p \in Password \cup {NoPassword} : BeginForm(v, kind, p)
  BY <1>7, <1>1 DEF ProcessNext
<1>8. CASE \E l \in Links, p \in Password : BeginReset(v, l, p)
  BY <1>8, <1>2, <1>6 DEF ProcessNext
<1>9. CASE \E current, p \in Password : BeginChange(v, current, p)
  BY <1>9, <1>3, <1>6 DEF ProcessNext
<1>10. CASE \E a \in Answer : BeginAnswer(v, a)
  BY <1>10, <1>4 DEF ProcessNext
<1> QED
  BY <1>5, <1>7, <1>8, <1>9, <1>10 DEF Visit, ProcessNext

LEMMA HandleSteps ==
  ASSUME NEW v \in Visitor, Handle(v)
  PROVE  ProcessNext
<1>1. Proceed(v) => Leaves(v)
  BY DEF Proceed, Leaves
<1>2. \A found \in BOOLEAN :
        ResetTableReady(v, found) \/ InvalidateResetTokens(v, found) => Probes("web_password_reset")
  BY DEF ResetTableReady, InvalidateResetTokens, Probes
<1>3. StatementFails(v) => Passes
  BY DEF StatementFails, Passes
<1>4. Lookup(v) \/ InsertAccount(v) \/ InsertCounter(v) \/ CreateByConsole(v)
        \/ FindCreated(v) \/ SetMail(v) => UNCHANGED processVars
  BY DEF Lookup, InsertAccount, InsertCounter, CreateByConsole, FindCreated, SetMail
<1>5. Authenticate(v) \/ Respond(v) \/ FindByMail(v) \/ RedeemLink(v) \/ CheckCurrent(v)
        \/ WriteCredentials(v) \/ BurnLinks(v) => UNCHANGED processVars
  BY DEF Authenticate, Respond, FindByMail, RedeemLink, CheckCurrent, WriteCredentials, BurnLinks
<1>6. \A delivered \in BOOLEAN : IssueLink(v, delivered) => UNCHANGED processVars
  BY DEF IssueLink
<1>7. "web_password_reset" \in Table
  BY DEF Table
<1> QED
  BY <1>1, <1>2, <1>3, <1>4, <1>5, <1>6, <1>7 DEF Handle, ProcessNext

LEMMA OthersSteps == Others => ProcessNext
<1>1. \A p \in Password : ConsoleCreates(p) => UNCHANGED processVars
  BY DEF ConsoleCreates
<1>2. \A p \in Password : SetInTheGame(p) => Passes
  BY DEF SetInTheGame, Passes
<1>3. Lock => Passes
  BY DEF Lock, Passes
<1> QED
  BY <1>1, <1>2, <1>3 DEF Others, Elsewhere, ProcessNext

\* Whatever the accounts do, the process takes one of its steps.
LEMMA ProcessSteps ==
  ASSUME Visitor \subseteq DOMAIN req, [Next]_vars
  PROVE  ProcessNext
<1>1. ASSUME NEW v \in Visitor, InProcess(v)
      PROVE  ProcessNext
  BY <1>1 DEF InProcess, ProcessNext
<1>2. UNCHANGED vars => UNCHANGED processVars
  BY DEF vars
<1>3. CASE UNCHANGED vars
  BY <1>3, <1>2 DEF ProcessNext
<1>4. CASE Next
  BY <1>4, <1>1, VisitSteps, HandleSteps, OthersSteps DEF Next
<1> QED
  BY <1>3, <1>4

-----------------------------------------------------------------------------
(* The process: types are kept *)

LEMMA Ranges ==
  /\ Windows \subseteq Time /\ Time \subseteq Nat /\ Time \subseteq Stamps /\ Stamps \subseteq Nat
  /\ 0 \in Windows /\ 0 \in Time /\ Never \in Stamps
  /\ \A t \in Time : WindowOf(t) \in Windows /\ t < Never
  /\ \A t \in Time : \A u \in Time : t <= u => WindowOf(t) <= WindowOf(u)
<1> USE SiteProcessAssumption
<1>1. /\ Time \subseteq Nat /\ Time \subseteq Stamps /\ Stamps \subseteq Nat
      /\ 0 \in Time /\ Never \in Stamps /\ \A t \in Time : t < Never
  BY DEF Time, Stamps, Never
<1>2. \A t \in Nat : t \div Window \in Nat /\ t \div Window <= t
  OBVIOUS
<1>3. \A t \in Time : \A u \in Time : t <= u => t \div Window <= u \div Window
  BY DEF Time
<1>4. MaxTime \in Time /\ \A t \in Time : t <= MaxTime
  BY DEF Time
<1>5. Windows \subseteq Time /\ 0 \in Windows
  BY <1>2 DEF Windows, WindowOf, Time
<1>6. \A t \in Time : WindowOf(t) \in Windows
  BY <1>1, <1>2, <1>3, <1>4 DEF Windows, WindowOf
<1> QED
  BY <1>1, <1>3, <1>5, <1>6 DEF WindowOf

LEMMA ReadTyped ==
  /\ [s \in {} |-> 0] \in Versions
  /\ \A f \in Versions : DOMAIN f \subseteq Source /\ \A s \in DOMAIN f : f[s] \in Version
  /\ \A f : DOMAIN f \subseteq Source /\ f = [s \in DOMAIN f |-> f[s]]
              /\ (\A s \in DOMAIN f : f[s] \in Version) => f \in Versions
<1>1. \A S \in SUBSET Source : [S -> Version] \subseteq Versions
  BY DEF Versions
<1>2. [s \in {} |-> 0] \in [{} -> Version]
  OBVIOUS
<1>3. \A f : f \in Versions <=> \E S \in SUBSET Source : f \in [S -> Version]
  BY DEF Versions
<1>4. \A f \in Versions : DOMAIN f \subseteq Source /\ \A s \in DOMAIN f : f[s] \in Version
  BY <1>3
<1>5. ASSUME NEW f, DOMAIN f \subseteq Source, f = [s \in DOMAIN f |-> f[s]],
             \A s \in DOMAIN f : f[s] \in Version
      PROVE  f \in Versions
  BY <1>1, <1>5
<1> QED
  BY <1>1, <1>2, <1>4, <1>5

LEMMA NoAskTyped == NoAsk \in AskState /\ NoAsk.step = "idle"
BY Ranges, ReadTyped DEF NoAsk, AskState

LEMMA SourcesNamed == \A a \in Answer : SourceOf[a] \subseteq Source
BY DEF Source

\* One visitor's request of the process is replaced, or none is.
LEMMA AskMoves ==
  ASSUME AskOK, NEW v \in Visitor, NEW q \in AskState, ask' = [ask EXCEPT ![v] = q],
         UNCHANGED now,
         q.step \in {"limit", "count", "judge"} => q.for \in Form,
         q.step = "count" => q.at \in Windows /\ q.at <= WindowOf(now)
  PROVE  AskOK' /\ ask'[v] = q /\ \A x \in Visitor \ {v} : ask'[x] = ask[x]
<1>1. ask'[v] = q /\ \A x \in Visitor \ {v} : ask'[x] = ask[x]
  BY DEF AskOK
<1>2. ask' \in [Visitor -> AskState]
  BY DEF AskOK
<1>3. ASSUME NEW x \in Visitor
      PROVE  /\ ask'[x].step \in {"limit", "count", "judge"} => ask'[x].for \in Form
             /\ ask'[x].step = "count" => ask'[x].at \in Windows /\ ask'[x].at <= WindowOf(now')
  BY <1>1, now' = now DEF AskOK
<1> QED
  BY <1>1, <1>2, <1>3 DEF AskOK

LEMMA AskFrame ==
  ASSUME ClockOK, AskOK, UNCHANGED ask, now' \in Time, now <= now'
  PROVE  AskOK'
<1>1. WindowOf(now) <= WindowOf(now') /\ WindowOf(now) \in Nat /\ WindowOf(now') \in Nat
  BY Ranges DEF ClockOK
<1>2. Windows \subseteq Nat
  BY Ranges
<1>3. ASSUME NEW x \in Visitor, ask'[x].step = "count"
      PROVE  ask'[x].at \in Windows /\ ask'[x].at <= WindowOf(now')
  <2>1. ask'[x].at \in Windows /\ ask'[x].at <= WindowOf(now)
    BY <1>3 DEF AskOK
  <2>2. ask'[x].at \in Nat
    BY <1>2, <2>1
  <2> QED
    BY <1>1, <2>1, <2>2
<1>4. ask' \in [Visitor -> AskState] /\ \A x \in Visitor : ask'[x] = ask[x]
  BY DEF AskOK
<1>5. \A x \in Visitor : ask[x].step \in {"limit", "count", "judge"} => ask[x].for \in Form
  BY DEF AskOK
<1> QED
  BY <1>3, <1>4, <1>5 DEF AskOK

LEMMA TableClock ==
  ASSUME ClockOK, NEW t \in Table, NEW found \in BOOLEAN, TableExists(t, found),
         UNCHANGED <<now, fixed>>
  PROVE  ClockOK'
<1>1. now \in Stamps
  BY Ranges DEF ClockOK
<1>2. events' \in 0..MaxEvent
  BY SiteProcessAssumption DEF TableExists, Happens, ClockOK
<1>3. probed' = probed \/ probed' = [probed EXCEPT ![t] = [value |-> found, at |-> now]]
  BY DEF TableExists
<1>4. [value |-> found, at |-> now] \in [value : BOOLEAN, at : Stamps]
  BY <1>1
<1>5. probed' \in [Table -> [value : BOOLEAN, at : Stamps]]
  BY <1>3, <1>4 DEF ClockOK
<1> QED
  BY <1>2, <1>5 DEF ClockOK, fixed

LEMMA HappensClock ==
  ASSUME ClockOK, Happens, UNCHANGED <<fixed, probed>>, now' \in Time
  PROVE  ClockOK'
<1>1. events' \in 0..MaxEvent
  BY SiteProcessAssumption DEF Happens, ClockOK
<1> QED
  BY <1>1 DEF ClockOK, fixed

-----------------------------------------------------------------------------
(* The process: what the limiter's steps do *)

LEMMA HitFacts ==
  ASSUME NEW old \in BucketState, NEW w \in Windows
  PROVE  /\ Hit(old, w) \in BucketState
         /\ \/ /\ old.hits = 0 \/ old.window < w
               /\ Hit(old, w).window = w /\ Hit(old, w).hits = 1
            \/ /\ old.hits # 0 /\ w <= old.window
               /\ Hit(old, w).window = old.window /\ Hit(old, w).hits = old.hits + 1
<1>1. Windows \subseteq Nat
  BY Ranges
<1>2. CASE old.hits = 0 \/ old.window < w
  BY <1>2 DEF Hit, BucketState
<1>3. CASE ~(old.hits = 0 \/ old.window < w)
  <2>1. Hit(old, w) = [old EXCEPT !.hits = @ + 1]
    BY <1>3 DEF Hit
  <2>4. old.window \in Windows
    BY DEF BucketState
  <2>5. old.window \in Nat /\ w \in Nat
    BY <1>1, <2>4
  <2>2. w <= old.window /\ old.hits # 0
    BY <1>3, <2>5
  <2>3. /\ Hit(old, w) \in BucketState
        /\ Hit(old, w).window = old.window /\ Hit(old, w).hits = old.hits + 1
    BY <2>1 DEF BucketState
  <2> QED
    BY <2>2, <2>3
<1> QED
  BY <1>2, <1>3

\* The two ways out of the limiter.
LetThrough(v, by, window) ==
  /\ ask' = [ask EXCEPT ![v] = [ask[v] EXCEPT !.step = "admitted"]]
  /\ admitted' = [admitted EXCEPT ![<<by, ask[v].for, window>>] = @ + 1]
TurnedAway(v) ==
  /\ \E step \in {"admitted", "refused"} :
       ask' = [ask EXCEPT ![v] = [ask[v] EXCEPT !.step = step]]
  /\ UNCHANGED admitted

LEMMA VerdictFacts ==
  ASSUME AskOK, NEW v \in Visitor
  PROVE  /\ \A by, window : Admit(v, by, window) => LetThrough(v, by, window)
         /\ TurnAway(v) => TurnedAway(v)
BY DEF AskOK, Admit, TurnAway, LetThrough, TurnedAway

LEMMA VerdictMoves ==
  ASSUME AskOK, NEW v \in Visitor, UNCHANGED now,
         TurnedAway(v) \/ \E by, window : LetThrough(v, by, window)
  PROVE  /\ AskOK' /\ ask'[v].step \in {"admitted", "refused"}
         /\ \A x \in Visitor \ {v} : ask'[x] = ask[x]
<1>1. PICK step \in {"admitted", "refused"} :
        ask' = [ask EXCEPT ![v] = [ask[v] EXCEPT !.step = step]]
  BY DEF TurnedAway, LetThrough
<1> DEFINE q == [ask[v] EXCEPT !.step = step]
<1>2. q \in AskState /\ q.step = step
  BY DEF AskOK, AskState, LimitSteps_
<1>3. ask' = [ask EXCEPT ![v] = q]
  BY <1>1
<1> HIDE DEF q
<1> QED
  BY <1>2, <1>3, AskMoves

\* ConsumeMemory, by its outcome.
InMemory(v, hit) ==
  /\ hit = Hit(memory[ask[v].for], WindowOf(now))
  /\ memory' = [memory EXCEPT ![ask[v].for] = hit]
  /\ \/ hit.hits <= Limit /\ LetThrough(v, "memory", hit.window)
     \/ TurnedAway(v)
  /\ UNCHANGED bucket

LEMMA MemoryCases ==
  ASSUME AskOK, NEW v \in Visitor, ConsumeMemory(v)
  PROVE  \E hit : InMemory(v, hit)
<1> DEFINE hit == Hit(memory[ask[v].for], WindowOf(now))
<1>1. /\ memory' = [memory EXCEPT ![ask[v].for] = hit] /\ UNCHANGED bucket
      /\ \/ hit.hits <= Limit /\ Admit(v, "memory", hit.window)
         \/ TurnAway(v)
  BY DEF ConsumeMemory, Within
<1> HIDE DEF hit
<1>2. InMemory(v, hit)
  BY <1>1, VerdictFacts DEF InMemory, hit
<1> QED
  BY <1>2

\* The attempt goes to the database, with the window of now.
Sends(v) ==
  /\ AskAt(v, "limit")
  /\ ask' = [ask EXCEPT ![v] = [ask[v] EXCEPT !.step = "count", !.at = WindowOf(now)]]
  /\ UNCHANGED buckets

LEMMA ConsumeCases ==
  ASSUME AskOK, NEW v \in Visitor, Consume(v)
  PROVE  /\ AskAt(v, "limit") /\ UNCHANGED <<now, fixed, sources, cache>>
         /\ \/ Sends(v)
            \/ \E hit : InMemory(v, hit)
         /\ \/ UNCHANGED <<probed, events>>
            \/ \E found \in BOOLEAN : TableExists("web_rate_limit", found)
<1>1. Sends(v) \/ ConsumeMemory(v)
  BY DEF Consume, Sends, AskOK
<1> QED
  BY <1>1, MemoryCases DEF Consume

\* What the limiter's steps do to the requests and the buckets.
LEMMA LimitCases ==
  ASSUME ClockOK, AskOK, NEW v \in Visitor, LimitSteps(v)
  PROVE  /\ UNCHANGED <<now, fixed, sources, cache>>
         /\ AskAt(v, "limit") \/ AskAt(v, "count") \/ AskAt(v, "judge")
         /\ \/ Sends(v)
            \/ CountHit(v)
            \/ JudgeHits(v)
            \/ \E hit : InMemory(v, hit)
<1>1. ASSUME FallBack(v)
      PROVE  \E hit : InMemory(v, hit)
  BY <1>1, MemoryCases DEF FallBack
<1>2. FallBack(v) => /\ UNCHANGED <<now, fixed, sources, cache>>
                     /\ AskAt(v, "count") \/ AskAt(v, "judge")
  BY DEF FallBack, memos
<1>3. CountHit(v) \/ JudgeHits(v) => /\ UNCHANGED <<now, fixed, sources, cache>>
                                     /\ AskAt(v, "count") \/ AskAt(v, "judge")
  BY DEF CountHit, JudgeHits, memos
<1> QED
  BY <1>1, <1>2, <1>3, ConsumeCases DEF LimitSteps

LEMMA SendsMoves ==
  ASSUME ClockOK, AskOK, NEW v \in Visitor, Sends(v), UNCHANGED now
  PROVE  /\ AskOK' /\ ask'[v].step = "count"
         /\ \A x \in Visitor \ {v} : ask'[x] = ask[x]
<1> DEFINE q == [ask[v] EXCEPT !.step = "count", !.at = WindowOf(now)]
<1>1. WindowOf(now) \in Windows /\ WindowOf(now) \in Time /\ WindowOf(now) \in Nat
  BY Ranges DEF ClockOK
<1>2. ask[v] \in AskState /\ ask[v].for \in Form
  BY DEF AskOK, Sends, AskAt
<1>3. /\ q \in AskState /\ q.step = "count" /\ q.for \in Form
      /\ q.at \in Windows /\ q.at = WindowOf(now)
  BY <1>1, <1>2 DEF AskState, LimitSteps_
<1>4. ask' = [ask EXCEPT ![v] = q]
  BY DEF Sends
<1> HIDE DEF q
<1>5. q.at <= WindowOf(now)
  BY <1>1, <1>3
<1> QED
  BY <1>3, <1>4, <1>5, AskMoves

LEMMA CountMoves ==
  ASSUME ClockOK, AskOK, BucketOK, NEW v \in Visitor, CountHit(v)
  PROVE  LET hit == Hit(bucket[ask[v].for], ask[v].at)
         IN /\ ask[v].for \in Form /\ ask[v].at \in Windows
            /\ AskOK' /\ ask'[v] = [ask[v] EXCEPT !.step = "judge", !.at = hit.window]
            /\ \A x \in Visitor \ {v} : ask'[x] = ask[x]
            /\ hit \in BucketState
<1> DEFINE hit == Hit(bucket[ask[v].for], ask[v].at)
           q == [ask[v] EXCEPT !.step = "judge", !.at = hit.window]
<1>1. ask[v] \in AskState /\ ask[v].for \in Form /\ ask[v].at \in Windows
  BY DEF AskOK, CountHit, AskAt
<1>2. hit \in BucketState
  BY <1>1, HitFacts DEF BucketOK
<1>3. ask' = [ask EXCEPT ![v] = q]
  BY DEF CountHit, AskOK
<1> HIDE DEF hit
<1>4. hit.window \in Time
  BY <1>2, Ranges DEF BucketState
<1>5. q \in AskState /\ q.step = "judge" /\ q.for \in Form
  BY <1>1, <1>4 DEF AskState, LimitSteps_
<1>6. UNCHANGED now
  BY DEF CountHit
<1>7. AskOK' /\ ask'[v] = q /\ \A x \in Visitor \ {v} : ask'[x] = ask[x]
  <2> HIDE DEF q
  <2> QED
    BY <1>3, <1>5, <1>6, AskMoves
<1> QED
  BY <1>1, <1>2, <1>7 DEF hit

LEMMA JudgeMoves ==
  ASSUME AskOK, NEW v \in Visitor, JudgeHits(v)
  PROVE  /\ \/ TurnedAway(v)
            \/ /\ bucket[ask[v].for].hits <= Limit /\ bucket[ask[v].for].window = ask[v].at
               /\ LetThrough(v, "mysql", ask[v].at)
         /\ UNCHANGED <<bucket, memory, now>>
BY VerdictFacts DEF JudgeHits, Within, Judged, TurnedAway, AskOK

LEMMA InMemoryMoves ==
  ASSUME AskOK, NEW v \in Visitor, NEW hit, InMemory(v, hit), UNCHANGED now
  PROVE  /\ AskOK' /\ ask'[v].step \in {"admitted", "refused"}
         /\ \A x \in Visitor \ {v} : ask'[x] = ask[x]
BY VerdictMoves DEF InMemory

\* A limiter's step moves its own visitor, on among the steps of the limiter.
LEMMA LimitMoves ==
  ASSUME ClockOK, AskOK, BucketOK, NEW v \in Visitor, LimitSteps(v)
  PROVE  /\ AskOK' /\ ask'[v].step \in LimitSteps_ /\ ask[v].step \in LimitSteps_
         /\ \A x \in Visitor \ {v} : ask'[x] = ask[x]
<1>1. UNCHANGED now /\ ask[v].step \in LimitSteps_
  BY LimitCases DEF fixed, AskAt, LimitSteps_
<1>2. CASE Sends(v)
  BY <1>1, <1>2, SendsMoves DEF LimitSteps_
<1>3. CASE CountHit(v)
  <2>1. /\ AskOK' /\ \A x \in Visitor \ {v} : ask'[x] = ask[x]
        /\ \E w : ask'[v] = [ask[v] EXCEPT !.step = "judge", !.at = w]
    BY <1>3, CountMoves
  <2>2. ask[v] \in AskState
    BY DEF AskOK
  <2> QED
    BY <1>1, <2>1, <2>2 DEF AskState, LimitSteps_
<1>4. CASE JudgeHits(v)
  BY <1>1, <1>4, JudgeMoves, VerdictMoves DEF LimitSteps_
<1>5. CASE \E hit : InMemory(v, hit)
  BY <1>1, <1>5, InMemoryMoves DEF LimitSteps_
<1> QED
  BY <1>2, <1>3, <1>4, <1>5, LimitCases

LEMMA LimitClock ==
  ASSUME ClockOK, AskOK, NEW v \in Visitor, LimitSteps(v)
  PROVE  ClockOK'
<1>1. UNCHANGED <<now, fixed>>
  BY LimitCases
<1>2. CASE Consume(v)
  <2>1. CASE UNCHANGED <<probed, events>>
    BY <1>1, <2>1 DEF ClockOK, fixed
  <2>2. CASE \E found \in BOOLEAN : TableExists("web_rate_limit", found)
    BY <1>1, <2>2, TableClock DEF Table
  <2> QED
    BY <1>2, <2>1, <2>2, ConsumeCases
<1>3. CASE FallBack(v)
  BY <1>3, <1>1, HappensClock DEF FallBack, memos, ClockOK
<1>4. CASE CountHit(v) \/ JudgeHits(v)
  BY <1>4, <1>1 DEF CountHit, JudgeHits, memos, fixed, ClockOK
<1> QED
  BY <1>2, <1>3, <1>4 DEF LimitSteps

-----------------------------------------------------------------------------
(* The process: what the other steps do *)

LEMMA AsksMoves ==
  ASSUME ClockOK, AskOK, NEW v \in Visitor, NEW f \in Form, Asks(v, f)
  PROVE  /\ AskOK' /\ ask'[v].step = "limit" /\ ask[v].step = "idle"
         /\ \A x \in Visitor \ {v} : ask'[x] = ask[x]
<1> DEFINE q == [NoAsk EXCEPT !.for = f, !.step = "limit"]
<1>1. q \in AskState /\ q.step = "limit" /\ q.for = f
  BY NoAskTyped DEF NoAsk, AskState, LimitSteps_
<1>2. ask' = [ask EXCEPT ![v] = q] /\ UNCHANGED now /\ ask[v].step = "idle"
  BY DEF Asks, AskAt
<1> HIDE DEF q
<1> QED
  BY <1>1, <1>2, AskMoves

LEMMA LooksMoves ==
  ASSUME ClockOK, AskOK, NEW v \in Visitor, NEW a \in Answer, Looks(v, a)
  PROVE  /\ AskOK'
         /\ \/ UNCHANGED ask
            \/ /\ ask[v].step = "idle"
               /\ ask'[v].for = a /\ ask'[v].step = "fetch" /\ ask'[v].at = now
               /\ ask'[v].read = [s \in {} |-> 0]
               /\ \A x \in Visitor \ {v} : ask'[x] = ask[x]
<1>1. now \in Time /\ UNCHANGED now /\ now <= now'
  BY Ranges DEF ClockOK, Looks, GetCached
<1>2. CASE UNCHANGED ask
  BY <1>1, <1>2, AskFrame
<1> DEFINE q == [NoAsk EXCEPT !.for = a, !.step = "fetch", !.at = now]
<1>3. CASE ask' = [ask EXCEPT ![v] = q]
  <2>1. /\ q \in AskState /\ q.step = "fetch" /\ q.for = a /\ q.at = now
        /\ q.read = [s \in {} |-> 0]
    BY <1>1, NoAskTyped DEF NoAsk, AskState
  <2>2. AskOK' /\ ask'[v] = q /\ \A x \in Visitor \ {v} : ask'[x] = ask[x]
    <3> HIDE DEF q
    <3> QED
      BY <1>1, <1>3, <2>1, AskMoves
  <2> QED
    BY <2>1, <2>2 DEF Looks, GetCached, AskAt
<1> QED
  BY <1>2, <1>3 DEF Looks, GetCached

LEMMA EndsMoves ==
  ASSUME AskOK, NEW v \in Visitor, UNCHANGED now, ask' = [ask EXCEPT ![v] = NoAsk]
  PROVE  /\ AskOK' /\ ask'[v].step = "idle"
         /\ \A x \in Visitor \ {v} : ask'[x] = ask[x]
BY NoAskTyped, AskMoves

\* One more source is read.
LEMMA FetchMoves ==
  ASSUME AskOK, ReadsOK, source \in [Source -> Version], NEW v \in Visitor, NEW s \in Source,
         Fetch(v, s)
  PROVE  /\ AskOK' /\ ask[v].step = "fetch" /\ s \in SourceOf[ask[v].for]
         /\ ask'[v].step = "fetch" /\ ask'[v].for = ask[v].for /\ ask'[v].at = ask[v].at
         /\ DOMAIN ask'[v].read = DOMAIN ask[v].read \cup {s}
         /\ ask'[v].read[s] = source[s]
         /\ \A x \in DOMAIN ask[v].read \ {s} : ask'[v].read[x] = ask[v].read[x]
         /\ \A x \in Visitor \ {v} : ask'[x] = ask[x]
<1> DEFINE r == [x \in DOMAIN ask[v].read \cup {s} |->
                   IF x = s THEN source[s] ELSE ask[v].read[x]]
           q == [ask[v] EXCEPT !.read = r]
<1>1. ask[v] \in AskState /\ ask[v].read \in Versions
  BY DEF AskOK, AskState
<1>2. DOMAIN ask[v].read \subseteq Source /\ \A x \in DOMAIN ask[v].read : ask[v].read[x] \in Version
  BY <1>1, ReadTyped
<1>3. DOMAIN r \subseteq Source /\ \A x \in DOMAIN r : r[x] \in Version
  BY <1>2
<1>4. r = [x \in DOMAIN r |-> r[x]]
  OBVIOUS
<1>5. DOMAIN r = DOMAIN ask[v].read \cup {s} /\ r[s] = source[s]
      /\ \A x \in DOMAIN ask[v].read \ {s} : r[x] = ask[v].read[x]
  OBVIOUS
<1>6. ask' = [ask EXCEPT ![v] = q] /\ UNCHANGED now
  BY DEF Fetch, AskOK
<1> HIDE DEF r
<1>7. r \in Versions
  BY <1>3, <1>4, ReadTyped
<1>8. ask[v].step = "fetch" /\ s \in SourceOf[ask[v].for]
  BY DEF Fetch, AskAt
<1>9. q \in AskState /\ q.step = "fetch" /\ q.for = ask[v].for /\ q.at = ask[v].at /\ q.read = r
  BY <1>1, <1>7, <1>8 DEF AskState
<1> HIDE DEF q
<1>10. AskOK' /\ ask'[v] = q /\ \A x \in Visitor \ {v} : ask'[x] = ask[x]
  BY <1>6, <1>9, AskMoves
<1> QED
  BY <1>5, <1>8, <1>9, <1>10

\* The other steps: which of them move a request, and where to.
LEMMA OtherMoves ==
  ASSUME ClockOK, AskOK, ServedInv, ProcessNext, ~ \E v \in Visitor : LimitSteps(v)
  PROVE  /\ ClockOK' /\ AskOK' /\ UNCHANGED buckets /\ now <= now'
         /\ \A x \in Visitor : ask'[x] = ask[x] \/ ask'[x].step \in {"idle", "limit", "fetch"}
<1>0. now \in Time /\ now \in Nat /\ now <= now
  BY Ranges DEF ClockOK
<1>1. ASSUME NEW v \in Visitor, NEW s \in Source, Fetch(v, s)
      PROVE  /\ ClockOK' /\ AskOK' /\ UNCHANGED buckets /\ now <= now'
             /\ ask'[v].step = "fetch" /\ \A x \in Visitor \ {v} : ask'[x] = ask[x]
  <2>1. UNCHANGED <<events, now, fixed, buckets, probed>>
    BY <1>1 DEF Fetch, memos
  <2>2. ClockOK'
    BY <2>1 DEF ClockOK, fixed
  <2> QED
    BY <1>0, <1>1, <2>1, <2>2, FetchMoves DEF ServedInv, SourcesOK
<1>2. ASSUME NEW v \in Visitor, StoreAnswer(v) \/ Leaves(v)
      PROVE  /\ ClockOK' /\ AskOK' /\ UNCHANGED buckets /\ now <= now'
             /\ ask'[v].step = "idle" /\ \A x \in Visitor \ {v} : ask'[x] = ask[x]
  <2>1. UNCHANGED <<events, now, fixed, buckets, probed>> /\ ask' = [ask EXCEPT ![v] = NoAsk]
    BY <1>2 DEF StoreAnswer, Leaves, memos
  <2>2. ClockOK'
    BY <2>1 DEF ClockOK, fixed
  <2> QED
    BY <1>0, <2>1, <2>2, EndsMoves
<1>3. ASSUME NEW v \in Visitor, NEW f \in Form, Asks(v, f)
      PROVE  /\ ClockOK' /\ AskOK' /\ UNCHANGED buckets /\ now <= now'
             /\ ask'[v].step = "limit" /\ \A x \in Visitor \ {v} : ask'[x] = ask[x]
  <2>1. UNCHANGED <<now, fixed, buckets, probed>> /\ Happens
    BY <1>3 DEF Asks, memos
  <2> QED
    BY <1>0, <1>3, <2>1, AsksMoves, HappensClock
<1>4. ASSUME NEW v \in Visitor, NEW a \in Answer, Looks(v, a)
      PROVE  /\ ClockOK' /\ AskOK' /\ UNCHANGED buckets /\ now <= now'
             /\ \A x \in Visitor : ask'[x] = ask[x] \/ ask'[x].step = "fetch"
  <2>1. UNCHANGED <<now, fixed, buckets, probed>> /\ Happens
    BY <1>4 DEF Looks, GetCached, memos
  <2>2. \A x \in Visitor : ask'[x] = ask[x] \/ ask'[x].step = "fetch"
    BY <1>4, LooksMoves
  <2> QED
    BY <1>0, <1>4, <2>1, <2>2, LooksMoves, HappensClock
<1>5. ASSUME NEW t \in Table, Probes(t)
      PROVE  ClockOK' /\ AskOK' /\ UNCHANGED <<buckets, ask, now>>
  BY <1>0, <1>5, TableClock, AskFrame DEF Probes
<1>6. ASSUME \/ Tick \/ Passes \/ \E s \in Source : SourceChanges(s)
             \/ UNCHANGED processVars
      PROVE  ClockOK' /\ AskOK' /\ UNCHANGED <<buckets, ask>> /\ now <= now'
  <2>0. /\ UNCHANGED <<fixed, memos, buckets, ask>>
        /\ UNCHANGED now \/ (now < MaxTime /\ now' = now + 1)
    BY <1>6 DEF Tick, Passes, SourceChanges, processVars, rest
  <2>1. UNCHANGED <<fixed, memos, buckets, ask>> /\ now' \in Time /\ now <= now'
    BY <1>0, <2>0, SiteProcessAssumption DEF Time
  <2>2. ClockOK'
    <3>1. CASE Tick \/ Passes \/ \E s \in Source : SourceChanges(s)
      BY <2>1, <3>1, HappensClock DEF Tick, Passes, SourceChanges, memos
    <3>2. CASE UNCHANGED processVars
      BY <3>2 DEF processVars, ClockOK, fixed, memos
    <3> QED
      BY <1>6, <3>1, <3>2
  <2> QED
    BY <2>1, <2>2, AskFrame
<1>7. CASE \E v \in Visitor : AnswerSteps(v) \/ Leaves(v)
  BY <1>7, <1>1, <1>2 DEF AnswerSteps
<1>8. CASE \E v \in Visitor, f \in Form : Asks(v, f)
  BY <1>8, <1>3
<1>9. CASE \E v \in Visitor, a \in Answer : Looks(v, a)
  BY <1>9, <1>4
<1>10. CASE \E t \in Table : Probes(t)
  BY <1>0, <1>10, <1>5
<1>11. CASE \/ Tick \/ Passes \/ \E s \in Source : SourceChanges(s)
            \/ UNCHANGED processVars
  BY <1>11, <1>6
<1> QED
  BY <1>7, <1>8, <1>9, <1>10, <1>11 DEF ProcessNext

-----------------------------------------------------------------------------
(* The process: the limiter holds *)

LEMMA JudgingFinite ==
  \A f : IsFiniteSet(Judging(f)) /\ Cardinality(Judging(f)) \in Nat
<1> TAKE f
<1>1. Judging(f) \subseteq Visitor
  BY DEF Judging
<1> QED
  BY <1>1, SiteProcessAssumption, FS_Subset, FS_CardinalityType

LEMMA JudgingFiniteNext ==
  \A f : IsFiniteSet(Judging(f)') /\ Cardinality(Judging(f)') \in Nat
<1> TAKE f
<1>1. Judging(f)' \subseteq Visitor
  BY DEF Judging
<1> QED
  BY <1>1, SiteProcessAssumption, FS_Subset, FS_CardinalityType

\* Nobody new waits to judge a bucket that stays as it is.
LEMMA JudgingShrinks ==
  ASSUME NEW f, bucket'[f] = bucket[f],
         \A x \in Visitor : ask'[x] = ask[x] \/ ask'[x].step # "judge"
  PROVE  Judging(f)' \subseteq Judging(f) /\ Cardinality(Judging(f)') <= Cardinality(Judging(f))
<1>1. Judging(f)' \subseteq Judging(f)
  BY DEF Judging, AskAt
<1> QED
  BY <1>1, JudgingFinite, FS_Subset

LEMMA AdmittedTyped ==
  ASSUME NEW d \in {"memory", "mysql"}, NEW f \in Form, NEW w \in Windows
  PROVE  <<d, f, w>> \in Counters
BY DEF Counters

LEMMA LetThroughFacts ==
  ASSUME admitted \in [Counters -> Nat], NEW v \in Visitor, ask[v].for \in Form,
         NEW d \in {"memory", "mysql"}, NEW w \in Windows, LetThrough(v, d, w)
  PROVE  /\ admitted' \in [Counters -> Nat]
         /\ admitted'[<<d, ask[v].for, w>>] = admitted[<<d, ask[v].for, w>>] + 1
         /\ \A x \in Counters : x # <<d, ask[v].for, w>> => admitted'[x] = admitted[x]
<1>1. <<d, ask[v].for, w>> \in Counters
  BY AdmittedTyped
<1> QED
  BY <1>1 DEF LetThrough

LEMMA MemoryFrame ==
  ASSUME ClockOK, ClockOK', MemoryOK, memory' = memory, now <= now',
         \A f \in Form : \A w \in Windows :
           admitted'[<<"memory", f, w>>] = admitted[<<"memory", f, w>>]
  PROVE  MemoryOK'
<1>1. WindowOf(now) <= WindowOf(now') /\ WindowOf(now) \in Nat /\ WindowOf(now') \in Nat
  BY Ranges DEF ClockOK
<1>2. \A f \in Form : memory[f].window \in Nat /\ memory[f].window <= WindowOf(now)
  BY Ranges DEF MemoryOK, BucketState
<1>3. \A f \in Form : memory'[f].window <= WindowOf(now')
  BY <1>1, <1>2
<1> QED
  BY <1>3 DEF MemoryOK

LEMMA InMemoryKeeps ==
  ASSUME ClockOK, AskOK, LimitInv, NEW v \in Visitor, ask[v].for \in Form,
         NEW hit, InMemory(v, hit), UNCHANGED now
  PROVE  /\ admitted' \in [Counters -> Nat] /\ MemoryOK' /\ UNCHANGED bucket
         /\ \A f \in Form : \A w \in Windows :
              admitted'[<<"mysql", f, w>>] = admitted[<<"mysql", f, w>>]
<1> DEFINE form == ask[v].for
           W == WindowOf(now)
           old == memory[form]
<1>1. W \in Windows /\ W \in Nat /\ Windows \subseteq Nat
  BY Ranges DEF ClockOK
<1>2. old \in BucketState /\ old.window \in Windows /\ old.hits \in Nat /\ old.window <= W
      /\ old.window \in Nat
  BY <1>1 DEF LimitInv, MemoryOK, BucketState
<1>3. hit \in BucketState /\ hit.window \in Windows /\ hit.hits \in Nat /\ hit.window \in Nat
      /\ \/ /\ old.hits = 0 \/ old.window < W
            /\ hit.window = W /\ hit.hits = 1
         \/ hit.window = old.window /\ hit.hits = old.hits + 1
  BY <1>1, <1>2, HitFacts DEF InMemory, BucketState
<1>4. /\ memory' \in [Form -> BucketState] /\ memory'[form] = hit
      /\ \A f \in Form \ {form} : memory'[f] = memory[f]
  BY <1>3 DEF InMemory, LimitInv, MemoryOK
<1>5. /\ admitted' \in [Counters -> Nat]
      /\ \A x \in Counters : x # <<"memory", form, hit.window>> => admitted'[x] = admitted[x]
      /\ \/ admitted'[<<"memory", form, hit.window>>] = admitted[<<"memory", form, hit.window>>]
         \/ /\ hit.hits <= Limit
            /\ admitted'[<<"memory", form, hit.window>>] = admitted[<<"memory", form, hit.window>>] + 1
  <2>1. CASE TurnedAway(v)
    BY <2>1 DEF TurnedAway, LimitInv
  <2>2. CASE hit.hits <= Limit /\ LetThrough(v, "memory", hit.window)
    BY <1>3, <2>2, LetThroughFacts DEF LimitInv
  <2> QED
    BY <2>1, <2>2 DEF InMemory
<1>6. \A f \in Form : \A w \in Windows :
        /\ admitted'[<<"mysql", f, w>>] = admitted[<<"mysql", f, w>>]
        /\ f # form \/ w # hit.window => admitted'[<<"memory", f, w>>] = admitted[<<"memory", f, w>>]
  BY <1>5, AdmittedTyped
<1>7. \A w \in Windows :
        /\ admitted[<<"memory", form, w>>] \in Nat /\ admitted[<<"memory", form, w>>] <= Limit
        /\ w = old.window => admitted[<<"memory", form, w>>] <= old.hits
        /\ w > old.window => admitted[<<"memory", form, w>>] = 0
  BY AdmittedTyped DEF LimitInv, MemoryOK
<1>8. Limit \in Nat
  BY SiteProcessAssumption
<1> DEFINE a == admitted[<<"memory", form, hit.window>>]
           b == admitted'[<<"memory", form, hit.window>>]
<1>9. b \in Nat /\ b <= Limit /\ b <= hit.hits
  <2>1. a \in Nat /\ a <= Limit /\ (hit.window = old.window => a <= old.hits)
        /\ (hit.window > old.window => a = 0)
    BY <1>3, <1>7
  <2>2. b = a \/ (hit.hits <= Limit /\ b = a + 1)
    BY <1>5
  <2> HIDE DEF a, b, old, W
  <2>3. a + 1 <= hit.hits
    BY <1>1, <1>2, <1>3, <2>1
  <2> QED
    BY <1>3, <1>8, <2>1, <2>2, <2>3
<1>10. old.window <= hit.window /\ hit.window <= W
  BY <1>1, <1>2, <1>3
<1>11. ASSUME NEW w \in Windows
       PROVE  /\ admitted'[<<"memory", form, w>>] <= Limit
              /\ w = hit.window => admitted'[<<"memory", form, w>>] <= hit.hits
              /\ w > hit.window => admitted'[<<"memory", form, w>>] = 0
  <2>1. CASE w = hit.window
    BY <2>1, <1>9, <1>3
  <2>2. CASE w # hit.window
    <3>1. admitted'[<<"memory", form, w>>] = admitted[<<"memory", form, w>>]
      BY <1>6, <2>2 DEF InMemory
    <3>2. w > hit.window => w > old.window
      BY <1>1, <1>2, <1>3, <1>10
    <3> QED
      BY <2>2, <3>1, <3>2, <1>7
  <2> QED
    BY <2>1, <2>2
<1>12. ASSUME NEW f \in Form
       PROVE  /\ memory'[f].window <= WindowOf(now')
              /\ \A w \in Windows :
                   /\ admitted'[<<"memory", f, w>>] <= Limit
                   /\ w = memory'[f].window => admitted'[<<"memory", f, w>>] <= memory'[f].hits
                   /\ w > memory'[f].window => admitted'[<<"memory", f, w>>] = 0
  <2>1. CASE f = form
    BY <2>1, <1>4, <1>10, <1>11
  <2>2. CASE f # form
    BY <2>2, <1>4, <1>6 DEF LimitInv, MemoryOK
  <2> QED
    BY <2>1, <2>2
<1>13. MemoryOK'
  BY <1>4, <1>12 DEF MemoryOK
<1> QED
  BY <1>5, <1>6, <1>13 DEF InMemory

\* A bucket of the database that is left alone, and admits nobody.
LEMMA BucketFrame ==
  ASSUME BucketOK, bucket' = bucket,
         admitted \in [Counters -> Nat],
         \A f \in Form : \A w \in Windows :
           admitted'[<<"mysql", f, w>>] = admitted[<<"mysql", f, w>>],
         \A x \in Visitor : ask'[x] = ask[x] \/ ask'[x].step # "judge"
  PROVE  BucketOK'
<1>1. \A f \in Form : Cardinality(Judging(f)') <= Cardinality(Judging(f))
  BY JudgingShrinks
<1>2. \A f \in Form : Cardinality(Judging(f)) \in Nat
  BY JudgingFinite
<1>3. \A f \in Form : Cardinality(Judging(f)') \in Nat
  BY JudgingFiniteNext
<1>4. ASSUME NEW f \in Form
      PROVE  /\ bucket'[f].hits = 0 => bucket'[f].window = 0
             /\ \A w \in Windows :
                  /\ admitted'[<<"mysql", f, w>>] <= Limit
                  /\ w = bucket'[f].window =>
                       admitted'[<<"mysql", f, w>>] + Cardinality(Judging(f)') <= bucket'[f].hits
                  /\ w > bucket'[f].window => admitted'[<<"mysql", f, w>>] = 0
  <2>1. \A w \in Windows : admitted[<<"mysql", f, w>>] \in Nat
    BY AdmittedTyped
  <2>2. bucket[f].hits \in Nat
    BY DEF BucketOK, BucketState
  <2>3. \A w \in Windows : w = bucket[f].window =>
          admitted[<<"mysql", f, w>>] + Cardinality(Judging(f)) <= bucket[f].hits
    BY DEF BucketOK
  <2>4. \A w \in Windows : w = bucket[f].window =>
          admitted[<<"mysql", f, w>>] + Cardinality(Judging(f)') <= bucket[f].hits
    BY <1>1, <1>2, <1>3, <2>1, <2>2, <2>3
  <2> QED
    BY <2>4 DEF BucketOK
<1>5. \A x \in Visitor : AskAt(x, "judge")' =>
        ask'[x].at <= bucket'[ask'[x].for].window /\ ask'[x].at \in Windows
  BY DEF BucketOK, AskAt
<1> QED
  BY <1>4, <1>5 DEF BucketOK

LEMMA CountKeeps ==
  ASSUME ClockOK, AskOK, LimitInv, NEW v \in Visitor, CountHit(v)
  PROVE  LimitInv'
<1>0. PICK form \in Form : form = ask[v].for
  BY CountMoves DEF LimitInv
<1> DEFINE at == ask[v].at
           old == bucket[form]
           hit == Hit(old, at)
<1>1. /\ form \in Form /\ at \in Windows /\ hit \in BucketState
      /\ ask'[v] = [ask[v] EXCEPT !.step = "judge", !.at = hit.window]
      /\ \A x \in Visitor \ {v} : ask'[x] = ask[x]
  BY <1>0, CountMoves DEF LimitInv
<1>2. /\ old \in BucketState /\ old.window \in Nat /\ old.hits \in Nat /\ at \in Nat
      /\ hit.window \in Windows /\ hit.window \in Nat /\ hit.hits \in Nat
      /\ old.hits = 0 => old.window = 0
  BY <1>1, Ranges DEF LimitInv, BucketOK, BucketState
<1>3. \/ hit.window > old.window /\ hit.hits = 1
      \/ hit.window = old.window /\ hit.hits = old.hits + 1
  BY <1>1, <1>2, HitFacts
<1>4. /\ bucket' \in [Form -> BucketState] /\ bucket'[form] = hit
      /\ \A f \in Form \ {form} : bucket'[f] = bucket[f]
      /\ UNCHANGED <<admitted, memory, now>>
  BY <1>0, <1>1 DEF CountHit, LimitInv, BucketOK
<1>5. ask'[v].step = "judge" /\ ask'[v].for = form /\ ask'[v].at = hit.window
      /\ ask[v].step = "count"
  BY <1>0, <1>1 DEF CountHit, AskAt, AskOK, AskState
<1> HIDE DEF hit
<1>6. \A f \in Form : Cardinality(Judging(f)) \in Nat /\ IsFiniteSet(Judging(f))
  BY JudgingFinite
<1>7. \A f \in Form : Cardinality(Judging(f)') \in Nat
  BY JudgingFiniteNext
\* Those behind the turn of the window have been overtaken.
<1>8. ASSUME hit.window > old.window, hit.hits = 1
      PROVE  admitted[<<"mysql", form, hit.window>>] + Cardinality(Judging(form)') <= hit.hits
  <2>1. Judging(form)' \subseteq {v}
    <3> SUFFICES ASSUME NEW x \in Visitor \ {v}, AskAt(x, "judge"), ask[x].for = form,
                        ask[x].at = hit.window
                 PROVE  FALSE
      BY <1>1, <1>4 DEF Judging, AskAt
    <3>1. ask[x].at <= old.window
      BY DEF LimitInv, BucketOK
    <3> QED
      BY <1>2, <1>8, <3>1
  <2>2. IsFiniteSet({v}) /\ Cardinality({v}) = 1
    BY FS_Singleton
  <2>3. Cardinality(Judging(form)') <= 1
    BY <2>1, <2>2, FS_Subset
  <2>4. admitted[<<"mysql", form, hit.window>>] = 0
    BY <1>1, <1>2, <1>8 DEF LimitInv, BucketOK
  <2> QED
    BY <1>1, <1>7, <1>8, <2>3, <2>4
<1>9. ASSUME hit.window = old.window, hit.hits = old.hits + 1
      PROVE  admitted[<<"mysql", form, hit.window>>] + Cardinality(Judging(form)') <= hit.hits
  <2>1. Judging(form)' \subseteq Judging(form) \cup {v}
    BY <1>1, <1>4, <1>9 DEF Judging, AskAt
  <2>2. v \notin Judging(form)
    BY <1>5 DEF Judging, AskAt
  <2>3. /\ IsFiniteSet(Judging(form) \cup {v})
        /\ Cardinality(Judging(form) \cup {v}) = Cardinality(Judging(form)) + 1
    BY <1>1, <1>6, <2>2, FS_AddElement
  <2>4. Cardinality(Judging(form)') <= Cardinality(Judging(form)) + 1
    BY <2>1, <2>3, FS_Subset
  <2>5. /\ admitted[<<"mysql", form, old.window>>] + Cardinality(Judging(form)) <= old.hits
        /\ admitted[<<"mysql", form, old.window>>] \in Nat
    BY <1>1, <1>2, <1>9, AdmittedTyped DEF LimitInv, BucketOK
  <2> HIDE DEF old
  <2> QED
    BY <1>1, <1>2, <1>6, <1>7, <1>9, <2>4, <2>5
<1>10. admitted[<<"mysql", form, hit.window>>] + Cardinality(Judging(form)') <= hit.hits
  BY <1>3, <1>8, <1>9
<1>11. old.window <= hit.window /\ hit.hits # 0
  BY <1>2, <1>3
<1>12. ASSUME NEW f \in Form \ {form}
       PROVE  Cardinality(Judging(f)') <= Cardinality(Judging(f))
  <2>1. Judging(f)' \subseteq Judging(f)
    BY <1>1, <1>4, <1>5 DEF Judging, AskAt
  <2> QED
    BY <2>1, <1>6, FS_Subset
<1>13. ASSUME NEW f \in Form
       PROVE  /\ bucket'[f].hits = 0 => bucket'[f].window = 0
              /\ \A w \in Windows :
                   /\ admitted[<<"mysql", f, w>>] <= Limit
                   /\ w = bucket'[f].window =>
                        admitted[<<"mysql", f, w>>] + Cardinality(Judging(f)') <= bucket'[f].hits
                   /\ w > bucket'[f].window => admitted[<<"mysql", f, w>>] = 0
  <2>1. CASE f = form
    <3>1. \A w \in Windows : w \in Nat
      BY Ranges
    <3>2. \A w \in Windows : w > hit.window => w > old.window
      BY <1>2, <1>11, <3>1
    <3> QED
      BY <2>1, <3>2, <1>4, <1>10, <1>11 DEF LimitInv, BucketOK
  <2>2. CASE f # form
    <3>1. \A w \in Windows : admitted[<<"mysql", f, w>>] \in Nat
      BY AdmittedTyped DEF LimitInv
    <3>2. bucket[f].hits \in Nat /\ bucket'[f] = bucket[f]
      BY <1>4, <2>2 DEF LimitInv, BucketOK, BucketState
    <3>3. /\ bucket[f].hits = 0 => bucket[f].window = 0
          /\ \A w \in Windows :
               /\ admitted[<<"mysql", f, w>>] <= Limit
               /\ w = bucket[f].window =>
                    admitted[<<"mysql", f, w>>] + Cardinality(Judging(f)) <= bucket[f].hits
               /\ w > bucket[f].window => admitted[<<"mysql", f, w>>] = 0
      BY DEF LimitInv, BucketOK
    <3>4. Cardinality(Judging(f)') <= Cardinality(Judging(f))
      BY <1>12, <2>2
    <3>5. Cardinality(Judging(f)) \in Nat /\ Cardinality(Judging(f)') \in Nat
      BY <1>6, <1>7
    <3>6. \A w \in Windows : w = bucket[f].window =>
            admitted[<<"mysql", f, w>>] + Cardinality(Judging(f)') <= bucket[f].hits
      BY <3>1, <3>2, <3>3, <3>4, <3>5
    <3> QED
      BY <3>2, <3>3, <3>6
  <2> QED
    BY <2>1, <2>2
<1>14. ASSUME NEW x \in Visitor, ask'[x].step = "judge"
       PROVE  ask'[x].at <= bucket'[ask'[x].for].window /\ ask'[x].at \in Windows
  <2>1. CASE x = v
    BY <2>1, <1>2, <1>4, <1>5
  <2>2. CASE x # v
    <3>1. ask'[x] = ask[x] /\ ask[x].at <= bucket[ask[x].for].window /\ ask[x].at \in Windows
          /\ ask[x].for \in Form
      BY <1>1, <1>14, <2>2 DEF LimitInv, BucketOK, AskAt, AskOK
    <3>2. ask[x].at \in Nat /\ bucket[ask[x].for].window \in Nat
      BY <3>1, Ranges DEF LimitInv, BucketOK, BucketState
    <3>3. CASE ask[x].for = form
      BY <3>1, <3>2, <3>3, <1>2, <1>4, <1>11
    <3>4. CASE ask[x].for # form
      BY <3>1, <3>4, <1>4
    <3> QED
      BY <3>3, <3>4
  <2> QED
    BY <2>1, <2>2
<1>15. BucketOK'
  BY <1>4, <1>13, <1>14 DEF BucketOK, AskAt
<1>16. MemoryOK'
  BY <1>4 DEF LimitInv, MemoryOK
<1> QED
  BY <1>4, <1>15, <1>16 DEF LimitInv

LEMMA JudgeKeeps ==
  ASSUME ClockOK, AskOK, LimitInv, NEW v \in Visitor, JudgeHits(v)
  PROVE  LimitInv'
<1>0. PICK form \in Form : form = ask[v].for
  BY DEF JudgeHits, AskAt, AskOK
<1>01. PICK at \in Windows : at = ask[v].at
  BY DEF JudgeHits, AskAt, LimitInv, BucketOK
<1> DEFINE old == bucket[form]
<1>1. ask[v].step = "judge" /\ form = ask[v].for /\ at = ask[v].at
  BY <1>0, <1>01 DEF JudgeHits, AskAt
<1>2. UNCHANGED <<bucket, memory, now>>
  BY JudgeMoves
<1>3. AskOK' /\ ask'[v].step # "judge" /\ \A x \in Visitor \ {v} : ask'[x] = ask[x]
  BY JudgeMoves, VerdictMoves
<1>4. \A x \in Visitor : ask'[x] = ask[x] \/ ask'[x].step # "judge"
  BY <1>3
<1>5. CASE TurnedAway(v)
  BY <1>2, <1>4, <1>5, BucketFrame DEF TurnedAway, LimitInv, MemoryOK
<1>6. CASE /\ old.hits <= Limit /\ old.window = at
           /\ LetThrough(v, "mysql", at)
  <2> DEFINE x0 == <<"mysql", form, at>>
  <2>1. /\ admitted' \in [Counters -> Nat] /\ admitted'[x0] = admitted[x0] + 1
        /\ \A x \in Counters : x # x0 => admitted'[x] = admitted[x]
    BY <1>1, <1>6, LetThroughFacts DEF LimitInv
  <2>2. v \in Judging(form)
    BY <1>1, <1>6 DEF Judging, AskAt
  <2>3. Judging(form)' \subseteq Judging(form) \ {v}
    BY <1>2, <1>3 DEF Judging, AskAt
  <2>4. /\ IsFiniteSet(Judging(form)) /\ Cardinality(Judging(form)) \in Nat
        /\ \A f \in Form : Cardinality(Judging(f)) \in Nat
    BY JudgingFinite
  <2>5. \A f \in Form : Cardinality(Judging(f)') \in Nat
    BY JudgingFiniteNext
  <2>6. /\ IsFiniteSet(Judging(form) \ {v})
        /\ Cardinality(Judging(form) \ {v}) = Cardinality(Judging(form)) - 1
    BY <2>2, <2>4, FS_RemoveElement
  <2>7. Cardinality(Judging(form)') <= Cardinality(Judging(form)) - 1
    BY <2>3, <2>6, FS_Subset
  <2>8. /\ admitted[x0] \in Nat /\ old.hits \in Nat
        /\ admitted[x0] + Cardinality(Judging(form)) <= old.hits
    BY <1>1, <1>6, AdmittedTyped DEF LimitInv, BucketOK, BucketState
  <2>9. /\ admitted'[x0] + Cardinality(Judging(form)') <= old.hits
        /\ admitted'[x0] <= Limit
    <3>1. Limit \in Nat
      BY SiteProcessAssumption
    <3>2. old.hits <= Limit /\ admitted'[x0] = admitted[x0] + 1
      BY <1>6, <2>1
    <3>3. Cardinality(Judging(form)') \in Nat
      BY <1>1, <2>5
    <3> HIDE DEF x0, old
    <3> QED
      BY <2>4, <2>7, <2>8, <3>1, <3>2, <3>3
  <2>10. \A f \in Form : Cardinality(Judging(f)') <= Cardinality(Judging(f))
    BY <1>2, <1>4, JudgingShrinks
  <2>11. ASSUME NEW f \in Form, NEW w \in Windows
         PROVE  /\ admitted'[<<"mysql", f, w>>] <= Limit
                /\ w = bucket[f].window =>
                     admitted'[<<"mysql", f, w>>] + Cardinality(Judging(f)') <= bucket[f].hits
                /\ w > bucket[f].window => admitted'[<<"mysql", f, w>>] = 0
    <3>1. CASE f = form /\ w = at
      <4>1. at \in Nat /\ ~(at > at)
        BY Ranges
      <4> QED
        BY <1>6, <3>1, <2>9, <4>1
    <3>2. CASE f # form \/ w # at
      <4>1. <<"mysql", f, w>> \in Counters /\ <<"mysql", f, w>> # x0
        BY <3>2, AdmittedTyped
      <4>2. admitted'[<<"mysql", f, w>>] = admitted[<<"mysql", f, w>>]
            /\ admitted[<<"mysql", f, w>>] \in Nat
        BY <2>1, <4>1 DEF LimitInv
      <4>3. /\ admitted[<<"mysql", f, w>>] <= Limit
            /\ w = bucket[f].window =>
                 admitted[<<"mysql", f, w>>] + Cardinality(Judging(f)) <= bucket[f].hits
            /\ w > bucket[f].window => admitted[<<"mysql", f, w>>] = 0
            /\ bucket[f].hits \in Nat
        BY DEF LimitInv, BucketOK, BucketState
      <4>4. /\ Cardinality(Judging(f)') <= Cardinality(Judging(f))
            /\ Cardinality(Judging(f)') \in Nat /\ Cardinality(Judging(f)) \in Nat
        BY <2>4, <2>5, <2>10
      <4> QED
        BY <4>2, <4>3, <4>4
    <3> QED
      BY <3>1, <3>2
  <2>12. BucketOK'
    BY <1>2, <1>4, <2>11 DEF LimitInv, BucketOK, AskAt
  <2>13. \A f \in Form : \A w \in Windows :
           admitted'[<<"memory", f, w>>] = admitted[<<"memory", f, w>>]
    BY <2>1, AdmittedTyped
  <2>14. MemoryOK'
    BY <1>2, <2>13 DEF LimitInv, MemoryOK
  <2> QED
    BY <2>1, <2>12, <2>14 DEF LimitInv
<1> QED
  BY <1>1, <1>5, <1>6, JudgeMoves

LEMMA LimitStepKeeps ==
  ASSUME ClockOK, AskOK, LimitInv, NEW v \in Visitor, LimitSteps(v)
  PROVE  LimitInv'
<1>1. UNCHANGED now /\ ask[v].for \in Form
  BY LimitCases DEF fixed, AskAt, AskOK
<1>2. CASE Sends(v)
  <2>1. \A x \in Visitor : ask'[x] = ask[x] \/ ask'[x].step # "judge"
    BY <1>1, <1>2, SendsMoves
  <2> QED
    BY <1>1, <1>2, <2>1, BucketFrame DEF Sends, buckets, LimitInv, MemoryOK
<1>3. CASE CountHit(v)
  BY <1>3, CountKeeps
<1>4. CASE JudgeHits(v)
  BY <1>4, JudgeKeeps
<1>5. ASSUME NEW hit, InMemory(v, hit)
      PROVE  LimitInv'
  <2>1. /\ admitted' \in [Counters -> Nat] /\ MemoryOK' /\ UNCHANGED bucket
        /\ \A f \in Form : \A w \in Windows :
             admitted'[<<"mysql", f, w>>] = admitted[<<"mysql", f, w>>]
    BY <1>1, <1>5, InMemoryKeeps
  <2>2. \A x \in Visitor : ask'[x] = ask[x] \/ ask'[x].step # "judge"
    BY <1>1, <1>5, InMemoryMoves
  <2>3. BucketOK'
    BY <2>1, <2>2, BucketFrame DEF LimitInv
  <2> QED
    BY <2>1, <2>3 DEF LimitInv
<1> QED
  BY <1>2, <1>3, <1>4, <1>5, LimitCases

-----------------------------------------------------------------------------
(* The process: what is cached was current *)

\* A request that reads nothing new, and an answer that stays, are as current
\* as they were: a source that changes is replaced now, never earlier.
LEMMA ServedMoves ==
  ASSUME ClockOK, ClockOK', ServedInv, now <= now',
         source' \in [Source -> Version], replaced' \in [Source \X Version -> Stamps],
         \A s \in Source : source[s] <= source'[s],
         \A x \in Source \X Version : replaced'[x] = replaced[x] \/ replaced'[x] = now',
         \A s \in Source : \A n \in Version : n >= source'[s] => replaced'[<<s, n>>] = Never,
         \A v \in Visitor : AskAt(v, "fetch")' => ask'[v] = ask[v] \/ Reading(v)',
         cache' \in [Answer -> [versions : Versions, at : Stamps]],
         \A a \in Answer : cache'[a] = cache[a] \/ Holding(a)',
         AskOK
  PROVE  ServedInv'
<1>1. /\ now \in Nat /\ now' \in Nat /\ Stamps \subseteq Nat
      /\ \A x \in Source \X Version : replaced[x] \in Nat /\ replaced'[x] \in Nat
  BY Ranges DEF ClockOK, ServedInv, SourcesOK
<1>2. ASSUME NEW f \in Versions, NEW t \in Nat, t <= now, ReadSince(f, t)
      PROVE  ReadSince(f, t)'
  <2>1. DOMAIN f \subseteq Source /\ \A s \in DOMAIN f : f[s] \in Version
    BY ReadTyped
  <2> SUFFICES ASSUME NEW s \in DOMAIN f
               PROVE  replaced'[<<s, f[s]>>] >= t
    BY DEF ReadSince
  <2>2. <<s, f[s]>> \in Source \X Version
    BY <2>1
  <2>3. replaced[<<s, f[s]>>] >= t
    BY <1>2 DEF ReadSince
  <2>4. /\ replaced[<<s, f[s]>>] \in Nat /\ replaced'[<<s, f[s]>>] \in Nat
        /\ replaced'[<<s, f[s]>>] = replaced[<<s, f[s]>>] \/ replaced'[<<s, f[s]>>] = now'
    BY <1>1, <2>2
  <2> QED
    BY <1>1, <1>2, <2>3, <2>4
<1>3. SourcesOK'
  BY DEF SourcesOK
<1>4. ASSUME NEW v \in Visitor, AskAt(v, "fetch")'
      PROVE  Reading(v)'
  <2>1. CASE ask'[v] = ask[v]
    <3>1. Reading(v)
      BY <1>4, <2>1 DEF ServedInv, ReadsOK, AskAt
    <3>2. ask[v].read \in Versions /\ ask[v].at \in Nat
      BY Ranges DEF AskOK, AskState
    <3>3. \A s \in DOMAIN ask[v].read : replaced'[<<s, ask[v].read[s]>>] >= ask[v].at
      BY <1>2, <3>1, <3>2 DEF ReadSince, Reading
    <3>4. ask[v].at <= now'
      BY <1>1, <3>1, <3>2 DEF Reading
    <3> QED
      BY <2>1, <3>1, <3>3, <3>4 DEF ReadSince, Reading
  <2> QED
    BY <1>4, <2>1
<1>5. ASSUME NEW a \in Answer, cache'[a].at # Never
      PROVE  Holding(a)'
  <2>1. CASE cache'[a] = cache[a]
    <3>1. Holding(a)
      BY <1>5, <2>1 DEF ServedInv, CachedOK
    <3>2. cache[a].versions \in Versions /\ cache[a].at \in Nat
      BY Ranges DEF ServedInv, CachedOK
    <3>3. \A s \in DOMAIN cache[a].versions : replaced'[<<s, cache[a].versions[s]>>] >= cache[a].at
      BY <1>2, <3>1, <3>2 DEF ReadSince, Holding
    <3>4. cache[a].at <= now'
      BY <1>1, <3>1, <3>2 DEF Holding
    <3> QED
      BY <2>1, <3>1, <3>3, <3>4 DEF ReadSince, Holding
  <2> QED
    BY <1>5, <2>1
<1> QED
  BY <1>3, <1>4, <1>5 DEF ServedInv, ReadsOK, CachedOK

\* ... and with the sources as they were.
LEMMA ServedFrame ==
  ASSUME ClockOK, ClockOK', AskOK, ServedInv, now <= now', UNCHANGED sources,
         \A v \in Visitor : AskAt(v, "fetch")' => ask'[v] = ask[v] \/ Reading(v)',
         UNCHANGED cache
  PROVE  ServedInv'
<1>1. \A s \in Source : source[s] \in Nat
  BY SiteProcessAssumption DEF ServedInv, SourcesOK, Version
<1>2. UNCHANGED <<source, replaced>>
  BY DEF sources
<1>3. /\ source' \in [Source -> Version] /\ replaced' \in [Source \X Version -> Stamps]
      /\ \A s \in Source : source[s] <= source'[s]
      /\ \A s \in Source : \A n \in Version : n >= source'[s] => replaced'[<<s, n>>] = Never
      /\ cache' \in [Answer -> [versions : Versions, at : Stamps]]
  BY <1>1, <1>2 DEF ServedInv, SourcesOK, CachedOK
<1> QED
  BY <1>2, <1>3, ServedMoves

LEMMA FetchKeeps ==
  ASSUME ClockOK, AskOK, ServedInv, NEW v \in Visitor, NEW s \in Source, Fetch(v, s)
  PROVE  Reading(v)'
<1>1. /\ ask[v].step = "fetch" /\ s \in SourceOf[ask[v].for]
      /\ ask'[v].for = ask[v].for /\ ask'[v].at = ask[v].at
      /\ DOMAIN ask'[v].read = DOMAIN ask[v].read \cup {s}
      /\ ask'[v].read[s] = source[s]
      /\ \A x \in DOMAIN ask[v].read \ {s} : ask'[v].read[x] = ask[v].read[x]
  BY FetchMoves DEF ServedInv, SourcesOK
<1>2. Reading(v)
  BY <1>1 DEF ServedInv, ReadsOK, AskAt
<1>3. UNCHANGED <<replaced, now>>
  BY DEF Fetch, sources
<1>4. replaced[<<s, source[s]>>] >= ask[v].at
  <2>1. source[s] \in Version /\ source[s] >= source[s]
    BY SiteProcessAssumption DEF ServedInv, SourcesOK, Version
  <2>2. replaced[<<s, source[s]>>] = Never
    BY <2>1 DEF ServedInv, SourcesOK
  <2>3. ask[v].at \in Time /\ ask[v].at \in Nat /\ Never \in Nat /\ ask[v].at < Never
    BY Ranges DEF AskOK, AskState
  <2> QED
    BY <2>2, <2>3
<1>5. \A x \in DOMAIN ask'[v].read : replaced[<<x, ask'[v].read[x]>>] >= ask'[v].at
  BY <1>1, <1>2, <1>4 DEF Reading, ReadSince
<1> QED
  BY <1>1, <1>2, <1>3, <1>5 DEF Reading, ReadSince

LEMMA StoreKeeps ==
  ASSUME ClockOK, ClockOK', AskOK, ServedInv, NEW v \in Visitor, StoreAnswer(v)
  PROVE  ServedInv'
<1>0. PICK a \in Answer : a = ask[v].for
  BY DEF ServedInv, ReadsOK, Reading, StoreAnswer
<1> DEFINE kept == [versions |-> ask[v].read, at |-> ask[v].at]
<1>1. /\ ask[v].step = "fetch" /\ Reading(v) /\ DOMAIN ask[v].read = SourceOf[a]
      /\ cache' = [cache EXCEPT ![a] = kept] /\ ask' = [ask EXCEPT ![v] = NoAsk]
      /\ UNCHANGED <<now, source, replaced>>
  BY <1>0 DEF StoreAnswer, Stamp, ServedInv, ReadsOK, AskAt, sources
<1>2. kept \in [versions : Versions, at : Stamps] /\ now \in Nat /\ now <= now'
  <2>1. ask[v].read \in Versions /\ ask[v].at \in Stamps /\ now \in Nat
    BY Ranges DEF AskOK, AskState, ClockOK
  <2> QED
    BY <1>1, <2>1
<1>3. /\ cache' \in [Answer -> [versions : Versions, at : Stamps]]
      /\ cache'[a] = kept /\ \A x \in Answer \ {a} : cache'[x] = cache[x]
  BY <1>1, <1>2 DEF ServedInv, CachedOK
<1>4. Holding(a)'
  BY <1>1, <1>3 DEF Holding, Reading, ReadSince
<1>5. \A x \in Visitor : AskAt(x, "fetch")' => ask'[x] = ask[x]
  BY <1>1, EndsMoves DEF AskAt
<1>6. \A s \in Source : source[s] <= source'[s]
  BY <1>1, SiteProcessAssumption DEF ServedInv, SourcesOK, Version
<1>7. /\ source' \in [Source -> Version] /\ replaced' \in [Source \X Version -> Stamps]
      /\ \A s \in Source : \A n \in Version : n >= source'[s] => replaced'[<<s, n>>] = Never
      /\ \A x \in Source \X Version : replaced'[x] = replaced[x]
  BY <1>1 DEF ServedInv, SourcesOK
<1>8. \A x \in Answer : cache'[x] = cache[x] \/ Holding(x)'
  BY <1>3, <1>4
<1> QED
  BY <1>2, <1>3, <1>5, <1>6, <1>7, <1>8, ServedMoves

LEMMA SourceKeeps ==
  ASSUME ClockOK, ClockOK', AskOK, ServedInv, NEW s \in Source, SourceChanges(s)
  PROVE  ServedInv'
<1>1. /\ source[s] \in Version /\ source[s] \in Nat /\ source[s] < MaxVersion
      /\ source' = [source EXCEPT ![s] = source[s] + 1]
      /\ replaced' = [replaced EXCEPT ![<<s, source[s]>>] = now]
      /\ UNCHANGED <<now, cache, ask>>
  BY SiteProcessAssumption DEF SourceChanges, ServedInv, SourcesOK, Version, memos
<1>2. source[s] + 1 \in Version
  BY <1>1, SiteProcessAssumption DEF Version
<1>3. source' \in [Source -> Version]
  BY <1>1, <1>2 DEF ServedInv, SourcesOK
<1>4. now \in Stamps /\ now \in Nat /\ now <= now'
  BY <1>1, Ranges DEF ClockOK
<1>5. <<s, source[s]>> \in Source \X Version
  BY <1>1
<1>6. /\ replaced' \in [Source \X Version -> Stamps]
      /\ replaced'[<<s, source[s]>>] = now
      /\ \A x \in Source \X Version : x # <<s, source[s]>> => replaced'[x] = replaced[x]
  BY <1>1, <1>4, <1>5 DEF ServedInv, SourcesOK
<1>7. \A x \in Source : \A n \in Version : n \in Nat /\ source[x] \in Nat
  BY SiteProcessAssumption DEF Version, ServedInv, SourcesOK
<1>8. \A x \in Source : source[x] <= source'[x] /\ (x # s => source'[x] = source[x])
  BY <1>1, <1>7 DEF ServedInv, SourcesOK
<1>9. ASSUME NEW x \in Source, NEW n \in Version, n >= source'[x]
      PROVE  replaced'[<<x, n>>] = Never
  <2>1. n >= source[x] /\ (x = s => n # source[s])
    <3>1. CASE x = s
      <4>1. source'[s] = source[s] + 1
        BY <1>1 DEF ServedInv, SourcesOK
      <4> QED
        BY <1>9, <3>1, <4>1, <1>7
    <3>2. CASE x # s
      BY <3>2, <1>8, <1>9
    <3> QED
      BY <3>1, <3>2
  <2>2. <<x, n>> \in Source \X Version /\ <<x, n>> # <<s, source[s]>>
    BY <2>1
  <2>3. replaced[<<x, n>>] = Never
    BY <2>1 DEF ServedInv, SourcesOK
  <2> QED
    BY <1>6, <2>2, <2>3
<1>10. \A x \in Source \X Version : replaced'[x] = replaced[x] \/ replaced'[x] = now'
  BY <1>1, <1>6
<1>11. /\ cache' \in [Answer -> [versions : Versions, at : Stamps]]
       /\ \A a \in Answer : cache'[a] = cache[a]
       /\ \A v \in Visitor : ask'[v] = ask[v]
  BY <1>1 DEF ServedInv, CachedOK
<1> QED
  BY <1>3, <1>4, <1>6, <1>8, <1>9, <1>10, <1>11, ServedMoves

LEMMA ProcessStep ==
  ASSUME ProcessInv, ProcessNext
  PROVE  ProcessInv'
<1>1. CASE \E v \in Visitor : LimitSteps(v)
  <2>1. PICK v \in Visitor : LimitSteps(v)
    BY <1>1
  <2>2. ClockOK' /\ AskOK' /\ LimitInv'
    BY <2>1, LimitClock, LimitMoves, LimitStepKeeps DEF ProcessInv, LimitInv
  <2>3. UNCHANGED <<now, sources, cache>>
    BY <2>1, LimitCases DEF ProcessInv
  <2>4. \A x \in Visitor : ask'[x].step = "fetch" => ask'[x] = ask[x]
    BY <2>1, LimitMoves DEF ProcessInv, LimitInv, LimitSteps_
  <2>5. now <= now'
    BY <2>3, Ranges DEF ProcessInv, ClockOK
  <2>6. ServedInv'
    BY <2>2, <2>3, <2>4, <2>5, ServedFrame DEF ProcessInv, AskAt
  <2> QED
    BY <2>2, <2>6 DEF ProcessInv
<1>2. CASE ~ \E v \in Visitor : LimitSteps(v)
  <2>1. /\ ClockOK' /\ AskOK' /\ UNCHANGED buckets /\ now <= now'
        /\ \A x \in Visitor : ask'[x] = ask[x] \/ ask'[x].step \in {"idle", "limit", "fetch"}
    BY <1>2, OtherMoves DEF ProcessInv
  <2>2. BucketOK'
    BY <2>1, BucketFrame DEF ProcessInv, LimitInv, buckets
  <2>3. MemoryOK'
    BY <2>1, MemoryFrame DEF ProcessInv, LimitInv, buckets
  <2>4. LimitInv'
    BY <2>1, <2>2, <2>3 DEF ProcessInv, LimitInv, buckets
  <2>5. ASSUME NEW v \in Visitor, NEW s \in Source, Fetch(v, s)
        PROVE  ServedInv'
    <3>1. Reading(v)' /\ UNCHANGED <<cache, sources>>
      BY <2>5, FetchKeeps DEF ProcessInv, Fetch, memos
    <3>2. \A x \in Visitor \ {v} : ask'[x] = ask[x]
      BY <2>5, FetchMoves DEF ProcessInv, ServedInv, SourcesOK
    <3> QED
      BY <2>1, <3>1, <3>2, ServedFrame DEF ProcessInv
  <2>6. ASSUME NEW v \in Visitor, StoreAnswer(v)
        PROVE  ServedInv'
    BY <2>1, <2>6, StoreKeeps DEF ProcessInv
  <2>7. ASSUME NEW s \in Source, SourceChanges(s)
        PROVE  ServedInv'
    BY <2>1, <2>7, SourceKeeps DEF ProcessInv
  <2>8. ASSUME NEW v \in Visitor, NEW a \in Answer, Looks(v, a)
        PROVE  ServedInv'
    <3>1. UNCHANGED <<cache, sources>>
      BY <2>8 DEF Looks, GetCached, memos
    <3>2. \A x \in Visitor : ask'[x] = ask[x] \/ Reading(x)'
      <4>1. CASE UNCHANGED ask
        BY <4>1
      <4>2. CASE /\ ask'[v].for = a /\ ask'[v].at = now /\ ask'[v].read = [s \in {} |-> 0]
                 /\ \A x \in Visitor \ {v} : ask'[x] = ask[x]
        <5>1. UNCHANGED now /\ now <= now
          BY <2>1, <2>8 DEF Looks, GetCached
        <5>2. Reading(v)'
          BY <4>2, <5>1 DEF Reading, ReadSince
        <5> QED
          BY <4>2, <5>2
      <4> QED
        BY <2>8, <4>1, <4>2, LooksMoves DEF ProcessInv
    <3> QED
      BY <2>1, <3>1, <3>2, ServedFrame DEF ProcessInv
  <2>9. ASSUME \/ \E v \in Visitor : Leaves(v)
               \/ \E v \in Visitor, f \in Form : Asks(v, f)
        PROVE  ServedInv'
    <3>1. UNCHANGED <<cache, sources>>
      BY <2>9 DEF Leaves, Asks, memos
    <3>2. \A x \in Visitor : ask'[x].step = "fetch" => ask'[x] = ask[x]
      BY <2>9, EndsMoves, AsksMoves DEF ProcessInv, Leaves
    <3> QED
      BY <2>1, <3>1, <3>2, ServedFrame DEF ProcessInv, AskAt
  <2>10. ASSUME \/ \E t \in Table : Probes(t)
                \/ Tick \/ Passes \/ UNCHANGED processVars
         PROVE  ServedInv'
    <3>1. UNCHANGED <<cache, sources, ask>>
      BY <2>10 DEF Probes, Tick, Passes, rest, memos, processVars
    <3> QED
      BY <2>1, <3>1, ServedFrame DEF ProcessInv
  <2>11. ServedInv'
    BY <1>2, <2>5, <2>6, <2>7, <2>8, <2>9, <2>10 DEF ProcessNext, AnswerSteps
  <2> QED
    BY <2>1, <2>4, <2>11 DEF ProcessInv
<1> QED
  BY <1>1, <1>2

LEMMA ProcessStarts == InitProcess => ProcessInv
<1> SUFFICES ASSUME InitProcess
             PROVE  ProcessInv
  OBVIOUS
<1> USE SiteProcessAssumption
<1>1. ClockOK
  BY Ranges DEF InitProcess, ClockOK
<1>2. AskOK
  BY NoAskTyped DEF InitProcess, AskOK
<1>3. \A v \in Visitor : ask[v].step = "idle"
  BY NoAskTyped DEF InitProcess
<1>4. /\ bucket \in [Form -> BucketState] /\ memory \in [Form -> BucketState]
      /\ \A f \in Form : /\ bucket[f].window = 0 /\ bucket[f].hits = 0
                        /\ memory[f].window = 0 /\ memory[f].hits = 0
  <2>1. Empty \in BucketState /\ Empty.window = 0 /\ Empty.hits = 0
    BY Ranges DEF Empty, BucketState
  <2> QED
    BY <2>1 DEF InitProcess
<1>5. admitted = [x \in Counters |-> 0]
  BY DEF InitProcess, Counters, Windows
<1>6. \A f \in Form : \A w \in Windows :
        admitted[<<"memory", f, w>>] = 0 /\ admitted[<<"mysql", f, w>>] = 0
  BY <1>5, AdmittedTyped
<1>7. MemoryOK
  <2>1. WindowOf(now) \in Nat
    <3>1. now \in Time
      BY <1>1 DEF ClockOK
    <3> QED
      BY <3>1, Ranges
  <2>2. 0 <= WindowOf(now) /\ 0 <= Limit /\ 0 <= 0
    BY <2>1
  <2>3. \A f \in Form : memory[f].window <= WindowOf(now)
    BY <1>4, <2>2
  <2>4. \A f \in Form : \A w \in Windows :
          /\ admitted[<<"memory", f, w>>] <= Limit
          /\ admitted[<<"memory", f, w>>] <= memory[f].hits
          /\ admitted[<<"memory", f, w>>] = 0
    BY <1>4, <1>6, <2>2
  <2> QED
    BY <1>4, <2>3, <2>4 DEF MemoryOK
<1>8. BucketOK
  <2>1. \A f : Cardinality(Judging(f)) = 0
    <3>1. \A f : Judging(f) = {}
      BY <1>3 DEF Judging, AskAt
    <3> QED
      BY <3>1, FS_EmptySet
  <2>2. \A v \in Visitor : ~AskAt(v, "judge")
    BY <1>3 DEF AskAt
  <2>3. 0 <= Limit /\ 0 + 0 <= 0
    OBVIOUS
  <2>4. \A f \in Form : \A w \in Windows :
          /\ admitted[<<"mysql", f, w>>] <= Limit
          /\ admitted[<<"mysql", f, w>>] + Cardinality(Judging(f)) <= bucket[f].hits
          /\ admitted[<<"mysql", f, w>>] = 0
    BY <1>4, <1>6, <2>1, <2>3
  <2> QED
    BY <1>4, <2>2, <2>4 DEF BucketOK
<1>9. SourcesOK
  BY Ranges DEF InitProcess, SourcesOK, Version
<1>10. ReadsOK
  BY <1>3 DEF ReadsOK, AskAt
<1>11. CachedOK
  BY Ranges, ReadTyped DEF InitProcess, CachedOK
<1>12. admitted \in [Counters -> Nat]
  BY <1>5
<1> QED
  BY <1>1, <1>2, <1>7, <1>8, <1>9, <1>10, <1>11, <1>12 DEF ProcessInv, LimitInv, ServedInv

-----------------------------------------------------------------------------
(* The accounts *)

Words == Password \cup {NoPassword}
Prints == 0..MaxVerifier
LinkIds == 0..MaxLink

ByInsert == {"insert", "counter"}
ByConsole == {"create", "find", "mail"}
RegisterSteps == {"limited", "lookup", "authenticate", "respond"} \cup ByInsert \cup ByConsole
ReqSteps == {"idle"} \cup RegisterSteps \cup
            {"ready", "issue", "token", "redeem", "check", "write", "burn"}
ReqState == [kind : {"none"} \cup Form, step : ReqSteps, pass : Words, current : Words,
             fp : Prints, link : LinkIds, late : BOOLEAN, older : LinkIds]

AccountState == [made : BOOLEAN, fp : Prints, pass : Words, mail : BOOLEAN, counted : BOOLEAN,
                 locked : BOOLEAN]

\* The credentials are those of the verifier computed last for the row; the
\* console makes no account without its row per realm.
AccountOK ==
  /\ writeMode \in {"sql", "soap"} /\ verifiers \in Prints /\ console \subseteq Password
  /\ account \in AccountState
  /\ account.made <=> account.fp # 0
  /\ account.fp <= verifiers
  /\ writeMode = "soap" /\ account.made => account.counted

\* Links are numbered as they are issued, to an account that exists; those
\* issued before a completed change are used up.
LinkOK ==
  /\ \E n \in LinkIds : link \in [1..n -> [used : BOOLEAN, expires : Nat]]
  /\ mailbox \subseteq DOMAIN link
  /\ DOMAIN link # {} => account.made
  /\ closed \in LinkIds
  /\ \A l \in 1..closed : l \in DOMAIN link /\ link[l].used

\* A fingerprint that is still the account's was earned with its password.
Earned(fp, pass) == fp <= verifiers /\ (fp # 0 /\ fp = account.fp => pass = account.pass)

CookieOK ==
  /\ cookie \in [Visitor -> [fp : Prints, pass : Words]]
  /\ \A v \in Visitor : Earned(cookie[v].fp, cookie[v].pass)

\* What a request carries along: credentials it proved, links it burnt, the link
\* it came with.
Carries(v) ==
  /\ Earned(req[v].fp, req[v].pass)
  /\ \A l \in 1..req[v].older : l \in DOMAIN link /\ link[l].used
  /\ req[v].late => req[v].link \in 1..closed /\ req[v].kind = "reset"
  /\ req[v].kind = "reset" => req[v].link \in DOMAIN link
  /\ req[v].kind \in {"reset", "change"} => account.made
  /\ req[v].kind = "register" => req[v].pass \in Password

\* What it relies on at the step it is at.
AtStep(v) ==
  /\ req[v].late => req[v].step \in {"limited", "ready", "redeem"}
  /\ req[v].step \in {"token", "counter", "mail"} => account.made
  /\ req[v].step \in {"write", "burn"} => req[v].kind \in {"reset", "change"}
  /\ req[v].step \in ByInsert \cup ByConsole \cup {"lookup"} => req[v].kind = "register"
  /\ req[v].step \in ByInsert => writeMode = "sql"
  /\ req[v].step \in ByConsole => writeMode = "soap"
  /\ req[v].step = "counter" => account.mail
  /\ req[v].kind = "register" =>
       /\ req[v].step \in RegisterSteps
       /\ req[v].step \in {"authenticate", "respond"} => account.mail /\ account.counted

ReqOK(v) == req[v] \in ReqState /\ Carries(v) /\ AtStep(v)

RequestOK == req \in [Visitor -> ReqState] /\ \A v \in Visitor : ReqOK(v)

AccountInv == AccountOK /\ LinkOK /\ CookieOK /\ RequestOK

\* A form waits for the limiter just as long as the limiter is at work for it.
WaitsOK == \A v \in Visitor : req[v].step = "limited" <=> ask[v].step \in LimitSteps_

SiteInv == ProcessInv /\ AccountInv /\ WaitsOK

-----------------------------------------------------------------------------
(* The accounts: how a step changes what others rely on *)

LEMMA Numbers ==
  /\ Prints \subseteq Nat /\ 0 \in Prints /\ 1 \in Prints
  /\ LinkIds \subseteq Nat /\ 0 \in LinkIds /\ 1 \in LinkIds /\ 2 \in LinkIds
  /\ NoPassword \in Words /\ Password \subseteq Words
BY SiteAccountsAssumption DEF Prints, LinkIds, Words

\* What is made stays made, with credentials of its own or of a verifier just
\* computed; links stay, used ones used.
Grows ==
  /\ writeMode' = writeMode
  /\ verifiers' \in Prints /\ verifiers <= verifiers'
  /\ account.made => account'.made
  /\ account.mail => account'.mail
  /\ account.counted => account'.counted
  /\ \/ account'.fp = account.fp /\ account'.pass = account.pass
     \/ account'.fp > verifiers
  /\ \A l \in DOMAIN link : l \in DOMAIN link' /\ (link[l].used => link'[l].used)
  /\ closed' \in LinkIds /\ closed <= closed'

LEMMA EarnedKept ==
  ASSUME AccountOK, Grows, NEW fp \in Prints, NEW pass, Earned(fp, pass)
  PROVE  Earned(fp, pass)'
<1>1. fp \in Nat /\ verifiers \in Nat /\ verifiers' \in Nat
  BY Numbers DEF AccountOK, Grows
<1>2. fp <= verifiers /\ verifiers <= verifiers'
  BY DEF Earned, Grows
<1>3. fp <= verifiers'
  BY <1>1, <1>2
<1>4. CASE account'.fp = account.fp /\ account'.pass = account.pass
  BY <1>3, <1>4 DEF Earned
<1>5. CASE account'.fp > verifiers
  <2>1. fp # account'.fp
    BY <1>1, <1>2, <1>5
  <2> QED
    BY <1>3, <2>1 DEF Earned
<1> QED
  BY <1>4, <1>5 DEF Grows

LEMMA CarriesKept ==
  ASSUME AccountInv, Grows, NEW v \in Visitor,
         req'[v].fp = req[v].fp, req'[v].pass = req[v].pass, req'[v].older = req[v].older,
         req'[v].late = req[v].late, req'[v].link = req[v].link, req'[v].kind = req[v].kind
  PROVE  Carries(v)'
<1>1. /\ req[v] \in ReqState /\ Earned(req[v].fp, req[v].pass)
      /\ \A l \in 1..req[v].older : l \in DOMAIN link /\ link[l].used
      /\ req[v].late => req[v].link \in 1..closed /\ req[v].kind = "reset"
      /\ req[v].kind = "reset" => req[v].link \in DOMAIN link
      /\ req[v].kind \in {"reset", "change"} => account.made
      /\ req[v].kind = "register" => req[v].pass \in Password
  BY DEF AccountInv, RequestOK, ReqOK, Carries
<1>2. req[v].fp \in Prints
  BY <1>1 DEF ReqState
<1>3. \A fp \in Prints : \A pass : Earned(fp, pass) => Earned(fp, pass)'
  BY EarnedKept DEF AccountInv
<1>4. /\ req'[v].fp <= verifiers'
      /\ req'[v].fp # 0 /\ req'[v].fp = account'.fp => req'[v].pass = account'.pass
  BY <1>1, <1>2, <1>3 DEF Earned
<1>5. \A l \in 1..req'[v].older : l \in DOMAIN link' /\ link'[l].used
  BY <1>1 DEF Grows
<1>6. req'[v].late => req'[v].link \in 1..closed' /\ req'[v].kind = "reset"
  <2>1. closed \in Nat /\ closed' \in Nat /\ closed <= closed'
    BY Numbers DEF Grows, AccountInv, LinkOK
  <2>2. 1..closed \subseteq 1..closed'
    BY <2>1
  <2> QED
    BY <1>1, <2>2
<1>7. /\ req'[v].kind = "reset" => req'[v].link \in DOMAIN link'
      /\ req'[v].kind \in {"reset", "change"} => account'.made
      /\ req'[v].kind = "register" => req'[v].pass \in Password
  BY <1>1 DEF Grows
<1> QED
  BY <1>4, <1>5, <1>6, <1>7 DEF Carries, Earned

LEMMA ReqKept ==
  ASSUME AccountInv, Grows, NEW v \in Visitor, req'[v] = req[v]
  PROVE  ReqOK(v)'
<1>1. Carries(v)'
  BY CarriesKept
<1>2. req[v] \in ReqState /\ AtStep(v)
  BY DEF AccountInv, RequestOK, ReqOK
<1>3. AtStep(v)'
  BY <1>2 DEF AtStep, Grows
<1> QED
  BY <1>1, <1>2, <1>3 DEF ReqOK

LEMMA IdleOK ==
  /\ Idle \in ReqState
  /\ \A v \in Visitor : AccountOK' /\ req'[v] = Idle => ReqOK(v)'
<1>1. Idle \in ReqState
  BY Numbers DEF Idle, ReqState, ReqSteps
<1> SUFFICES ASSUME NEW v \in Visitor, AccountOK', req'[v] = Idle
             PROVE  ReqOK(v)'
  BY <1>1
<1>2. 0 <= verifiers'
  BY Numbers DEF AccountOK
<1>3. Carries(v)'
  BY <1>2 DEF Idle, Carries, Earned
<1>4. AtStep(v)'
  BY DEF Idle, AtStep, ByInsert, ByConsole
<1> QED
  BY <1>1, <1>3, <1>4 DEF ReqOK

LEMMA CookieKept ==
  ASSUME AccountInv, Grows, NEW v \in Visitor, cookie'[v] = cookie[v]
  PROVE  Earned(cookie[v].fp, cookie[v].pass)'
<1>1. Earned(cookie[v].fp, cookie[v].pass) /\ cookie[v].fp \in Prints
  BY DEF AccountInv, CookieOK
<1>2. \A fp \in Prints : \A pass : Earned(fp, pass) => Earned(fp, pass)'
  BY EarnedKept DEF AccountInv
<1> QED
  BY <1>1, <1>2 DEF Earned

LEMMA CookiesKept ==
  ASSUME AccountInv, Grows, UNCHANGED cookie
  PROVE  CookieOK'
<1>1. \A v \in Visitor : Earned(cookie[v].fp, cookie[v].pass)'
  BY CookieKept
<1> QED
  BY <1>1 DEF CookieOK, AccountInv

LEMMA NothingGrows ==
  ASSUME AccountInv, UNCHANGED <<writeMode, account, verifiers, console, link, mailbox, closed>>
  PROVE  Grows /\ AccountOK' /\ LinkOK'
<1>1. verifiers \in Nat /\ closed \in Nat
  BY Numbers DEF AccountInv, AccountOK, LinkOK
<1> QED
  BY <1>1 DEF AccountInv, AccountOK, LinkOK, Grows

\* One request is replaced, the others stay.
LEMMA Replaced ==
  ASSUME AccountInv, Grows, AccountOK', LinkOK', CookieOK', NEW v \in Visitor,
         req' \in [Visitor -> ReqState], ReqOK(v)',
         \A x \in Visitor \ {v} : req'[x] = req[x]
  PROVE  AccountInv'
<1>1. \A x \in Visitor : ReqOK(x)'
  BY ReqKept
<1> QED
  BY <1>1 DEF AccountInv, RequestOK

LEMMA NoneReplaced ==
  ASSUME AccountInv, Grows, AccountOK', LinkOK', CookieOK', UNCHANGED req
  PROVE  AccountInv'
<1>1. \A x \in Visitor : ReqOK(x)'
  BY ReqKept
<1> QED
  BY <1>1 DEF AccountInv, RequestOK

\* A request ends.
LEMMA Ended ==
  ASSUME AccountInv, Grows, AccountOK', LinkOK', CookieOK', NEW v \in Visitor, Done(v)
  PROVE  AccountInv'
<1>1. req' = [req EXCEPT ![v] = Idle] /\ req \in [Visitor -> ReqState]
  BY DEF Done, AccountInv, RequestOK
<1>2. /\ req' \in [Visitor -> ReqState] /\ req'[v] = Idle
      /\ \A x \in Visitor \ {v} : req'[x] = req[x]
  BY <1>1, IdleOK
<1> QED
  BY <1>2, IdleOK, Replaced

\* A request goes on with a step.
LEMMA NextFacts ==
  ASSUME AccountInv, NEW v \in Visitor, NEW step \in ReqSteps, Next_(v, step)
  PROVE  /\ req' \in [Visitor -> ReqState] /\ \A x \in Visitor \ {v} : req'[x] = req[x]
         /\ req'[v].step = step
         /\ req'[v].fp = req[v].fp /\ req'[v].pass = req[v].pass /\ req'[v].older = req[v].older
         /\ req'[v].late = req[v].late /\ req'[v].link = req[v].link /\ req'[v].kind = req[v].kind
         /\ req[v] \in ReqState
<1> DEFINE q == [req[v] EXCEPT !.step = step]
<1>1. req' = [req EXCEPT ![v] = q] /\ req \in [Visitor -> ReqState]
  BY DEF Next_, AccountInv, RequestOK
<1>2. /\ q \in ReqState /\ q.step = step
      /\ q.fp = req[v].fp /\ q.pass = req[v].pass /\ q.older = req[v].older
      /\ q.late = req[v].late /\ q.link = req[v].link /\ q.kind = req[v].kind
  BY <1>1 DEF ReqState
<1> HIDE DEF q
<1> QED
  BY <1>1, <1>2

LEMMA GoesOn ==
  ASSUME AccountInv, Grows, AccountOK', LinkOK', CookieOK',
         NEW v \in Visitor, NEW step \in ReqSteps, Next_(v, step), AtStep(v)'
  PROVE  AccountInv'
<1>1. /\ req' \in [Visitor -> ReqState] /\ \A x \in Visitor \ {v} : req'[x] = req[x]
      /\ req'[v].fp = req[v].fp /\ req'[v].pass = req[v].pass /\ req'[v].older = req[v].older
      /\ req'[v].late = req[v].late /\ req'[v].link = req[v].link /\ req'[v].kind = req[v].kind
  BY NextFacts
<1>2. Carries(v)'
  BY <1>1, CarriesKept
<1>3. ReqOK(v)'
  BY <1>1, <1>2 DEF ReqOK
<1> QED
  BY <1>1, <1>3, Replaced

-----------------------------------------------------------------------------
(* The accounts: beginning *)

\* A form arrives: its request replaces an idle one.
LEMMA BegunForm ==
  ASSUME AccountInv, NEW v \in Visitor, NEW q \in ReqState, Begin(v, q),
         UNCHANGED <<writeMode, account, verifiers, console, link, mailbox, cookie, closed>>,
         q.step = "limited", q.fp = 0, q.older = 0,
         q.kind \in {"reset", "change"} => account.made,
         q.kind = "register" => q.pass \in Password,
         q.kind = "reset" => q.link \in DOMAIN link,
         q.late => q.kind = "reset" /\ q.link \in 1..closed
  PROVE  AccountInv'
<1>1. Grows /\ AccountOK' /\ LinkOK' /\ CookieOK'
  BY NothingGrows, CookiesKept
<1>2. /\ req' \in [Visitor -> ReqState] /\ req'[v] = q
      /\ \A x \in Visitor \ {v} : req'[x] = req[x]
  BY DEF Begin, AccountInv, RequestOK
<1>3. verifiers' \in Nat
  BY <1>1, Numbers DEF Grows
<1>4. Carries(v)'
  BY <1>2, <1>3 DEF Carries, Earned
<1>5. AtStep(v)'
  BY <1>2 DEF AtStep, ByInsert, ByConsole, RegisterSteps
<1>6. ReqOK(v)'
  BY <1>2, <1>4, <1>5 DEF ReqOK
<1> QED
  BY <1>1, <1>2, <1>6, Replaced

LEMMA FormFacts ==
  ASSUME NEW kind \in Form, NEW pass \in Words
  PROVE  /\ Form_(kind, pass) \in ReqState
         /\ Form_(kind, pass).kind = kind /\ Form_(kind, pass).step = "limited"
         /\ Form_(kind, pass).pass = pass /\ Form_(kind, pass).fp = 0
         /\ Form_(kind, pass).older = 0 /\ ~Form_(kind, pass).late
BY Numbers DEF Form_, Idle, ReqState, ReqSteps, RegisterSteps

\* A visit that is no form leaves an idle request idle.
LEMMA BegunIdle ==
  ASSUME AccountInv, NEW v \in Visitor, Begin(v, Idle),
         UNCHANGED <<writeMode, account, verifiers, console, link, mailbox, closed>>,
         CookieOK'
  PROVE  AccountInv'
<1>1. Grows /\ AccountOK' /\ LinkOK'
  BY NothingGrows
<1>2. Done(v)
  BY DEF Begin, Done
<1> QED
  BY <1>1, <1>2, Ended

LEMMA CookieDropped ==
  ASSUME AccountInv, Grows, NEW v \in Visitor, cookie' = [cookie EXCEPT ![v] = NoCookie]
  PROVE  CookieOK'
<1>1. NoCookie \in [fp : Prints, pass : Words] /\ NoCookie.fp = 0
  BY Numbers DEF NoCookie
<1>2. /\ cookie' \in [Visitor -> [fp : Prints, pass : Words]] /\ cookie'[v] = NoCookie
      /\ \A x \in Visitor \ {v} : cookie'[x] = cookie[x]
  BY <1>1 DEF AccountInv, CookieOK
<1>3. verifiers' \in Nat
  BY Numbers DEF Grows
<1>4. ASSUME NEW x \in Visitor
      PROVE  Earned(cookie[x].fp, cookie[x].pass)'
  <2>1. CASE x = v
    BY <2>1, <1>1, <1>2, <1>3 DEF Earned
  <2>2. CASE x # v
    BY <2>2, <1>2, CookieKept
  <2> QED
    BY <2>1, <2>2
<1> QED
  BY <1>2, <1>4 DEF CookieOK

LEMMA VisitKeeps ==
  ASSUME AccountInv, NEW v \in Visitor, Visit(v)
  PROVE  AccountInv'
<1>1. ASSUME NEW kind \in Form, NEW p \in Words, BeginForm(v, kind, p)
      PROVE  AccountInv'
  <2> DEFINE q == Form_(kind, p)
  <2>1. /\ q \in ReqState /\ q.kind = kind /\ q.step = "limited" /\ q.pass = p
        /\ q.fp = 0 /\ q.older = 0 /\ ~q.late
    BY FormFacts
  <2>2. (kind \in {"register", "login"} /\ p # NoPassword) \/ kind = "forgot"
    BY <1>1 DEF BeginForm
  <2>3. /\ Begin(v, q)
        /\ UNCHANGED <<writeMode, account, verifiers, console, link, mailbox, cookie, closed>>
    BY <1>1 DEF BeginForm
  <2> HIDE DEF q
  <2> QED
    BY <2>1, <2>2, <2>3, BegunForm DEF Words
<1>2. ASSUME NEW l \in Links, NEW p \in Password, BeginReset(v, l, p)
      PROVE  AccountInv'
  <2> DEFINE q == [Form_("reset", p) EXCEPT !.link = l, !.late = l <= closed]
  <2>0. "reset" \in Form /\ p \in Words
    BY SiteAccountsAssumption, Numbers
  <2>1. l \in LinkIds /\ l \in Nat /\ l >= 1 /\ (l <= closed) \in BOOLEAN
    BY SiteAccountsAssumption DEF Links, LinkIds
  <2>2. /\ q \in ReqState /\ q.kind = "reset" /\ q.step = "limited" /\ q.link = l
        /\ q.fp = 0 /\ q.older = 0 /\ (q.late => l <= closed)
    <3>1. /\ Form_("reset", p) \in ReqState
          /\ Form_("reset", p).kind = "reset" /\ Form_("reset", p).step = "limited"
          /\ Form_("reset", p).fp = 0 /\ Form_("reset", p).older = 0
      BY <2>0, FormFacts
    <3> QED
      BY <2>1, <3>1 DEF ReqState
  <2>3. /\ Begin(v, q)
        /\ UNCHANGED <<writeMode, account, verifiers, console, link, mailbox, cookie, closed>>
        /\ l \in DOMAIN link
    BY <1>2 DEF BeginReset, AccountInv, LinkOK
  <2>4. account.made
    BY <2>3 DEF AccountInv, LinkOK
  <2>5. closed \in Nat
    BY Numbers DEF AccountInv, LinkOK
  <2>6. q.late => q.link \in 1..closed
    <3> HIDE DEF q
    <3> QED
      BY <2>1, <2>2, <2>5
  <2> HIDE DEF q
  <2> QED
    BY <2>2, <2>3, <2>4, <2>6, BegunForm
<1>3. ASSUME NEW c \in Password, NEW p \in Password, BeginChange(v, c, p)
      PROVE  AccountInv'
  <2>1. CASE Resolves(v)
    <3> DEFINE q == [Form_("change", p) EXCEPT !.current = c]
    <3>0. "change" \in Form /\ p \in Words /\ c \in Words
      BY SiteAccountsAssumption, Numbers
    <3>1. /\ q \in ReqState /\ q.kind = "change" /\ q.step = "limited"
          /\ q.fp = 0 /\ q.older = 0 /\ ~q.late
      <4>1. /\ Form_("change", p) \in ReqState
            /\ Form_("change", p).kind = "change" /\ Form_("change", p).step = "limited"
            /\ Form_("change", p).fp = 0 /\ Form_("change", p).older = 0
            /\ ~Form_("change", p).late
        BY <3>0, FormFacts
      <4> QED
        BY <3>0, <4>1 DEF ReqState
    <3>2. /\ Begin(v, q) /\ account.made
          /\ UNCHANGED <<writeMode, account, verifiers, console, link, mailbox, cookie, closed>>
      BY <1>3, <2>1 DEF BeginChange, Resolves
    <3> HIDE DEF q
    <3> QED
      BY <3>1, <3>2, BegunForm
  <2>2. CASE ~Resolves(v)
    <3>1. /\ Begin(v, Idle) /\ cookie' = [cookie EXCEPT ![v] = NoCookie]
          /\ UNCHANGED <<writeMode, account, verifiers, console, link, mailbox, closed>>
      BY <1>3, <2>2 DEF BeginChange
    <3> QED
      BY <3>1, NothingGrows, CookieDropped, BegunIdle
  <2> QED
    BY <2>1, <2>2
<1>4. ASSUME NEW a \in Answer, BeginAnswer(v, a)
      PROVE  AccountInv'
  BY <1>4, NothingGrows, CookiesKept, BegunIdle DEF BeginAnswer
<1>5. CASE DropCookie(v)
  <2>1. /\ cookie' = [cookie EXCEPT ![v] = NoCookie]
        /\ UNCHANGED <<writeMode, account, verifiers, console, link, mailbox, closed, req>>
    BY <1>5 DEF DropCookie
  <2> QED
    BY <2>1, NothingGrows, CookieDropped, NoneReplaced
<1> QED
  BY <1>1, <1>2, <1>3, <1>4, <1>5 DEF Visit, Words

-----------------------------------------------------------------------------
(* The accounts: handling *)

\* A step that reads.
LEMMA ReadsOnly ==
  ASSUME AccountInv, NEW v \in Visitor,
         UNCHANGED <<writeMode, account, verifiers, console, link, mailbox, cookie, closed>>,
         Done(v) \/ \E step \in ReqSteps : Next_(v, step) /\ AtStep(v)'
  PROVE  AccountInv'
<1>1. Grows /\ AccountOK' /\ LinkOK' /\ CookieOK'
  BY NothingGrows, CookiesKept
<1> QED
  BY <1>1, Ended, GoesOn

LEMMA StepsNamed ==
  {"idle", "limited", "lookup", "authenticate", "respond", "insert", "counter", "create",
   "find", "mail", "ready", "issue", "token", "redeem", "check", "write", "burn"} = ReqSteps
BY DEF ReqSteps, RegisterSteps, ByInsert, ByConsole

\* What is known of the request at a step, and of where it goes.
LEMMA HereFacts ==
  ASSUME AccountInv, NEW v \in Visitor
  PROVE  req[v] \in ReqState /\ Carries(v) /\ AtStep(v)
BY DEF AccountInv, RequestOK, ReqOK

LEMMA ReadingKeeps ==
  ASSUME AccountInv, NEW v \in Visitor,
         \/ Proceed(v) \/ Lookup(v) \/ FindCreated(v) \/ FindByMail(v)
         \/ RedeemLink(v) \/ CheckCurrent(v) \/ StatementFails(v)
         \/ \E found \in BOOLEAN : ResetTableReady(v, found) \/ InvalidateResetTokens(v, found)
  PROVE  AccountInv'
<1> USE HereFacts, StepsNamed
<1>1. CASE Proceed(v)
  <2>1. CASE Done(v)
    BY <1>1, <2>1, ReadsOnly DEF Proceed
  <2>2. CASE Next_(v, FirstStep(req[v].kind)) /\ Now(v, "limited")
    <3>1. PICK step \in {"lookup", "authenticate", "check", "ready"} :
            /\ step = FirstStep(req[v].kind)
            /\ req[v].kind = "register" <=> step = "lookup"
            /\ req[v].kind = "reset" => step = "ready"
      BY DEF FirstStep
    <3>2. step \in ReqSteps /\ Next_(v, step)
      BY <2>2, <3>1
    <3>3. req'[v].step = step /\ req'[v].kind = req[v].kind /\ req'[v].late = req[v].late
      BY <3>2, NextFacts
    <3>4. req[v].late => req[v].kind = "reset"
      BY DEF Carries
    <3>5. AtStep(v)'
      BY <3>1, <3>3, <3>4 DEF AtStep, ByInsert, ByConsole, RegisterSteps
    <3> QED
      BY <1>1, <3>2, <3>5, ReadsOnly DEF Proceed
  <2> QED
    BY <1>1, <2>1, <2>2 DEF Proceed
<1>2. CASE Lookup(v)
  <2>1. CASE Done(v)
    BY <1>2, <2>1, ReadsOnly DEF Lookup
  <2>2. CASE Next_(v, IF writeMode = "soap" THEN "create" ELSE "insert") /\ Now(v, "lookup")
    <3>1. PICK step \in {"create", "insert"} :
            step = IF writeMode = "soap" THEN "create" ELSE "insert"
      OBVIOUS
    <3>2. step \in ReqSteps /\ Next_(v, step)
      BY <2>2, <3>1
    <3>3. req'[v].step = step /\ req'[v].kind = req[v].kind /\ req'[v].late = req[v].late
      BY <3>2, NextFacts
    <3>4. req[v].kind = "register" /\ ~req[v].late /\ writeMode' = writeMode
      BY <1>2, <2>2 DEF AtStep, Now, Lookup
    <3>5. writeMode \in {"sql", "soap"}
      BY DEF AccountInv, AccountOK
    <3>6. AtStep(v)'
      BY <3>1, <3>3, <3>4, <3>5 DEF AtStep, ByInsert, ByConsole, RegisterSteps
    <3> QED
      BY <1>2, <3>2, <3>6, ReadsOnly DEF Lookup
  <2> QED
    BY <1>2, <2>1, <2>2 DEF Lookup
<1>3. CASE FindCreated(v)
  <2>1. CASE Done(v)
    BY <1>3, <2>1, ReadsOnly DEF FindCreated
  <2>2. CASE account.made /\ Next_(v, "mail") /\ Now(v, "find")
    <3>1. req'[v].step = "mail" /\ req'[v].kind = req[v].kind /\ req'[v].late = req[v].late
      BY <2>2, NextFacts
    <3>2. /\ req[v].kind = "register" /\ ~req[v].late /\ writeMode' = "soap" /\ account'.made
      BY <1>3, <2>2 DEF AtStep, Now, FindCreated, ByConsole
    <3>3. AtStep(v)'
      BY <3>1, <3>2 DEF AtStep, ByInsert, ByConsole, RegisterSteps
    <3> QED
      BY <1>3, <2>2, <3>3, ReadsOnly DEF FindCreated
  <2> QED
    BY <1>3, <2>1, <2>2 DEF FindCreated
<1>4. CASE FindByMail(v)
  <2>1. CASE Done(v)
    BY <1>4, <2>1, ReadsOnly DEF FindByMail
  <2>2. CASE account.made /\ Next_(v, "token") /\ In(v, "forgot", "issue")
    <3>1. req'[v].step = "token" /\ req'[v].kind = req[v].kind /\ req'[v].late = req[v].late
      BY <2>2, NextFacts
    <3>2. req[v].kind = "forgot" /\ ~req[v].late /\ account'.made
      BY <1>4, <2>2 DEF AtStep, In, FindByMail
    <3>3. AtStep(v)'
      BY <3>1, <3>2 DEF AtStep, ByInsert, ByConsole
    <3> QED
      BY <1>4, <2>2, <3>3, ReadsOnly DEF FindByMail
  <2> QED
    BY <1>4, <2>1, <2>2 DEF FindByMail
\* A link issued before a completed change is used, so it goes no further.
<1>5. CASE RedeemLink(v)
  <2>1. CASE Done(v)
    BY <1>5, <2>1, ReadsOnly DEF RedeemLink
  <2>2. CASE Redeemable(req[v].link) /\ Next_(v, "write") /\ In(v, "reset", "redeem")
    <3>1. req'[v].step = "write" /\ req'[v].kind = req[v].kind /\ req'[v].late = req[v].late
      BY <2>2, NextFacts
    <3>2. req[v].kind = "reset" /\ ~req[v].late
      <4>1. req[v].late => link[req[v].link].used
        BY DEF Carries, AccountInv, LinkOK
      <4> QED
        BY <2>2, <4>1 DEF Redeemable, In
    <3>3. AtStep(v)'
      BY <3>1, <3>2 DEF AtStep, ByInsert, ByConsole
    <3> QED
      BY <1>5, <2>2, <3>3, ReadsOnly DEF RedeemLink
  <2> QED
    BY <1>5, <2>1, <2>2 DEF RedeemLink
<1>6. CASE CheckCurrent(v)
  <2>1. CASE Done(v)
    BY <1>6, <2>1, ReadsOnly DEF CheckCurrent
  <2>2. CASE Next_(v, "write") /\ In(v, "change", "check")
    <3>1. req'[v].step = "write" /\ req'[v].kind = req[v].kind /\ req'[v].late = req[v].late
      BY <2>2, NextFacts
    <3>2. req[v].kind = "change" /\ ~req[v].late
      BY <2>2 DEF AtStep, In
    <3>3. AtStep(v)'
      BY <3>1, <3>2 DEF AtStep, ByInsert, ByConsole
    <3> QED
      BY <1>6, <2>2, <3>3, ReadsOnly DEF CheckCurrent
  <2> QED
    BY <1>6, <2>1, <2>2 DEF CheckCurrent
<1>7. CASE StatementFails(v)
  BY <1>7, ReadsOnly DEF StatementFails
<1>8. ASSUME NEW found \in BOOLEAN, ResetTableReady(v, found)
      PROVE  AccountInv'
  <2>1. CASE Done(v)
    BY <1>8, <2>1, ReadsOnly DEF ResetTableReady
  <2>2. CASE ~Done(v)
    <3>1. PICK step \in {"issue", "redeem"} :
            /\ step = IF req[v].kind = "forgot" THEN "issue" ELSE "redeem"
            /\ Next_(v, step)
      BY <1>8, <2>2 DEF ResetTableReady
    <3>2. req'[v].step = step /\ req'[v].kind = req[v].kind /\ req'[v].late = req[v].late
      BY <3>1, NextFacts
    <3>3. req[v].kind # "register" /\ (req[v].late => req[v].kind = "reset")
      BY <1>8 DEF AtStep, Carries, ResetTableReady, Now, RegisterSteps, ByInsert, ByConsole
    <3>4. AtStep(v)'
      BY <3>1, <3>2, <3>3 DEF AtStep, ByInsert, ByConsole
    <3> QED
      BY <1>8, <3>1, <3>4, ReadsOnly DEF ResetTableReady
  <2> QED
    BY <2>1, <2>2
<1>9. ASSUME NEW found \in BOOLEAN, InvalidateResetTokens(v, found)
      PROVE  AccountInv'
  <2>1. PICK step \in {"burn", "respond"} : Next_(v, step)
    BY <1>9 DEF InvalidateResetTokens
  <2>2. req'[v].step = step /\ req'[v].kind = req[v].kind /\ req'[v].late = req[v].late
    BY <2>1, NextFacts
  <2>3. req[v].kind = "change" /\ ~req[v].late
    BY <1>9 DEF Carries, InvalidateResetTokens, In
  <2>4. AtStep(v)'
    BY <2>2, <2>3 DEF AtStep, ByInsert, ByConsole
  <2> QED
    BY <1>9, <2>1, <2>4, ReadsOnly DEF InvalidateResetTokens
<1> QED
  BY <1>1, <1>2, <1>3, <1>4, <1>5, <1>6, <1>7, <1>8, <1>9

\* Credentials are written: the row is there, with a verifier nobody has seen.
LEMMA NewCredentials ==
  ASSUME AccountInv, ComputeVerifier, UNCHANGED <<writeMode, link, mailbox, closed>>,
         console' \subseteq console, NEW p \in Words,
         account' \in AccountState, account'.made, account'.fp = verifiers + 1, account'.pass = p,
         account.mail => account'.mail, account.counted => account'.counted,
         writeMode = "soap" => account'.counted
  PROVE  Grows /\ AccountOK' /\ LinkOK'
<1>1. verifiers \in Nat /\ verifiers' = verifiers + 1 /\ verifiers' \in Prints /\ verifiers' \in Nat
  BY SiteAccountsAssumption DEF AccountInv, AccountOK, ComputeVerifier, Prints
<1>2. account'.fp > verifiers /\ account'.fp # 0 /\ account'.fp <= verifiers'
      /\ verifiers <= verifiers'
  BY <1>1
<1>3. closed \in LinkIds /\ closed <= closed
  BY Numbers DEF AccountInv, LinkOK
<1>4. Grows
  BY <1>1, <1>2, <1>3 DEF Grows
<1>5. AccountOK'
  BY <1>1, <1>2 DEF AccountInv, AccountOK
<1>6. LinkOK'
  BY DEF AccountInv, LinkOK
<1> QED
  BY <1>4, <1>5, <1>6

LEMMA CredentialsTyped ==
  ASSUME AccountInv, ComputeVerifier, NEW p \in Words
  PROVE  /\ Credentials(account, p) \in AccountState
         /\ Credentials(account, p).fp = verifiers + 1 /\ Credentials(account, p).pass = p
         /\ Credentials(account, p).made = account.made
         /\ Credentials(account, p).mail = account.mail
         /\ Credentials(account, p).counted = account.counted
<1>1. verifiers + 1 \in Prints
  BY SiteAccountsAssumption DEF AccountInv, AccountOK, ComputeVerifier, Prints
<1> QED
  BY <1>1 DEF AccountInv, AccountOK, AccountState, Credentials

\* The row changes, but not its credentials.
LEMMA SameCredentials ==
  ASSUME AccountInv, UNCHANGED <<writeMode, verifiers, link, mailbox, closed>>,
         console' \subseteq Password,
         account' \in AccountState, account'.made = account.made, account'.fp = account.fp,
         account'.pass = account.pass,
         account.mail => account'.mail, account.counted => account'.counted
  PROVE  Grows /\ AccountOK' /\ LinkOK'
<1>1. verifiers \in Prints /\ closed \in LinkIds /\ verifiers <= verifiers /\ closed <= closed
  BY Numbers DEF AccountInv, AccountOK, LinkOK
<1>2. Grows
  BY <1>1 DEF Grows
<1>3. AccountOK'
  BY DEF AccountInv, AccountOK
<1>4. LinkOK'
  BY DEF AccountInv, LinkOK
<1> QED
  BY <1>2, <1>3, <1>4

LEMMA RegisterKeeps ==
  ASSUME AccountInv, NEW v \in Visitor,
         InsertAccount(v) \/ InsertCounter(v) \/ CreateByConsole(v) \/ SetMail(v)
  PROVE  AccountInv'
<1> USE HereFacts, StepsNamed
<1>0. account \in AccountState /\ console \subseteq Password
  BY DEF AccountInv, AccountOK
<1>1. CASE InsertAccount(v)
  <2>1. CASE account.made
    BY <1>1, <2>1, NothingGrows, CookiesKept, Ended DEF InsertAccount
  <2>2. CASE ~account.made
    <3> DEFINE row == Credentials(account, req[v].pass)
    <3>1. /\ ComputeVerifier /\ Next_(v, "counter")
          /\ account' = [row EXCEPT !.made = TRUE, !.mail = TRUE]
          /\ UNCHANGED <<writeMode, console, link, mailbox, cookie, closed>>
      BY <1>1, <2>2 DEF InsertAccount
    <3>2. req[v].kind = "register" /\ writeMode = "sql" /\ ~req[v].late /\ req[v].pass \in Words
      BY <1>1 DEF AtStep, InsertAccount, Now, ByInsert, ReqState
    <3>3. /\ row \in AccountState /\ row.fp = verifiers + 1 /\ row.pass = req[v].pass
          /\ row.counted = account.counted
      BY <3>1, <3>2, CredentialsTyped
    <3> HIDE DEF row
    <3>4. /\ account' \in AccountState /\ account'.made /\ account'.mail
          /\ account'.fp = verifiers + 1 /\ account'.pass = req[v].pass
          /\ account'.counted = account.counted
      BY <3>1, <3>3 DEF AccountState
    <3>5. Grows /\ AccountOK' /\ LinkOK'
      BY <3>1, <3>2, <3>4, NewCredentials
    <3>6. req'[v].step = "counter" /\ req'[v].kind = req[v].kind /\ req'[v].late = req[v].late
      BY <3>1, NextFacts
    <3>7. AtStep(v)'
      BY <3>1, <3>2, <3>4, <3>6 DEF AtStep, ByInsert, ByConsole, RegisterSteps
    <3> QED
      BY <3>1, <3>5, <3>7, CookiesKept, GoesOn
  <2> QED
    BY <2>1, <2>2
<1>2. CASE InsertCounter(v)
  <2>1. /\ account' = [account EXCEPT !.counted = TRUE] /\ Next_(v, "authenticate")
        /\ UNCHANGED <<writeMode, verifiers, console, link, mailbox, cookie, closed>>
    BY <1>2 DEF InsertCounter
  <2>2. /\ account' \in AccountState /\ account'.made = account.made /\ account'.fp = account.fp
        /\ account'.pass = account.pass /\ account'.mail = account.mail /\ account'.counted
    BY <1>0, <2>1 DEF AccountState
  <2>3. Grows /\ AccountOK' /\ LinkOK'
    BY <1>0, <2>1, <2>2, SameCredentials
  <2>4. req[v].kind = "register" /\ ~req[v].late /\ account.mail
    BY <1>2 DEF AtStep, InsertCounter, Now, ByInsert
  <2>5. req'[v].step = "authenticate" /\ req'[v].kind = req[v].kind /\ req'[v].late = req[v].late
    BY <2>1, NextFacts
  <2>6. AtStep(v)'
    BY <2>2, <2>4, <2>5 DEF AtStep, ByInsert, ByConsole, RegisterSteps
  <2> QED
    BY <2>1, <2>3, <2>6, CookiesKept, GoesOn
<1>3. CASE CreateByConsole(v)
  <2>1. CASE account.made
    BY <1>3, <2>1, NothingGrows, CookiesKept, Ended DEF CreateByConsole
  <2>2. CASE ~account.made
    <3>1. /\ console' = console \cup {req[v].pass} /\ (Next_(v, "find") \/ Done(v))
          /\ UNCHANGED <<writeMode, account, verifiers, link, mailbox, cookie, closed>>
      BY <1>3, <2>2 DEF CreateByConsole
    <3>2. req[v].kind = "register" /\ writeMode = "soap" /\ ~req[v].late /\ req[v].pass \in Password
      BY <1>3 DEF AtStep, Carries, CreateByConsole, Now, ByConsole
    <3>3. Grows /\ AccountOK' /\ LinkOK'
      BY <1>0, <3>1, <3>2, SameCredentials
    <3>4. CASE Next_(v, "find")
      <4>1. req'[v].step = "find" /\ req'[v].kind = req[v].kind /\ req'[v].late = req[v].late
        BY <3>4, NextFacts
      <4>2. AtStep(v)'
        BY <3>1, <3>2, <4>1 DEF AtStep, ByInsert, ByConsole, RegisterSteps
      <4> QED
        BY <3>1, <3>3, <3>4, <4>2, CookiesKept, GoesOn
    <3> QED
      BY <3>1, <3>3, <3>4, CookiesKept, Ended
  <2> QED
    BY <2>1, <2>2
<1>4. CASE SetMail(v)
  <2>1. /\ account' = [account EXCEPT !.mail = TRUE] /\ Next_(v, "authenticate")
        /\ UNCHANGED <<writeMode, verifiers, console, link, mailbox, cookie, closed>>
    BY <1>4 DEF SetMail
  <2>2. /\ account' \in AccountState /\ account'.made = account.made /\ account'.fp = account.fp
        /\ account'.pass = account.pass /\ account'.counted = account.counted /\ account'.mail
    BY <1>0, <2>1 DEF AccountState
  <2>3. Grows /\ AccountOK' /\ LinkOK'
    BY <1>0, <2>1, <2>2, SameCredentials
  <2>4. req[v].kind = "register" /\ ~req[v].late /\ account.made /\ writeMode = "soap"
    BY <1>4 DEF AtStep, SetMail, Now, ByConsole
  <2>5. account.counted
    BY <2>4 DEF AccountInv, AccountOK
  <2>6. req'[v].step = "authenticate" /\ req'[v].kind = req[v].kind /\ req'[v].late = req[v].late
    BY <2>1, NextFacts
  <2>7. AtStep(v)'
    BY <2>2, <2>4, <2>5, <2>6 DEF AtStep, ByInsert, ByConsole, RegisterSteps
  <2> QED
    BY <2>1, <2>3, <2>7, CookiesKept, GoesOn
<1> QED
  BY <1>1, <1>2, <1>3, <1>4

LEMMA AuthenticateKeeps ==
  ASSUME AccountInv, NEW v \in Visitor, Authenticate(v)
  PROVE  AccountInv'
<1>1. UNCHANGED <<writeMode, account, verifiers, console, link, mailbox, cookie, closed>>
  BY DEF Authenticate
<1>2. Grows /\ AccountOK' /\ LinkOK' /\ CookieOK'
  BY <1>1, NothingGrows, CookiesKept
<1>3. CASE Done(v)
  BY <1>2, <1>3, Ended
<1>4. CASE /\ Matches(v) /\ Now(v, "authenticate")
           /\ req' = [req EXCEPT ![v].step = "respond", ![v].fp = account.fp]
  <2> DEFINE q == [req[v] EXCEPT !.step = "respond", !.fp = account.fp]
  <2>1. req[v] \in ReqState /\ Carries(v) /\ AtStep(v) /\ account.fp \in Prints
    BY HereFacts DEF AccountInv, AccountOK, AccountState
  <2>2. /\ q \in ReqState /\ q.step = "respond" /\ q.fp = account.fp
        /\ q.pass = req[v].pass /\ q.older = req[v].older
        /\ q.late = req[v].late /\ q.link = req[v].link /\ q.kind = req[v].kind
    BY <2>1, StepsNamed DEF ReqState
  <2>3. req' = [req EXCEPT ![v] = q] /\ req \in [Visitor -> ReqState]
    BY <1>4 DEF AccountInv, RequestOK
  <2> HIDE DEF q
  <2>4. /\ req' \in [Visitor -> ReqState] /\ req'[v] = q
        /\ \A x \in Visitor \ {v} : req'[x] = req[x]
    BY <2>2, <2>3
  <2>5. account.fp <= verifiers /\ account.pass = req[v].pass
    BY <1>4 DEF AccountInv, AccountOK, Matches
  <2>6. Carries(v)'
    BY <1>1, <2>1, <2>2, <2>4, <2>5 DEF Carries, Earned
  <2>7. AtStep(v)'
    BY <1>1, <1>4, <2>1, <2>2, <2>4 DEF AtStep, Now, ByInsert, ByConsole, RegisterSteps
  <2> QED
    BY <1>2, <2>2, <2>4, <2>6, <2>7, Replaced DEF ReqOK
<1> QED
  BY <1>3, <1>4 DEF Authenticate

LEMMA RespondKeeps ==
  ASSUME AccountInv, NEW v \in Visitor, Respond(v)
  PROVE  AccountInv'
<1> DEFINE new == [fp |-> req[v].fp, pass |-> req[v].pass]
<1>1. /\ cookie' = [cookie EXCEPT ![v] = new] /\ Done(v)
      /\ closed' = IF closed < req[v].older THEN req[v].older ELSE closed
      /\ UNCHANGED <<writeMode, account, verifiers, console, link, mailbox>>
  BY DEF Respond, Reissued
<1>2. req[v] \in ReqState /\ Carries(v)
  BY HereFacts
<1>3. /\ closed \in LinkIds /\ req[v].older \in LinkIds /\ verifiers \in Prints
      /\ closed \in Nat /\ req[v].older \in Nat /\ verifiers \in Nat
  BY <1>2, Numbers DEF AccountInv, AccountOK, LinkOK, ReqState
<1>4. closed' \in LinkIds /\ closed <= closed' /\ (closed' = closed \/ closed' = req[v].older)
  BY <1>1, <1>3
<1>5. Grows
  BY <1>1, <1>3, <1>4 DEF Grows
<1>6. \A l \in 1..closed' : l \in DOMAIN link /\ link[l].used
  BY <1>2, <1>4 DEF Carries, AccountInv, LinkOK
<1>7. LinkOK'
  BY <1>1, <1>4, <1>6 DEF AccountInv, LinkOK
<1>8. AccountOK'
  BY <1>1 DEF AccountInv, AccountOK
<1>9. CookieOK'
  <2>1. new \in [fp : Prints, pass : Words] /\ Earned(req[v].fp, req[v].pass)
    BY <1>2 DEF ReqState, Carries
  <2>2. /\ cookie' \in [Visitor -> [fp : Prints, pass : Words]]
        /\ cookie'[v].fp = req[v].fp /\ cookie'[v].pass = req[v].pass
        /\ \A x \in Visitor \ {v} : cookie'[x] = cookie[x]
    BY <1>1, <2>1 DEF AccountInv, CookieOK
  <2>3. \A x \in Visitor : Earned(cookie[x].fp, cookie[x].pass)'
    BY <1>1, <2>1, <2>2 DEF Earned, AccountInv, CookieOK
  <2> QED
    BY <2>2, <2>3 DEF CookieOK
<1> QED
  BY <1>1, <1>5, <1>7, <1>8, <1>9, Ended

LEMMA LinksCounted ==
  ASSUME LinkOK
  PROVE  \E n \in LinkIds : /\ link \in [1..n -> [used : BOOLEAN, expires : Nat]]
                            /\ DOMAIN link = 1..n /\ Cardinality(DOMAIN link) = n /\ n \in Nat
<1>1. PICK n \in LinkIds : link \in [1..n -> [used : BOOLEAN, expires : Nat]]
  BY DEF LinkOK
<1>2. DOMAIN link = 1..n /\ n \in Nat
  BY <1>1, Numbers
<1>3. Cardinality(1..n) = n
  <2>1. 1 \in Int /\ n \in Int
    BY <1>2
  <2>2. Cardinality(1..n) = IF 1 > n THEN 0 ELSE n - 1 + 1
    BY <2>1, FS_Interval
  <2> QED
    BY <1>2, <2>2
<1> QED
  BY <1>1, <1>2, <1>3

LEMMA IssueKeeps ==
  ASSUME AccountInv, now \in Nat, NEW v \in Visitor, NEW delivered \in BOOLEAN,
         IssueLink(v, delivered)
  PROVE  AccountInv'
<1>1. PICK n \in LinkIds : /\ link \in [1..n -> [used : BOOLEAN, expires : Nat]]
                           /\ DOMAIN link = 1..n /\ Cardinality(DOMAIN link) = n /\ n \in Nat
  BY LinksCounted DEF AccountInv
<1> DEFINE l == n + 1
           row == [used |-> FALSE, expires |-> now + LinkLife]
<1>2. /\ n < MaxLink
      /\ link' = [x \in DOMAIN link \cup {l} |-> IF x = l THEN row ELSE link[x]]
      /\ mailbox' \subseteq mailbox \cup {l} /\ Done(v)
      /\ UNCHANGED <<writeMode, account, verifiers, console, cookie, closed>>
  BY <1>1 DEF IssueLink
<1>3. account.made
  BY HereFacts DEF AtStep, IssueLink, In
<1>4. row \in [used : BOOLEAN, expires : Nat]
  BY SiteAccountsAssumption
<1>5. l \in LinkIds /\ 1..l = (1..n) \cup {l} /\ l \notin 1..n
  BY <1>1, <1>2, SiteAccountsAssumption DEF LinkIds
<1> HIDE DEF l, row
<1>6. /\ link' \in [1..l -> [used : BOOLEAN, expires : Nat]] /\ DOMAIN link' = 1..l
      /\ \A x \in DOMAIN link : x \in DOMAIN link' /\ link'[x] = link[x]
  BY <1>1, <1>2, <1>4, <1>5
<1>7. LinkOK'
  <2>1. mailbox' \subseteq DOMAIN link'
    BY <1>1, <1>2, <1>5, <1>6 DEF AccountInv, LinkOK
  <2>2. \A x \in 1..closed' : x \in DOMAIN link' /\ link'[x].used
    BY <1>2, <1>6 DEF AccountInv, LinkOK
  <2> QED
    BY <1>2, <1>3, <1>5, <1>6, <2>1, <2>2 DEF AccountInv, LinkOK
<1>8. Grows
  <2>1. verifiers \in Prints /\ closed \in LinkIds /\ verifiers <= verifiers /\ closed <= closed
    BY Numbers DEF AccountInv, AccountOK, LinkOK
  <2> QED
    BY <1>2, <1>6, <2>1 DEF Grows
<1>9. AccountOK'
  BY <1>2 DEF AccountInv, AccountOK
<1> QED
  BY <1>2, <1>7, <1>8, <1>9, CookiesKept, Ended

LEMMA WriteKeeps ==
  ASSUME AccountInv, NEW v \in Visitor, WriteCredentials(v)
  PROVE  AccountInv'
<1>1. /\ Now(v, "write") /\ ComputeVerifier /\ account' = Credentials(account, req[v].pass)
      /\ req' = [req EXCEPT ![v].step = IF req[v].kind = "reset" THEN "burn" ELSE "ready",
                            ![v].fp = verifiers + 1]
      /\ UNCHANGED <<writeMode, console, link, mailbox, cookie, closed>>
  BY DEF WriteCredentials
<1>2. req[v] \in ReqState /\ Carries(v) /\ AtStep(v) /\ req[v].pass \in Words
  BY HereFacts DEF ReqState
<1>3. account.made /\ req[v].kind \in {"reset", "change"} /\ ~req[v].late
  BY <1>1, <1>2 DEF AtStep, Carries, Now
<1>4. /\ account' \in AccountState /\ account'.made /\ account'.fp = verifiers + 1
      /\ account'.pass = req[v].pass /\ account'.mail = account.mail
      /\ account'.counted = account.counted
  BY <1>1, <1>2, <1>3, CredentialsTyped
<1>5. writeMode = "soap" => account'.counted
  BY <1>3, <1>4 DEF AccountInv, AccountOK
<1>6. Grows /\ AccountOK' /\ LinkOK'
  BY <1>1, <1>2, <1>4, <1>5, NewCredentials
<1> DEFINE step == IF req[v].kind = "reset" THEN "burn" ELSE "ready"
           q == [req[v] EXCEPT !.step = step, !.fp = verifiers + 1]
<1>7. step \in {"burn", "ready"} /\ step \in ReqSteps
  BY StepsNamed
<1>8. verifiers + 1 \in Prints /\ verifiers' = verifiers + 1 /\ verifiers + 1 <= verifiers'
  BY <1>1, SiteAccountsAssumption DEF ComputeVerifier, AccountInv, AccountOK, Prints
<1>9. req' = [req EXCEPT ![v] = q] /\ req \in [Visitor -> ReqState]
  BY <1>1 DEF AccountInv, RequestOK
<1> HIDE DEF step
<1>10. /\ q \in ReqState /\ q.step = step /\ q.fp = verifiers + 1
       /\ q.pass = req[v].pass /\ q.older = req[v].older
       /\ q.late = req[v].late /\ q.link = req[v].link /\ q.kind = req[v].kind
  BY <1>2, <1>7, <1>8 DEF ReqState
<1> HIDE DEF q
<1>11. /\ req' \in [Visitor -> ReqState] /\ req'[v] = q
       /\ \A x \in Visitor \ {v} : req'[x] = req[x]
  BY <1>9, <1>10
<1>12. Carries(v)'
  BY <1>1, <1>2, <1>3, <1>4, <1>8, <1>10, <1>11 DEF Carries, Earned
<1>13. AtStep(v)'
  BY <1>3, <1>7, <1>10, <1>11 DEF AtStep, ByInsert, ByConsole
<1> QED
  BY <1>1, <1>6, <1>10, <1>11, <1>12, <1>13, CookiesKept, Replaced DEF ReqOK

LEMMA BurnKeeps ==
  ASSUME AccountInv, NEW v \in Visitor, BurnLinks(v)
  PROVE  AccountInv'
<1>1. PICK n \in LinkIds : /\ link \in [1..n -> [used : BOOLEAN, expires : Nat]]
                           /\ DOMAIN link = 1..n /\ Cardinality(DOMAIN link) = n /\ n \in Nat
  BY LinksCounted DEF AccountInv
<1>2. /\ Now(v, "burn") /\ link' = [l \in DOMAIN link |-> [link[l] EXCEPT !.used = TRUE]]
      /\ UNCHANGED <<writeMode, account, verifiers, console, mailbox, cookie>>
  BY DEF BurnLinks, Burnt
<1>3. /\ link' \in [1..n -> [used : BOOLEAN, expires : Nat]] /\ DOMAIN link' = DOMAIN link
      /\ \A l \in 1..n : link'[l].used
  BY <1>1, <1>2
<1>4. closed \in LinkIds /\ closed \in Nat /\ \A l \in 1..closed : l \in 1..n
  BY <1>1, Numbers DEF AccountInv, LinkOK
<1>5. closed <= n
  <2>1. CASE closed = 0
    BY <2>1, <1>1
  <2>2. CASE closed # 0
    <3>1. closed \in 1..closed
      BY <2>2, <1>4
    <3> QED
      BY <3>1, <1>4, <1>1
  <2> QED
    BY <2>1, <2>2
<1>6. closed' = closed \/ closed' = n
  BY <1>1 DEF BurnLinks
<1>7. closed' \in LinkIds /\ closed <= closed' /\ closed' <= n
  BY <1>1, <1>4, <1>5, <1>6
<1>8. Grows
  <2>1. verifiers \in Prints /\ verifiers <= verifiers
    BY Numbers DEF AccountInv, AccountOK
  <2> QED
    BY <1>1, <1>2, <1>3, <1>7, <2>1 DEF Grows
<1>9. AccountOK' /\ CookieOK'
  BY <1>2, <1>8, CookiesKept DEF AccountInv, AccountOK
<1>10. LinkOK'
  <2>1. \A l \in 1..closed' : l \in 1..n
    BY <1>1, <1>7, Numbers
  <2> QED
    BY <1>1, <1>2, <1>3, <1>7, <2>1 DEF AccountInv, LinkOK
<1>11. CASE Done(v)
  BY <1>8, <1>9, <1>10, <1>11, Ended
<1>12. CASE req' = [req EXCEPT ![v].step = "respond", ![v].older = Cardinality(DOMAIN link)]
            /\ req[v].kind # "reset"
  <2> DEFINE q == [req[v] EXCEPT !.step = "respond", !.older = n]
  <2>1. req[v] \in ReqState /\ Carries(v) /\ AtStep(v)
    BY HereFacts
  <2>2. req' = [req EXCEPT ![v] = q] /\ req \in [Visitor -> ReqState]
    BY <1>1, <1>12 DEF AccountInv, RequestOK
  <2>3. /\ q \in ReqState /\ q.step = "respond" /\ q.older = n
        /\ q.pass = req[v].pass /\ q.fp = req[v].fp
        /\ q.late = req[v].late /\ q.link = req[v].link /\ q.kind = req[v].kind
    BY <2>1, StepsNamed DEF ReqState
  <2> HIDE DEF q
  <2>4. /\ req' \in [Visitor -> ReqState] /\ req'[v] = q
        /\ \A x \in Visitor \ {v} : req'[x] = req[x]
    BY <2>2, <2>3
  <2>5. req[v].kind = "change" /\ ~req[v].late
    BY <1>2, <1>12, <2>1 DEF AtStep, Carries, Now
  <2>6. Carries(v)'
    BY <1>1, <1>2, <1>3, <2>1, <2>3, <2>4, <2>5 DEF Carries, Earned
  <2>7. AtStep(v)'
    BY <2>3, <2>4, <2>5 DEF AtStep, ByInsert, ByConsole
  <2> QED
    BY <1>8, <1>9, <1>10, <2>3, <2>4, <2>6, <2>7, Replaced DEF ReqOK
<1> QED
  BY <1>11, <1>12 DEF BurnLinks

LEMMA OthersKeep ==
  ASSUME AccountInv, Others
  PROVE  AccountInv'
<1>0. account \in AccountState /\ console \subseteq Password /\ Password \subseteq Words
  BY Numbers DEF AccountInv, AccountOK
<1>1. ASSUME NEW p \in Password, ConsoleCreates(p)
      PROVE  AccountInv'
  <2>1. CASE account.made
    <3>1. /\ console' \subseteq Password
          /\ UNCHANGED <<account, writeMode, verifiers, link, mailbox, cookie, req, closed>>
      BY <1>0, <1>1, <2>1 DEF ConsoleCreates
    <3> QED
      BY <1>0, <3>1, SameCredentials, CookiesKept, NoneReplaced
  <2>2. CASE ~account.made
    <3> DEFINE row == Credentials(account, p)
    <3>1. /\ ComputeVerifier /\ account' = [row EXCEPT !.made = TRUE, !.counted = TRUE]
          /\ console' \subseteq console
          /\ UNCHANGED <<writeMode, link, mailbox, cookie, req, closed>>
      BY <1>1, <2>2 DEF ConsoleCreates
    <3>2. /\ row \in AccountState /\ row.fp = verifiers + 1 /\ row.pass = p
          /\ row.mail = account.mail
      BY <1>0, <3>1, CredentialsTyped
    <3> HIDE DEF row
    <3>3. /\ account' \in AccountState /\ account'.made /\ account'.counted
          /\ account'.fp = verifiers + 1 /\ account'.pass = p /\ account'.mail = account.mail
      BY <3>1, <3>2 DEF AccountState
    <3>4. Grows /\ AccountOK' /\ LinkOK'
      BY <1>0, <3>1, <3>3, NewCredentials
    <3> QED
      BY <3>1, <3>4, CookiesKept, NoneReplaced
  <2> QED
    BY <2>1, <2>2
<1>2. ASSUME NEW p \in Password, SetInTheGame(p)
      PROVE  AccountInv'
  <2>1. /\ account.made /\ ComputeVerifier /\ account' = Credentials(account, p)
        /\ UNCHANGED <<writeMode, console, link, mailbox, cookie, req, closed>>
    BY <1>2 DEF SetInTheGame
  <2>2. /\ account' \in AccountState /\ account'.made /\ account'.fp = verifiers + 1
        /\ account'.pass = p /\ account'.mail = account.mail /\ account'.counted = account.counted
    BY <1>0, <2>1, CredentialsTyped
  <2>3. writeMode = "soap" => account'.counted
    BY <2>1, <2>2 DEF AccountInv, AccountOK
  <2>4. Grows /\ AccountOK' /\ LinkOK'
    BY <1>0, <2>1, <2>2, <2>3, NewCredentials
  <2> QED
    BY <2>1, <2>4, CookiesKept, NoneReplaced
<1>3. CASE Lock
  <2>1. /\ account' = [account EXCEPT !.locked = TRUE]
        /\ UNCHANGED <<writeMode, verifiers, console, link, mailbox, cookie, req, closed>>
    BY <1>3 DEF Lock
  <2>2. /\ account' \in AccountState /\ account'.made = account.made /\ account'.fp = account.fp
        /\ account'.pass = account.pass /\ account'.mail = account.mail
        /\ account'.counted = account.counted
    BY <1>0, <2>1 DEF AccountState
  <2>3. Grows /\ AccountOK' /\ LinkOK'
    BY <1>0, <2>1, <2>2, SameCredentials
  <2> QED
    BY <2>1, <2>3, CookiesKept, NoneReplaced
<1>4. CASE Elsewhere
  BY <1>4, NothingGrows, CookiesKept, NoneReplaced DEF Elsewhere
<1> QED
  BY <1>1, <1>2, <1>3, <1>4 DEF Others

LEMMA AccountStep ==
  ASSUME AccountInv, now \in Nat, [Next]_vars
  PROVE  AccountInv'
<1>1. ASSUME NEW v \in Visitor, Handle(v)
      PROVE  AccountInv'
  BY <1>1, ReadingKeeps, RegisterKeeps, AuthenticateKeeps, RespondKeeps, IssueKeeps, WriteKeeps,
     BurnKeeps DEF Handle
<1>2. ASSUME UNCHANGED accountVars
      PROVE  AccountInv'
  <2>1. /\ UNCHANGED <<writeMode, account, verifiers, console, link, mailbox, closed>>
        /\ UNCHANGED <<cookie, req>>
    BY <1>2 DEF accountVars
  <2> QED
    BY <2>1, NothingGrows, CookiesKept, NoneReplaced
<1>3. \A v \in Visitor : InProcess(v) => UNCHANGED accountVars
  BY DEF InProcess
<1>4. UNCHANGED vars => UNCHANGED accountVars
  BY DEF vars
<1> QED
  BY <1>1, <1>2, <1>3, <1>4, VisitKeeps, OthersKeep DEF Next

LEMMA AccountStarts == Init => AccountInv
<1> SUFFICES ASSUME Init
             PROVE  AccountInv
  OBVIOUS
<1>1. /\ console = {} /\ closed = 0 /\ req = [v \in Visitor |-> Idle]
      /\ Unknown \/ Established
  BY DEF Init
<1>2. NoCookie \in [fp : Prints, pass : Words] /\ NoCookie.fp = 0 /\ 0 <= 0 /\ 0 <= 1 /\ 1 <= 1
  BY Numbers DEF NoCookie
<1>3. ASSUME Unknown
      PROVE  AccountOK /\ LinkOK /\ CookieOK
  <2>1. NoAccount \in AccountState /\ ~NoAccount.made /\ NoAccount.fp = 0
    BY Numbers DEF NoAccount, AccountState
  <2>2. AccountOK
    BY <1>1, <1>2, <1>3, <2>1, Numbers DEF Unknown, AccountOK
  <2>3. LinkOK
    <3>1. link = [l \in {} |-> [used |-> FALSE, expires |-> 0]] /\ mailbox = {} /\ 1..0 = {}
      BY <1>3 DEF Unknown
    <3>2. link \in [1..0 -> [used : BOOLEAN, expires : Nat]] /\ DOMAIN link = {}
      BY <3>1
    <3> QED
      BY <1>1, <3>1, <3>2, Numbers DEF LinkOK
  <2>4. CookieOK
    BY <1>2, <1>3 DEF Unknown, CookieOK, Earned
  <2> QED
    BY <2>2, <2>3, <2>4
<1>4. ASSUME Established
      PROVE  AccountOK /\ LinkOK /\ CookieOK
  <2>1. PICK p \in Password :
          account = [made |-> TRUE, fp |-> 1, pass |-> p, mail |-> TRUE, counted |-> TRUE,
                     locked |-> FALSE]
    BY <1>4 DEF Established
  <2>2. account \in AccountState /\ account.made /\ account.fp = 1 /\ account.pass \in Words
    BY <2>1, Numbers DEF AccountState
  <2>3. verifiers = 1 /\ writeMode = "sql"
    BY <1>4 DEF Established
  <2>4. AccountOK
    BY <1>1, <1>2, <2>2, <2>3, Numbers DEF AccountOK
  <2>5. LinkOK
    <3>1. /\ link = [l \in 1..2 |-> [used |-> FALSE, expires |-> LinkLife]]
          /\ mailbox = 1..2 /\ 1..0 = {}
      BY <1>4 DEF Established
    <3>2. link \in [1..2 -> [used : BOOLEAN, expires : Nat]] /\ DOMAIN link = 1..2
      BY <3>1, SiteAccountsAssumption
    <3> QED
      BY <1>1, <2>2, <3>1, <3>2, Numbers DEF LinkOK
  <2>6. CookieOK
    <3> DEFINE theirs == [fp |-> 1, pass |-> account.pass]
    <3>1. cookie \in [Visitor -> {NoCookie, theirs}]
      BY <1>4 DEF Established
    <3>2. theirs \in [fp : Prints, pass : Words] /\ theirs.fp = 1 /\ theirs.pass = account.pass
      BY <2>2, Numbers
    <3> HIDE DEF theirs
    <3>3. \A v \in Visitor : cookie[v] = NoCookie \/ cookie[v] = theirs
      BY <3>1
    <3>4. \A v \in Visitor : Earned(cookie[v].fp, cookie[v].pass)
      BY <1>2, <2>2, <2>3, <3>2, <3>3 DEF Earned
    <3>5. cookie \in [Visitor -> [fp : Prints, pass : Words]]
      BY <1>2, <3>1, <3>2
    <3> QED
      BY <3>4, <3>5 DEF CookieOK
  <2> QED
    BY <2>4, <2>5, <2>6
<1>5. RequestOK
  <2>1. /\ Idle \in ReqState /\ Idle.fp = 0 /\ Idle.older = 0 /\ Idle.late = FALSE
        /\ Idle.kind = "none" /\ Idle.step = "idle"
    BY IdleOK DEF Idle
  <2>2. 0 <= verifiers /\ 1..0 = {}
    <3>1. verifiers \in Prints
      BY <1>1, <1>3, <1>4 DEF AccountOK
    <3> QED
      BY <3>1, Numbers
  <2>3. \A v \in Visitor : Carries(v)
    BY <1>1, <2>1, <2>2 DEF Carries, Earned
  <2>4. \A v \in Visitor : AtStep(v)
    BY <1>1, <2>1 DEF AtStep, ByInsert, ByConsole
  <2> QED
    BY <1>1, <2>1, <2>3, <2>4 DEF RequestOK, ReqOK
<1> QED
  BY <1>1, <1>3, <1>4, <1>5 DEF AccountInv

-----------------------------------------------------------------------------
(* The two together *)

\* One visitor's request is handled, and does not wait for the limiter.
Handled(v) ==
  /\ UNCHANGED ask
  /\ req[v].step # "limited" /\ req'[v].step # "limited"
  /\ \A x \in Visitor \ {v} : req'[x] = req[x]

LEMMA DoneHandles ==
  ASSUME AccountInv, NEW v \in Visitor, req[v].step # "limited", UNCHANGED ask,
         Done(v) \/ \E step \in ReqSteps \ {"limited"} : Next_(v, step)
  PROVE  Handled(v)
<1>1. CASE Done(v)
  BY <1>1 DEF Done, Idle, Handled, AccountInv, RequestOK
<1>2. CASE \E step \in ReqSteps \ {"limited"} : Next_(v, step)
  BY <1>2, NextFacts DEF Handled
<1> QED
  BY <1>1, <1>2

LEMMA HandleWaits ==
  ASSUME AccountInv, NEW v \in Visitor, Handle(v), ~Proceed(v)
  PROVE  Handled(v)
<1> USE StepsNamed
<1>1. CASE Lookup(v) \/ InsertAccount(v) \/ InsertCounter(v)
  BY <1>1, DoneHandles DEF Lookup, InsertAccount, InsertCounter, Now, processVars
<1>2. CASE CreateByConsole(v) \/ FindCreated(v) \/ SetMail(v)
  BY <1>2, DoneHandles DEF CreateByConsole, FindCreated, SetMail, Now, processVars
<1>3. CASE FindByMail(v) \/ RedeemLink(v) \/ CheckCurrent(v)
  BY <1>3, DoneHandles DEF FindByMail, RedeemLink, CheckCurrent, In, processVars
<1>4. CASE Respond(v)
  BY <1>4, DoneHandles DEF Respond, Now, processVars
<1>5. CASE StatementFails(v)
  BY <1>5, DoneHandles DEF StatementFails, Statements, rest
<1>6. ASSUME NEW b \in BOOLEAN, ResetTableReady(v, b) \/ InvalidateResetTokens(v, b)
      PROVE  Handled(v)
  BY <1>6, DoneHandles DEF ResetTableReady, InvalidateResetTokens, Now, In
<1>7. ASSUME NEW b \in BOOLEAN, IssueLink(v, b)
      PROVE  Handled(v)
  BY <1>7, DoneHandles DEF IssueLink, In, processVars
<1>8. CASE Authenticate(v)
  <2>1. UNCHANGED ask /\ req[v].step # "limited"
    BY <1>8 DEF Authenticate, Now, processVars
  <2>2. CASE req' = [req EXCEPT ![v].step = "respond", ![v].fp = account.fp]
    BY <2>1, <2>2 DEF Handled, AccountInv, RequestOK, ReqState
  <2> QED
    BY <1>8, <2>1, <2>2, DoneHandles DEF Authenticate
<1>9. CASE WriteCredentials(v)
  <2>1. UNCHANGED ask /\ req[v].step # "limited"
    BY <1>9 DEF WriteCredentials, Now, processVars
  <2>2. PICK step \in {"burn", "ready"} :
          req' = [req EXCEPT ![v].step = step, ![v].fp = verifiers + 1]
    BY <1>9 DEF WriteCredentials
  <2> QED
    BY <2>1, <2>2 DEF Handled, AccountInv, RequestOK, ReqState
<1>10. CASE BurnLinks(v)
  <2>1. UNCHANGED ask /\ req[v].step # "limited"
    BY <1>10 DEF BurnLinks, Now, processVars
  <2>2. CASE req' = [req EXCEPT ![v].step = "respond", ![v].older = Cardinality(DOMAIN link)]
    BY <2>1, <2>2 DEF Handled, AccountInv, RequestOK, ReqState
  <2> QED
    BY <1>10, <2>1, <2>2, DoneHandles DEF BurnLinks
<1> QED
  BY <1>1, <1>2, <1>3, <1>4, <1>5, <1>6, <1>7, <1>8, <1>9, <1>10 DEF Handle

LEMMA VisitWaits ==
  ASSUME SiteInv, NEW v \in Visitor, Visit(v)
  PROVE  WaitsOK'
<1>0. /\ req \in [Visitor -> ReqState] /\ ask \in [Visitor -> AskState]
      /\ ClockOK /\ AskOK
  BY DEF SiteInv, AccountInv, RequestOK, ProcessInv, AskOK
\* A form: the limiter starts on it.
<1>1. ASSUME NEW q, Begin(v, q), q.step = "limited", Limited(v)
      PROVE  WaitsOK'
  <2>1. req'[v].step = "limited" /\ \A x \in Visitor \ {v} : req'[x] = req[x]
    BY <1>0, <1>1 DEF Begin
  <2>2. ask'[v].step = "limit" /\ \A x \in Visitor \ {v} : ask'[x] = ask[x]
    BY <1>0, <1>1 DEF Limited, NoAsk
  <2> QED
    BY <2>1, <2>2 DEF SiteInv, WaitsOK, LimitSteps_
\* Not a form: nothing waits before or after.
<1>2. ASSUME Begin(v, Idle), ask'[v].step \in {"idle", "fetch"},
             \A x \in Visitor \ {v} : ask'[x] = ask[x]
      PROVE  WaitsOK'
  <2>1. req'[v].step = "idle" /\ \A x \in Visitor \ {v} : req'[x] = req[x]
    BY <1>0, <1>2 DEF Begin, Idle
  <2> QED
    BY <1>2, <2>1 DEF SiteInv, WaitsOK, LimitSteps_
<1>3. ASSUME NEW kind \in Form, NEW p \in Words, BeginForm(v, kind, p)
      PROVE  WaitsOK'
  BY <1>1, <1>3 DEF BeginForm, Form_, Idle
<1>4. ASSUME NEW l \in Links, NEW p \in Password, BeginReset(v, l, p)
      PROVE  WaitsOK'
  BY <1>1, <1>4 DEF BeginReset, Form_, Idle
<1>5. ASSUME NEW c \in Password, NEW p \in Password, BeginChange(v, c, p)
      PROVE  WaitsOK'
  <2>1. CASE Resolves(v)
    BY <1>1, <1>5, <2>1 DEF BeginChange, Form_, Idle
  <2>2. CASE ~Resolves(v)
    BY <1>2, <1>5, <2>2 DEF BeginChange, Begin, AskAt
  <2> QED
    BY <2>1, <2>2
<1>6. ASSUME NEW a \in Answer, BeginAnswer(v, a)
      PROVE  WaitsOK'
  <2>1. Looks(v, a) /\ Begin(v, Idle) /\ AskAt(v, "idle")
    BY <1>6 DEF BeginAnswer, Begin, Looks
  <2>2. ask'[v].step \in {"idle", "fetch"} /\ \A x \in Visitor \ {v} : ask'[x] = ask[x]
    BY <1>0, <2>1, LooksMoves DEF AskAt
  <2> QED
    BY <1>2, <2>1, <2>2
<1>7. DropCookie(v) => WaitsOK'
  BY DEF DropCookie, rest, SiteInv, WaitsOK
<1> QED
  BY <1>3, <1>4, <1>5, <1>6, <1>7 DEF Visit, Words

LEMMA WaitsStep ==
  ASSUME SiteInv, [Next]_vars
  PROVE  WaitsOK'
<1>0. /\ req \in [Visitor -> ReqState] /\ ask \in [Visitor -> AskState]
      /\ ClockOK /\ AskOK /\ BucketOK /\ ReadsOK /\ AccountInv
      /\ source \in [Source -> Version]
  BY DEF SiteInv, AccountInv, RequestOK, ProcessInv, AskOK, LimitInv, ServedInv, SourcesOK
<1>1. ASSUME NEW v \in Visitor, Handle(v)
      PROVE  WaitsOK'
  <2>1. CASE Proceed(v)
    <3>1. ask'[v].step = "idle" /\ \A x \in Visitor \ {v} : ask'[x] = ask[x]
      BY <1>0, <2>1 DEF Proceed, NoAsk
    <3>2. CASE Done(v)
      BY <1>0, <3>1, <3>2 DEF Done, Idle, SiteInv, WaitsOK, LimitSteps_
    <3>3. CASE Next_(v, FirstStep(req[v].kind))
      <4>1. PICK step \in {"lookup", "authenticate", "check", "ready"} : Next_(v, step)
        BY <3>3 DEF FirstStep
      <4>2. req'[v].step = step /\ \A x \in Visitor \ {v} : req'[x] = req[x]
        BY <1>0, <4>1, NextFacts, StepsNamed
      <4> QED
        BY <3>1, <4>2 DEF SiteInv, WaitsOK, LimitSteps_
    <3> QED
      BY <2>1, <3>2, <3>3 DEF Proceed
  <2>2. CASE ~Proceed(v)
    BY <1>0, <1>1, <2>2, HandleWaits DEF Handled, SiteInv, WaitsOK
  <2> QED
    BY <2>1, <2>2
<1>2. ASSUME NEW v \in Visitor, InProcess(v)
      PROVE  WaitsOK'
  <2>1. UNCHANGED req
    BY <1>2 DEF InProcess, accountVars
  <2>2. CASE LimitSteps(v)
    BY <1>0, <2>1, <2>2, LimitMoves DEF SiteInv, WaitsOK
  <2>3. CASE StoreAnswer(v)
    <3>1. ask[v].step = "fetch" /\ ask' = [ask EXCEPT ![v] = NoAsk]
      BY <2>3 DEF StoreAnswer, AskAt
    <3> QED
      BY <1>0, <2>1, <3>1, NoAskTyped DEF SiteInv, WaitsOK, LimitSteps_
  <2>4. ASSUME NEW s \in Source, Fetch(v, s)
        PROVE  WaitsOK'
    BY <1>0, <2>1, <2>4, FetchMoves DEF SiteInv, WaitsOK, LimitSteps_
  <2> QED
    BY <1>2, <2>2, <2>3, <2>4 DEF InProcess, AnswerSteps
<1>3. Others \/ UNCHANGED vars => UNCHANGED <<req, ask>>
  BY DEF Others, ConsoleCreates, SetInTheGame, Lock, Elsewhere, Tick, SourceChanges,
     vars, processVars, accountVars, rest
<1>4. UNCHANGED <<req, ask>> => WaitsOK'
  BY DEF SiteInv, WaitsOK
<1> QED
  BY <1>1, <1>2, <1>3, <1>4, VisitWaits DEF Next

LEMMA SiteStep == SiteInv /\ [Next]_vars => SiteInv'
<1> SUFFICES ASSUME SiteInv, [Next]_vars
             PROVE  SiteInv'
  OBVIOUS
<1>1. Visitor \subseteq DOMAIN req /\ now \in Nat
  BY Ranges DEF SiteInv, AccountInv, RequestOK, ProcessInv, ClockOK
<1>2. ProcessInv'
  BY <1>1, ProcessSteps, ProcessStep DEF SiteInv
<1>3. AccountInv'
  BY <1>1, AccountStep DEF SiteInv
<1> QED
  BY <1>2, <1>3, WaitsStep DEF SiteInv

LEMMA SiteStarts == Init => SiteInv
<1> SUFFICES ASSUME Init
             PROVE  SiteInv
  OBVIOUS
<1>1. ProcessInv /\ AccountInv
  BY ProcessStarts, AccountStarts DEF Init
<1>2. WaitsOK
  BY NoAskTyped DEF Init, InitProcess, WaitsOK, Idle, LimitSteps_
<1> QED
  BY <1>1, <1>2 DEF SiteInv

LEMMA SiteKept == Spec => []SiteInv
BY SiteStarts, SiteStep, PTL DEF Spec

-----------------------------------------------------------------------------
(* The theorems *)

LEMMA ProcessTyped == ProcessInv => ProcessTypeOK
BY DEF ProcessInv, ClockOK, AskOK, LimitInv, MemoryOK, BucketOK, ServedInv, SourcesOK, CachedOK,
   ProcessTypeOK, AskState, BucketState, LimitSteps_, Windows, Stamps

\* Every variable of the process and of the accounts has its type, whatever
\* requests interleave (SiteAccounts!TypeOK).
THEOREM SiteTypeCorrect == Spec => []TypeOK
<1>1. SiteInv => TypeOK
  <2> SUFFICES ASSUME SiteInv
               PROVE  TypeOK
    OBVIOUS
  <2>1. ProcessTypeOK
    BY ProcessTyped DEF SiteInv
  <2>2. AccountOK /\ LinkOK /\ CookieOK /\ WaitsOK
    BY DEF SiteInv, AccountInv
  <2> QED
    BY <2>1, <2>2 DEF TypeOK, AccountOK, LinkOK, CookieOK, WaitsOK, AccountState, Prints, Words,
       LinkIds, LimitSteps_
<1> QED
  BY <1>1, SiteKept, PTL

\* Neither driver lets more attempts through in a window than the rule permits,
\* however requests interleave between INSERT and SELECT and whichever of them
\* fall back to the memory (rate-limit.ts, SiteProcess!LimitHolds).
THEOREM TheLimitHolds == Spec => []LimitHolds
<1>1. SiteInv => LimitHolds
  <2> SUFFICES ASSUME SiteInv, NEW x \in Counters
               PROVE  admitted[x] <= Limit
    BY DEF SiteInv, ProcessInv, LimitInv, LimitHolds
  <2>1. PICK d \in {"memory", "mysql"}, f \in Form, w \in Windows : x = <<d, f, w>>
    BY DEF Counters
  <2> QED
    BY <2>1 DEF SiteInv, ProcessInv, LimitInv, MemoryOK, BucketOK
<1> QED
  BY <1>1, SiteKept, PTL

\* What the cache would serve was current less than its time to live ago, each
\* part of it (realm-status.ts, launcher.ts, SiteProcess!ServedRecently).
THEOREM AnswersAreRecent == Spec => []ServedRecently
<1>1. SiteInv => ServedRecently
  <2> SUFFICES ASSUME SiteInv, NEW a \in Answer, cache[a].at # Never, Fresh(cache[a].at),
                      NEW s \in SourceOf[a]
               PROVE  replaced[<<s, cache[a].versions[s]>>] + Ttl > now
    BY DEF ServedRecently
  <2>1. /\ s \in DOMAIN cache[a].versions /\ cache[a].versions \in Versions
        /\ ReadSince(cache[a].versions, cache[a].at) /\ cache[a].at \in Nat
    BY Ranges DEF SiteInv, ProcessInv, ServedInv, CachedOK, Holding
  <2>2. s \in Source /\ cache[a].versions[s] \in Version
    BY <2>1, ReadTyped
  <2>3. replaced[<<s, cache[a].versions[s]>>] \in Nat /\ now \in Nat
    BY <2>2, Ranges DEF SiteInv, ProcessInv, ServedInv, SourcesOK, ClockOK
  <2>4. replaced[<<s, cache[a].versions[s]>>] >= cache[a].at
    BY <2>1 DEF ReadSince
  <2> QED
    BY <2>1, <2>3, <2>4, SiteProcessAssumption DEF Fresh
<1> QED
  BY <1>1, SiteKept, PTL

\* A cookie that still resolves was earned with the password the account has now,
\* whatever logins, resets and changes run at once (session.ts).
THEOREM SessionsKnowThePassword == Spec => []SessionKnowsPassword
<1>1. SiteInv => SessionKnowsPassword
  BY DEF SiteInv, AccountInv, CookieOK, Earned, SessionKnowsPassword, Resolves
<1> QED
  BY <1>1, SiteKept, PTL

\* Once a reset, or a change that burnt links, has been answered, no link issued
\* before writes credentials for a request that comes later (accounts.ts).
THEOREM OldLinksAreOver == Spec => []OldLinksWriteNothing
<1>1. SiteInv => OldLinksWriteNothing
  BY DEF SiteInv, AccountInv, RequestOK, ReqOK, AtStep, OldLinksWriteNothing
<1> QED
  BY <1>1, SiteKept, PTL

\* Who is signed in by registering has an account with its mail address and its
\* row per realm, in both write modes (registerAccount).
THEOREM TheWelcomedAreWhole == Spec => []WelcomedIsWhole
<1>1. SiteInv => WelcomedIsWhole
  BY DEF SiteInv, AccountInv, RequestOK, ReqOK, AtStep, WelcomedIsWhole, In
<1> QED
  BY <1>1, SiteKept, PTL

=============================================================================
