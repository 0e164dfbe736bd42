---------------------------- MODULE SiteProcess ----------------------------
(***************************************************************************)
(* What a process of the public site keeps in memory between requests: the *)
(* answers it caches (realm status, launcher manifest, "does this table    *)
(* exist"), and the rate limiter, whose buckets are in memory or, with     *)
(* RATE_LIMIT_DRIVER=mysql, in the site's own database.                    *)
(*                                                                         *)
(* Requests interleave at every await. A query may fail; the clock goes on *)
(* while it is waited for.                                                 *)
(***************************************************************************)
EXTENDS Naturals, FiniteSets

CONSTANTS
  Visitor,
  Form,      \* the account forms, each with its bucket
  Answer,    \* the answers that are cached
  SourceOf,  \* answer -> the sources it is assembled from
  Limit,     \* attempts permitted per window (RATE_RULES)
  Window,    \* ticks of a window
  Ttl,       \* ticks an answer is served from the cache
  MaxEvent,  \* bound: requests, failures, ticks and changes together
  MaxTime,   \* bound: ticks that pass
  MaxVersion \* bound: how often a source changes

Source == UNION {SourceOf[a] : a \in Answer}
Table == {"web_rate_limit", "web_password_reset"}
Time == 0..MaxTime
Version == 0..MaxVersion
Versions == UNION {[S -> Version] : S \in SUBSET Source}

ASSUME SiteProcessAssumption ==
  /\ IsFiniteSet(Visitor) /\ IsFiniteSet(Form)
  /\ Form \cap Answer = {}
  /\ DOMAIN SourceOf = Answer
  /\ Limit \in Nat \ {0} /\ Window \in Nat \ {0} /\ Ttl \in Nat \ {0}
  /\ MaxEvent \in Nat /\ MaxTime \in Nat /\ MaxVersion \in Nat

VARIABLES
  events,   \* how much has happened
  now,      \* the clock, in ticks
  driver,   \* RATE_LIMIT_DRIVER
  applied,  \* whether web-schema.sql was applied
  probed,   \* tableCache: what a probe said of a table, and when
  bucket,   \* web_rate_limit: form -> window and hits
  memory,   \* memoryBuckets: form -> window and hits
  source,   \* source -> its version
  cache,    \* answer -> the versions it was assembled from, and when
  ask,      \* visitor -> the part of its request that is the process's
  admitted, \* attempts let through: driver, form and window -> how many
  replaced  \* source and version -> when it stopped being current

memos == <<probed, cache>>
buckets == <<bucket, memory, admitted>>
sources == <<source, replaced>>
fixed == <<driver, applied>>
processVars == <<events, now, fixed, memos, buckets, sources, ask>>

NoAsk == [for |-> "nothing", step |-> "idle", at |-> 0, read |-> [s \in {} |-> 0]]
Never == MaxTime + 1
Empty == [window |-> 0, hits |-> 0]

Happens == events < MaxEvent /\ events' = events + 1

WindowOf(t) == t \div Window
Fresh(stamp) == now < stamp + Ttl
AskAt(v, step) == ask[v].step = step

-----------------------------------------------------------------------------
(* tableExists *)

\* What the caller is told: the cached answer while it is fresh, else what a
\* probe finds, which is "no" when the probe fails; the answer is remembered.
TableExists(t, found) ==
  IF Fresh(probed[t].at) /\ probed[t].at # Never
    THEN found = probed[t].value /\ UNCHANGED <<probed, events>>
    ELSE /\ IF applied /\ ~found THEN Happens ELSE found = applied /\ UNCHANGED events
         /\ probed' = [probed EXCEPT ![t] = [value |-> found, at |-> now]]

-----------------------------------------------------------------------------
(* The rate limiter *)

\* The verdict on an attempt: let through by a driver, or turned away.
Admit(v, by, window) ==
  /\ ask' = [ask EXCEPT ![v].step = "admitted"]
  /\ admitted' = [admitted EXCEPT ![<<by, ask[v].for, window>>] = @ + 1]
TurnAway(v) ==
  /\ ask' = [ask EXCEPT ![v].step = "refused"]
  /\ UNCHANGED admitted

Within(hits) == hits <= Limit

\* One more hit in a bucket: a window that has gone by starts it over.
Hit(old, window) ==
  IF old.hits = 0 \/ old.window < window
    THEN [window |-> window, hits |-> 1]
    ELSE [old EXCEPT !.hits = @ + 1]

\* consumeMemory awaits nothing.
ConsumeMemory(v) ==
  LET form == ask[v].for
      hit  == Hit(memory[form], WindowOf(now))
  IN /\ memory' = [memory EXCEPT ![form] = hit]
     /\ IF Within(hit.hits) THEN Admit(v, "memory", hit.window) ELSE TurnAway(v)
     /\ UNCHANGED bucket

\* consume picks the driver; the window is computed before the INSERT is sent.
Consume(v) ==
  /\ AskAt(v, "limit")
  /\ IF driver = "mysql"
       THEN \E found \in BOOLEAN :
              /\ TableExists("web_rate_limit", found)
              /\ IF found
                   THEN /\ ask' = [ask EXCEPT ![v].step = "count", ![v].at = WindowOf(now)]
                        /\ UNCHANGED buckets
                   ELSE ConsumeMemory(v)
       ELSE ConsumeMemory(v) /\ UNCHANGED <<probed, events>>
  /\ UNCHANGED <<now, fixed, sources, cache>>

\* INSERT ... ON DUPLICATE KEY UPDATE: the later of the two windows stays.
CountHit(v) ==
  LET form == ask[v].for
      hit  == Hit(bucket[form], ask[v].at)
  IN /\ AskAt(v, "count")
     /\ bucket' = [bucket EXCEPT ![form] = hit]
     /\ ask' = [ask EXCEPT ![v].step = "judge", ![v].at = hit.window]
     /\ UNCHANGED <<events, now, fixed, sources, memos, memory, admitted>>

\* The SELECT: it sees the hits of everybody who came in between.
Judged_ByTheirOwn(v) == 1
Judged(v) == bucket[ask[v].for].hits

\* An attempt overtaken by the turn of the window is judged by the new one;
\* "admitted" counts the others.
JudgeHits(v) ==
  /\ AskAt(v, "judge")
  /\ IF Within(Judged(v))
       THEN IF bucket[ask[v].for].window = ask[v].at
              THEN Admit(v, "mysql", ask[v].at)
              ELSE ask' = [ask EXCEPT ![v].step = "admitted"] /\ UNCHANGED admitted
       ELSE TurnAway(v)
  /\ UNCHANGED <<events, now, fixed, sources, memos, bucket, memory>>

\* "falls back to the in-memory one rather than failing open".
FallBack(v) ==
  /\ AskAt(v, "count") \/ AskAt(v, "judge")
  /\ Happens
  /\ ConsumeMemory(v)
  /\ UNCHANGED <<now, fixed, sources, memos>>

-----------------------------------------------------------------------------
(* getRealmStatus and getLauncherManifest *)

\* The cache answers while it is fresh.
GetCached(v, a) ==
  /\ AskAt(v, "idle")
  /\ IF cache[a].at # Never /\ Fresh(cache[a].at)
       THEN UNCHANGED ask
       ELSE ask' = [ask EXCEPT ![v] = [NoAsk EXCEPT !.for = a, !.step = "fetch", !.at = now]]
  /\ UNCHANGED <<now, fixed, sources, buckets, memos>>

\* The sources are read independently of one another (Promise.all).
Fetch(v, s) ==
  /\ AskAt(v, "fetch")
  /\ s \in SourceOf[ask[v].for] \ DOMAIN ask[v].read
  /\ ask' = [ask EXCEPT ![v].read =
       [x \in DOMAIN @ \cup {s} |-> IF x = s THEN source[s] ELSE @[x]]]
  /\ UNCHANGED <<events, now, fixed, sources, buckets, memos>>

Stamp_AtTheEnd(v) == now
Stamp(v) == ask[v].at

\* Stored with the time the request came in, whoever stored something since.
StoreAnswer(v) ==
  LET a == ask[v].for
  IN /\ AskAt(v, "fetch")
     /\ DOMAIN ask[v].read = SourceOf[a]
     /\ cache' = [cache EXCEPT ![a] = [versions |-> ask[v].read, at |-> Stamp(v)]]
     /\ ask' = [ask EXCEPT ![v] = NoAsk]
     /\ UNCHANGED <<events, now, fixed, sources, buckets, probed>>

-----------------------------------------------------------------------------
\* A deploy replaces a file; a realm comes up, goes down or fills.
SourceChanges(s) ==
  /\ Happens
  /\ source[s] < MaxVersion
  /\ source' = [source EXCEPT ![s] = @ + 1]
  /\ replaced' = [replaced EXCEPT ![<<s, source[s]>>] = now]
  /\ UNCHANGED <<now, fixed, memos, buckets, ask>>

Tick ==
  /\ Happens
  /\ now < MaxTime
  /\ now' = now + 1
  /\ UNCHANGED <<fixed, memos, buckets, sources, ask>>

InitProcess ==
  /\ events = 0 /\ now = 0
  /\ driver \in {"memory", "mysql"} /\ applied \in BOOLEAN
  /\ probed = [t \in Table |-> [value |-> FALSE, at |-> Never]]
  /\ bucket = [f \in Form |-> Empty] /\ memory = [f \in Form |-> Empty]
  /\ source = [s \in Source |-> 0]
  /\ cache = [a \in Answer |-> [versions |-> [s \in {} |-> 0], at |-> Never]]
  /\ ask = [v \in Visitor |-> NoAsk]
  /\ admitted = [x \in {"memory", "mysql"} \X Form \X (0..WindowOf(MaxTime)) |-> 0]
  /\ replaced = [x \in Source \X Version |-> Never]

LimitSteps(v) == Consume(v) \/ CountHit(v) \/ JudgeHits(v) \/ FallBack(v)
AnswerSteps(v) == StoreAnswer(v) \/ \E s \in Source : Fetch(v, s)

-----------------------------------------------------------------------------
(* Properties *)

ProcessTypeOK ==
  /\ events \in 0..MaxEvent /\ now \in Time /\ driver \in {"memory", "mysql"} /\ applied \in BOOLEAN
  /\ probed \in [Table -> [value : BOOLEAN, at : 0..Never]]
  /\ bucket \in [Form -> [window : 0..WindowOf(MaxTime), hits : Nat]]
  /\ memory \in [Form -> [window : 0..WindowOf(MaxTime), hits : Nat]]
  /\ source \in [Source -> Version]
  /\ cache \in [Answer -> [versions : Versions, at : 0..Never]]
  /\ ask \in [Visitor -> [for : {"nothing"} \cup Form \cup Answer,
                          step : {"idle", "limit", "count", "judge", "admitted",
                                  "refused", "fetch"},
                          at : Time, read : Versions]]

\* "A rate limiter that stops limiting when its storage hiccups is worse"
\* (rate-limit.ts): whatever interleaves and whichever statements fail, neither
\* driver lets more attempts through in a window than the rule permits, those
\* a new window overtook between INSERT and SELECT left aside.
LimitHolds == \A x \in DOMAIN admitted : admitted[x] <= Limit

\* What the cache would serve now is never older than its time to live, however
\* long it took to put together and whoever stored it: every part of it was
\* current less than Ttl ago ("cached for a minute", launcher.ts).
ServedRecently ==
  \A a \in Answer :
    cache[a].at # Never /\ Fresh(cache[a].at) =>
      \A s \in SourceOf[a] : replaced[<<s, cache[a].versions[s]>>] + Ttl > now

=============================================================================
