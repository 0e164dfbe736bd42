-------------------------- MODULE HashCacheProofs --------------------------
(***************************************************************************)
(* Proofs about HashCache, for any clients, paths and contents: its types, *)
(* and that the cache is honest wherever a file's time is that of its last *)
(* write, until somebody writes in a client while it is verified.          *)
(***************************************************************************)
EXTENDS HashCache, TLAPS

USE DEF Times, Todo

\* At any time and at any client, the file of that path with time t has content h.
OnlyContent(p, t, h) ==
  \A c \in Clients : file[c][p] # NoFile /\ file[c][p].mtime = t => file[c][p].content = h

\* Nothing is newer than the clock, and a time names one content per path.
TimesTell ==
  \A c \in Clients, p \in Paths :
    file[c][p] # NoFile =>
      file[c][p].mtime <= clock /\ OnlyContent(p, file[c][p].mtime, file[c][p].content)

Sound(e, p) == e # NoEntry => e.mtime <= clock /\ OnlyContent(p, e.mtime, e.hash)

\* A file seen by the verification has not changed since.
SeenIsStill ==
  job # NoJob =>
    \A p \in Paths :
      job.work[p].is = "seen" /\ file[job.client][p] # NoFile
        => job.work[p].mtime = file[job.client][p].mtime

FreshSound ==
  job # NoJob => \A p \in Paths : job.work[p].is = "decided" => Sound(job.work[p].fresh, p)

HashInv ==
  TypeOK /\ TimesTell /\ SeenIsStill /\ FreshSound /\ \A p \in Paths : Sound(cache[p], p)

----------------------------------------------------------------------------
(* Types                                                                    *)

LEMMA SettleTyped ==
  ASSUME TypeOK, job # NoJob, NEW p \in Paths, NEW state \in FileState,
         NEW fresh \in Entry \cup {NoEntry}, Settle(p, state, fresh)
  PROVE  /\ job' \in {NoJob} \cup [client : Clients, work : [Paths -> Work]]
         /\ job' # NoJob => job'.client = job.client
         /\ job'.work = [job.work EXCEPT ![p] = [is |-> "decided", state |-> state, fresh |-> fresh]]
<1>1. [is |-> "decided", state |-> state, fresh |-> fresh] \in Work
  BY DEF Work
<1> QED
  BY <1>1 DEF TypeOK, Settle

LEMMA TypeKept ==
  ASSUME TypeOK, HashCacheAssumption, SentinelsAreNot, [Next]_vars
  PROVE  TypeOK'
<1> USE DEF TypeOK
<1>1. ASSUME NEW c \in Clients, NEW p \in Paths, NEW content \in Contents, WriteFile(c, p, content)
      PROVE TypeOK'
  <2>1. clock' \in Times /\ clock' <= writes' /\ writes' \in Times
    BY <1>1 DEF WriteFile, ChangeIn, Verifying, HashCacheAssumption
  <2>2. [content |-> content, mtime |-> clock'] \in Stamped
    BY <2>1 DEF Stamped
  <2>3. happened' \subseteq Intrusions
    BY <1>1 DEF WriteFile, ChangeIn, Intrusions
  <2> QED
    BY <1>1, <2>1, <2>2, <2>3 DEF WriteFile
<1>2. ASSUME NEW from \in Clients, NEW to \in Clients, CopyClient(from, to)
      PROVE TypeOK'
  <2>1. happened' \subseteq Intrusions
    BY <1>2 DEF CopyClient, ChangeIn, Intrusions
  <2>2. writes' \in Times /\ clock' <= writes'
    BY <1>2 DEF CopyClient, ChangeIn, HashCacheAssumption
  <2> QED
    BY <1>2, <2>1, <2>2 DEF CopyClient
<1>3. ASSUME NEW p \in Paths, NEW content \in Contents, RefreshManifest(p, content)
      PROVE TypeOK'
  BY <1>3 DEF RefreshManifest, HashCacheAssumption
<1>4. ASSUME NEW c \in Clients, BeginVerify(c)
      PROVE TypeOK'
  BY <1>4 DEF BeginVerify, Work
<1>5. ASSUME NEW p \in Paths, Stat(p)
      PROVE TypeOK'
  <2>1. job # NoJob /\ job.client \in Clients
    BY <1>5 DEF Stat
  <2>2. UNCHANGED <<file, clock, writes, wanted, cache, report, happened>>
    BY <1>5 DEF Stat
  <2>3. ASSUME NEW state \in FileState, Settle(p, state, NoEntry)
        PROVE TypeOK'
    BY <2>1, <2>2, <2>3, SettleTyped
  <2>4. \A found \in Contents : Compare(found, p) \in FileState
    BY DEF Compare, FileState
  <2>5. Remembers(p, SizeOf[file[job.client][p].content], file[job.client][p].mtime)
          => cache[p].hash \in Contents
    BY DEF Remembers, Entry
  <2>6. ASSUME file[job.client][p] # NoFile,
               job' = [job EXCEPT !.work[p] = [is |-> "seen",
                         size |-> SizeOf[file[job.client][p].content],
                         mtime |-> file[job.client][p].mtime]]
        PROVE TypeOK'
    <3>1. file[job.client][p] \in Stamped
      BY <2>1, <2>6
    <3>2. [is |-> "seen", size |-> SizeOf[file[job.client][p].content],
           mtime |-> file[job.client][p].mtime] \in Work
      BY <3>1 DEF Work, Stamped, HashCacheAssumption
    <3> QED
      BY <2>1, <2>2, <2>6, <3>2
  <2>7. "missing" \in FileState /\ "wrong_size" \in FileState
    BY DEF FileState
  <2> QED
    BY <1>5, <2>3, <2>4, <2>5, <2>6, <2>7 DEF Stat, CachedVerdict
<1>6. ASSUME NEW p \in Paths, HashFile(p)
      PROVE TypeOK'
  <2>1. job # NoJob /\ job.work[p] \in Work /\ job.work[p].is = "seen" /\ job.client \in Clients
    BY <1>6 DEF HashFile, ToHash
  <2>2. file[job.client][p] \in Stamped /\ file[job.client][p].content \in Contents
    BY <1>6, <2>1 DEF HashFile, Stamped
  <2>3. [size |-> job.work[p].size, mtime |-> job.work[p].mtime,
         hash |-> file[job.client][p].content] \in Entry
    BY <2>1, <2>2 DEF Work, Entry
  <2>4. Compare(file[job.client][p].content, p) \in FileState
    BY DEF Compare, FileState
  <2> QED
    BY <1>6, <2>1, <2>3, <2>4, SettleTyped DEF HashFile
<1>7. ASSUME NEW p \in Paths, HashFails(p)
      PROVE TypeOK'
  <2>1. "unreadable" \in FileState
    BY DEF FileState
  <2> QED
    BY <1>7, <2>1, SettleTyped DEF HashFails, ToHash
<1>8. CASE FinishVerify
  <2>1. /\ job # NoJob /\ job.client \in Clients
        /\ \A p \in Paths : job.work[p].state \in FileState
        /\ \A p \in Paths : job.work[p].fresh \in Entry \cup {NoEntry}
    BY <1>8 DEF FinishVerify, Work
  <2>2. Updated \in [Paths -> Entry \cup {NoEntry}] /\ Empty \in [Paths -> Entry \cup {NoEntry}]
    BY <2>1 DEF Updated, Empty
  <2> QED
    BY <1>8, <2>1, <2>2 DEF FinishVerify
<1>9. CASE Quit
  BY <1>9 DEF Quit
<1>10. CASE UNCHANGED vars
  BY <1>10 DEF vars
<1> QED
  BY <1>1, <1>2, <1>3, <1>4, <1>5, <1>6, <1>7, <1>8, <1>9, <1>10 DEF Next

LEMMA TypeInitially == HashCacheAssumption /\ Init => TypeOK
BY DEF HashCacheAssumption, Init, TypeOK, Empty

\* Files, cache, work and reports keep their shape, whatever happens.
THEOREM HashCacheTypeCorrect == Spec => []TypeOK
BY TypeInitially, TypeKept, HashCacheAssumption, SentinelsAreNot, PTL DEF Spec

----------------------------------------------------------------------------
(* The cache is honest                                                      *)

\* What was sound stays so when every file is one that was there already, at
\* whichever client, or is newer than everything before.
LEMMA SoundKept ==
  ASSUME NEW p \in Paths, NEW e, e # NoEntry => e.mtime \in Nat, Sound(e, p), clock <= clock',
         clock \in Nat, clock' \in Nat,
         \A c \in Clients : file'[c][p] # NoFile =>
           \/ clock < file'[c][p].mtime
           \/ \E d \in Clients : file'[c][p] = file[d][p]
  PROVE  Sound(e, p)'
BY DEF Sound, OnlyContent

\* Steps that leave the files alone.
LEMMA StillFiles ==
  ASSUME HashInv, UNCHANGED <<file, clock>>
  PROVE  TimesTell' /\ \A e, p : Sound(e, p)' <=> Sound(e, p)
BY DEF HashInv, TimesTell, Sound, OnlyContent

LEMMA HashInvKept ==
  ASSUME ~CoarseClock, "busy" \notin happened', HashInv, HashCacheAssumption, SentinelsAreNot, [Next]_vars
  PROVE  HashInv'
<1>1. TypeOK'
  BY TypeKept DEF HashInv
<1>2. ASSUME NEW c \in Clients, NEW p \in Paths, NEW content \in Contents, WriteFile(c, p, content)
      PROVE HashInv'
  <2>1. /\ clock' = clock + 1 /\ clock \in Nat
        /\ UNCHANGED <<wanted, cache, job, report>>
        /\ ~(job # NoJob /\ job.client = c)
    BY <1>2 DEF WriteFile, ChangeIn, Verifying, HashInv, TypeOK
  <2> DEFINE new == [content |-> content, mtime |-> clock']
  <2>2. /\ file'[c][p] = new
        /\ \A d \in Clients, q \in Paths : d # c \/ q # p => file'[d][q] = file[d][q]
    BY <1>2 DEF WriteFile, HashInv, TypeOK
  <2>3. new # NoFile /\ new.mtime = clock' /\ new.content = content
    BY <1>1, <1>2, <2>1 DEF TypeOK, Stamped, SentinelsAreNot
  <2> HIDE DEF new
  <2>4. \A d \in Clients, q \in Paths : file[d][q] # NoFile =>
          file[d][q].mtime \in Nat /\ file[d][q].mtime <= clock
    BY DEF HashInv, TypeOK, TimesTell, Stamped
  <2>5. TimesTell'
    <3>1. ASSUME NEW d \in Clients, NEW q \in Paths, file'[d][q] # NoFile
          PROVE file'[d][q].mtime <= clock'
      BY <2>1, <2>2, <2>3, <2>4, <3>1
    <3>2. ASSUME NEW d \in Clients, NEW q \in Paths, file'[d][q] # NoFile,
                 NEW x \in Clients, file'[x][q] # NoFile, file'[x][q].mtime = file'[d][q].mtime
          PROVE file'[x][q].content = file'[d][q].content
      <4>1. CASE q = p /\ (d = c \/ x = c)
        BY <2>1, <2>2, <2>3, <2>4, <3>2, <4>1
      <4>2. CASE ~(q = p /\ (d = c \/ x = c))
        BY <2>2, <3>2, <4>2 DEF HashInv, TimesTell, OnlyContent
      <4> QED
        BY <4>1, <4>2
    <3> QED
      BY <3>1, <3>2 DEF TimesTell, OnlyContent
  <2>6. ASSUME NEW q \in Paths, NEW e, e # NoEntry => e.mtime \in Nat, Sound(e, q)
        PROVE Sound(e, q)'
    <3>1. \A d \in Clients : file'[d][q] # NoFile =>
            clock < file'[d][q].mtime \/ file'[d][q] = file[d][q]
      BY <2>1, <2>2, <2>3
    <3> QED
      BY <2>1, <2>6, <3>1, SoundKept
  <2>7. \A q \in Paths : Sound(cache[q], q)'
    BY <2>1, <2>6 DEF HashInv, TypeOK, Entry
  <2>8. FreshSound'
    BY <2>1, <2>6 DEF FreshSound, HashInv, TypeOK, Work, Entry
  <2>9. SeenIsStill'
    BY <2>1, <2>2 DEF SeenIsStill, HashInv, TypeOK
  <2> QED
    BY <1>1, <2>1, <2>5, <2>7, <2>8, <2>9 DEF HashInv
<1>3. ASSUME NEW from \in Clients, NEW to \in Clients, CopyClient(from, to)
      PROVE HashInv'
  <2>1. /\ UNCHANGED <<clock, wanted, cache, job, report>> /\ clock \in Nat
        /\ ~(job # NoJob /\ job.client = to)
    BY <1>3 DEF CopyClient, ChangeIn, Verifying, HashInv, TypeOK
  <2>2. \A d \in Clients : file'[d] = IF d = to THEN file[from] ELSE file[d]
    BY <1>3 DEF CopyClient, HashInv, TypeOK
  <2>3. TimesTell'
    BY <2>1, <2>2 DEF HashInv, TimesTell, OnlyContent
  <2>4. ASSUME NEW q \in Paths, NEW e, e # NoEntry => e.mtime \in Nat, Sound(e, q)
        PROVE Sound(e, q)'
    BY <2>1, <2>2, <2>4, SoundKept
  <2>5. \A q \in Paths : Sound(cache[q], q)'
    BY <2>1, <2>4 DEF HashInv, TypeOK, Entry
  <2>6. FreshSound'
    BY <2>1, <2>4 DEF FreshSound, HashInv, TypeOK, Work, Entry
  <2>7. SeenIsStill'
    BY <2>1, <2>2 DEF SeenIsStill, HashInv, TypeOK
  <2> QED
    BY <1>1, <2>1, <2>3, <2>5, <2>6, <2>7 DEF HashInv
<1>4. ASSUME NEW p \in Paths, NEW content \in Contents, RefreshManifest(p, content)
      PROVE HashInv'
  BY <1>1, <1>4, StillFiles DEF RefreshManifest, HashInv, SeenIsStill, FreshSound
<1>5. ASSUME NEW c \in Clients, BeginVerify(c)
      PROVE HashInv'
  BY <1>1, <1>5, StillFiles DEF BeginVerify, HashInv, SeenIsStill, FreshSound
<1>6. ASSUME NEW p \in Paths, Stat(p) \/ HashFile(p) \/ HashFails(p)
      PROVE HashInv'
  <2>1. UNCHANGED <<file, clock, cache>> /\ job # NoJob /\ job \in [client : Clients, work : [Paths -> Work]]
    BY <1>6 DEF Stat, HashFile, HashFails, ToHash, HashInv, TypeOK
  <2>2. PICK w : /\ job' = [job EXCEPT !.work[p] = w]
                 /\ w.is = "seen" => w.mtime = file[job.client][p].mtime
                 /\ w.is = "decided" => Sound(w.fresh, p)
    <3> DEFINE Lands(w) == /\ job' = [job EXCEPT !.work[p] = w]
                           /\ w.is = "seen" => w.mtime = file[job.client][p].mtime
                           /\ w.is = "decided" => Sound(w.fresh, p)
    <3>0. ASSUME NEW state, NEW fresh, Settle(p, state, fresh), Sound(fresh, p)
          PROVE \E w : Lands(w)
      <4>1. Lands([is |-> "decided", state |-> state, fresh |-> fresh])
        BY <3>0 DEF Settle
      <4> QED
        BY <4>1
    <3>1. CASE Stat(p)
      <4>1. Sound(NoEntry, p)
        BY DEF Sound
      <4>2. CASE \E state : Settle(p, state, NoEntry)
        BY <3>0, <4>1, <4>2
      <4>3. CASE job' = [job EXCEPT !.work[p] = [is |-> "seen",
                           size |-> SizeOf[file[job.client][p].content],
                           mtime |-> file[job.client][p].mtime]]
        <5>1. Lands([is |-> "seen", size |-> SizeOf[file[job.client][p].content],
                     mtime |-> file[job.client][p].mtime])
          BY <4>3
        <5> QED
          BY <5>1
      <4> QED
        BY <3>1, <4>2, <4>3 DEF Stat
    <3>2. CASE HashFails(p)
      <4>1. Sound(NoEntry, p)
        BY DEF Sound
      <4> QED
        BY <3>0, <3>2, <4>1 DEF HashFails
    <3>3. CASE HashFile(p)
      <4>1. /\ file[job.client][p] # NoFile
            /\ job.work[p].mtime = file[job.client][p].mtime
        BY <3>3, <2>1 DEF HashFile, ToHash, HashInv, SeenIsStill
      <4>2. Sound([size |-> job.work[p].size, mtime |-> job.work[p].mtime,
                   hash |-> file[job.client][p].content], p)
        BY <2>1, <4>1 DEF HashInv, TimesTell, Sound
      <4> QED
        BY <3>0, <3>3, <4>2 DEF HashFile
    <3> QED
      BY <1>6, <3>1, <3>2, <3>3
  <2>3. /\ job'.client = job.client
        /\ \A q \in Paths : job'.work[q] = IF q = p THEN w ELSE job.work[q]
    BY <2>1, <2>2
  <2>4. SeenIsStill'
    BY <2>1, <2>2, <2>3 DEF HashInv, SeenIsStill
  <2>5. FreshSound'
    BY <2>1, <2>2, <2>3, StillFiles DEF HashInv, FreshSound
  <2> QED
    BY <1>1, <2>1, <2>4, <2>5, StillFiles DEF HashInv
<1>7. CASE FinishVerify
  <2>1. \A p \in Paths : Sound(cache'[p], p)
    BY <1>7 DEF FinishVerify, HashInv, FreshSound, Updated, Empty, Sound
  <2>2. UNCHANGED <<file, clock>> /\ job' = NoJob
    BY <1>7 DEF FinishVerify
  <2>3. \A p \in Paths : Sound(cache[p], p)'
    BY <2>1, <2>2 DEF Sound, OnlyContent
  <2> QED
    BY <1>1, <2>2, <2>3, StillFiles DEF HashInv, SeenIsStill, FreshSound
<1>8. CASE Quit
  BY <1>1, <1>8, StillFiles DEF Quit, HashInv, SeenIsStill, FreshSound
<1>9. CASE UNCHANGED vars
  BY <1>1, <1>9, StillFiles DEF vars, HashInv, SeenIsStill, FreshSound
<1> QED
  BY <1>2, <1>3, <1>4, <1>5, <1>6, <1>7, <1>8, <1>9 DEF Next

LEMMA HashInvInitially == HashCacheAssumption /\ Init => HashInv
<1> SUFFICES ASSUME HashCacheAssumption, Init
             PROVE HashInv
  OBVIOUS
<1>1. TypeOK
  BY TypeInitially
<1> QED
  BY <1>1 DEF Init, HashInv, TimesTell, SeenIsStill, FreshSound, Sound, Empty

\* Whoever copies or rewrites clients, kills the launcher or loses half a cache
\* file, as long as no file changes under a verification: an entry that matches a file's path, size and time has its hash.
THEOREM CacheIsHonest ==
  ASSUME ~CoarseClock
  PROVE  Spec => []CacheHonest
<1> DEFINE Inv == TypeOK /\ ("busy" \notin happened => HashInv)
<1>1. Inv => CacheHonest
  BY DEF HashInv, CacheHonest, Remembers, Sound, OnlyContent
<1>2. Inv /\ [Next]_vars => Inv'
  <2> SUFFICES ASSUME Inv, [Next]_vars
               PROVE Inv'
    OBVIOUS
  <2>1. TypeOK'
    BY TypeKept, HashCacheAssumption, SentinelsAreNot
  <2>2. happened \subseteq happened'
    BY DEF Next, vars, WriteFile, CopyClient, ChangeIn, RefreshManifest, BeginVerify, Stat,
           HashFile, HashFails, FinishVerify, Quit
  <2> QED
    BY <2>1, <2>2, HashInvKept, HashCacheAssumption, SentinelsAreNot
<1>3. Init => Inv
  BY TypeInitially, HashInvInitially, HashCacheAssumption
<1> HIDE DEF Inv
<1> QED
  BY <1>1, <1>2, <1>3, PTL DEF Spec
============================================================================
