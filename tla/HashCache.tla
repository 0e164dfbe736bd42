----------------------------- MODULE HashCache -----------------------------
(***************************************************************************)
(* Verification of a client against the published hashes, and the cache    *)
(* that spares it reading 15 GB again (launcher/core/src/verify.rs).       *)
(*                                                                         *)
(* The cache is keyed on a file's path below the client's root, its size   *)
(* and its modification time. It is one file for every client the player   *)
(* ever points at. A verification looks at a file twice: its metadata,     *)
(* then, when the cache does not know them, its bytes; the player and      *)
(* other programs write in the directory whenever they like.               *)
(*                                                                         *)
(* A hash stands for the content it is the hash of.                        *)
(***************************************************************************)
EXTENDS Naturals, FiniteSets

CONSTANTS
  Clients,    \* directories that hold a client
  Paths,      \* the paths the manifest names
  Contents,   \* what a file may contain
  SizeOf,     \* the size of each content
  CoarseClock,\* can a file be written twice within one tick of its clock?
  MaxWrites,  \* bound: changes to files and to the manifest
  NoFile, NoEntry, NoReport, NoJob

ASSUME HashCacheAssumption ==
  /\ SizeOf \in [Contents -> Nat]
  /\ CoarseClock \in BOOLEAN
  /\ MaxWrites \in Nat

Times == 0..MaxWrites

\* A file as the file system shows it, and a line of the cache.
Stamped == [content : Contents, mtime : Times]
Entry == [size : Nat, mtime : Times, hash : Contents]
FileState == {"match", "differs", "wrong_size", "missing", "unreadable"}

ASSUME SentinelsAreNot ==
  /\ NoFile \notin Stamped
  /\ NoEntry \notin Entry

VARIABLES
  file,    \* every client's files
  clock,   \* the modification time the next write may get
  writes,  \* how many changes there have been
  wanted,  \* manifest.client.files: the known-good content of every path
  cache,   \* the cache file
  job,     \* the verification under way
  report,  \* last_report
  happened \* history: which of Intrusions there have been

\* "busy": a file was written in a client under verification. "copied": files came
\* into a client with times older than their arrival.
Intrusions == {"busy", "copied"}

vars == <<file, clock, writes, wanted, cache, job, report, happened>>

\* What is known of one path while the verification runs: its metadata, or its
\* verdict and the hash to remember.
Todo == [is |-> "todo"]
Work == {Todo} \cup [is : {"seen"}, size : Nat, mtime : Times]
               \cup [is : {"decided"}, state : FileState, fresh : Entry \cup {NoEntry}]

Compare(found, p) == IF found = wanted[p] THEN "match" ELSE "differs"

Settle(p, state, fresh) ==
  job' = [job EXCEPT !.work[p] = [is |-> "decided", state |-> state, fresh |-> fresh]]

----------------------------------------------------------------------------
(* The file system and the site.                                            *)

Verifying(c) == job # NoJob /\ job.client = c

\* Files may change in any client, the one that is being verified included.
ChangeIn(c, how) ==
  /\ writes < MaxWrites
  /\ writes' = writes + 1
  /\ happened' = happened \cup how \cup (IF Verifying(c) THEN {"busy"} ELSE {})

\* A program writes a file. Its time is that of the write.
WriteFile(c, p, content) ==
  /\ ChangeIn(c, {})
  /\ clock' \in {t \in {clock, clock + 1} : t = clock => CoarseClock}
  /\ file' = [file EXCEPT ![c][p] = [content |-> content, mtime |-> clock']]
  /\ UNCHANGED <<wanted, cache, job, report>>

\* The player copies a client, times included.
CopyClient(from, to) ==
  /\ ChangeIn(to, {"copied"})
  /\ file[to] # file[from]
  /\ file' = [file EXCEPT ![to] = file[from]]
  /\ UNCHANGED <<clock, wanted, cache, job, report>>

\* The site publishes other hashes and the launcher fetches them. The launcher
\* does one thing at a time: never during a verification.
RefreshManifest(p, content) ==
  /\ writes < MaxWrites
  /\ job = NoJob
  /\ wanted' = [wanted EXCEPT ![p] = content]
  /\ writes' = writes + 1
  /\ UNCHANGED <<file, clock, cache, job, report, happened>>

----------------------------------------------------------------------------
(* verify_client                                                            *)

BeginVerify(c) ==
  /\ job = NoJob
  /\ job' = [client |-> c, work |-> [p \in Paths |-> Todo]]
  /\ UNCHANGED <<file, clock, writes, wanted, cache, report, happened>>

\* HashCache::get: the entry of this path, if it was made of a file of this size
\* and time.
Remembers_BySize(p, size, mtime) == cache[p] # NoEntry /\ cache[p].size = size

Remembers(p, size, mtime) ==
  /\ cache[p] # NoEntry
  /\ cache[p].size = size
  /\ cache[p].mtime = mtime

\* The verdict on a file the cache answers for.
CachedVerdict_Unchanged(p) == "match"

CachedVerdict(p) == Compare(cache[p].hash, p)

\* A worker looks at the metadata of a file.
Stat(p) ==
  /\ job # NoJob
  /\ job.work[p] = Todo
  /\ LET f == file[job.client][p] IN
       \/ f = NoFile /\ Settle(p, "missing", NoEntry)
       \/ /\ f # NoFile
          /\ SizeOf[f.content] # SizeOf[wanted[p]]
          /\ Settle(p, "wrong_size", NoEntry)
       \/ /\ f # NoFile
          /\ SizeOf[f.content] = SizeOf[wanted[p]]
          /\ IF Remembers(p, SizeOf[f.content], f.mtime)
               THEN Settle(p, CachedVerdict(p), NoEntry)
               ELSE job' = [job EXCEPT !.work[p] =
                              [is |-> "seen", size |-> SizeOf[f.content], mtime |-> f.mtime]]
  /\ UNCHANGED <<file, clock, writes, wanted, cache, report, happened>>

ToHash(p) == job # NoJob /\ job.work[p].is = "seen"

\* It reads the bytes, and will remember them under the metadata it saw.
HashFile(p) ==
  /\ ToHash(p)
  /\ LET f == file[job.client][p]
         seen == job.work[p] IN
       /\ f # NoFile
       /\ Settle(p, Compare(f.content, p),
                 [size |-> seen.size, mtime |-> seen.mtime, hash |-> f.content])
  /\ UNCHANGED <<file, clock, writes, wanted, cache, report, happened>>

\* Reading fails.
HashFails_Remembered(p) ==
  /\ ToHash(p)
  /\ Settle(p, "unreadable", [size |-> job.work[p].size, mtime |-> job.work[p].mtime,
                              hash |-> NoFile])
  /\ UNCHANGED <<file, clock, writes, wanted, cache, report, happened>>

HashFails(p) ==
  /\ ToHash(p)
  /\ Settle(p, "unreadable", NoEntry)
  /\ UNCHANGED <<file, clock, writes, wanted, cache, report, happened>>

\* The cache with the new hashes put in.
Updated == [p \in Paths |-> IF job.work[p].fresh = NoEntry THEN cache[p] ELSE job.work[p].fresh]
Empty == [p \in Paths |-> NoEntry]

\* Every file has its verdict. Saving the cache may fail, before the old file is
\* touched or in the middle of the new one, which then loads as an empty cache;
\* the report stands all the same.
FinishVerify ==
  /\ job # NoJob
  /\ \A p \in Paths : job.work[p].is = "decided"
  /\ cache' \in {Updated, cache, Empty}
  /\ report' = [client |-> job.client, state |-> [p \in Paths |-> job.work[p].state]]
  /\ job' = NoJob
  /\ UNCHANGED <<file, clock, writes, wanted, happened>>

\* The launcher is closed or killed. Reports live in memory only.
Quit ==
  /\ job' = NoJob
  /\ report' = NoReport
  /\ UNCHANGED <<file, clock, writes, wanted, cache, happened>>

Init ==
  /\ file = [c \in Clients |-> [p \in Paths |-> NoFile]]
  /\ clock = 0
  /\ writes = 0
  /\ wanted \in [Paths -> Contents]
  /\ cache = Empty
  /\ job = NoJob
  /\ report = NoReport
  /\ happened = {}

Next ==
  \/ \E c \in Clients, p \in Paths, content \in Contents : WriteFile(c, p, content)
  \/ \E from, to \in Clients : CopyClient(from, to)
  \/ \E p \in Paths, content \in Contents : RefreshManifest(p, content)
  \/ \E c \in Clients : BeginVerify(c)
  \/ \E p \in Paths : Stat(p) \/ HashFile(p) \/ HashFails(p)
  \/ FinishVerify
  \/ Quit

Spec == Init /\ [][Next]_vars

\* A verification that was started goes on, and the player asks for another.
FairSpec ==
  /\ Spec
  /\ WF_vars(\E c \in Clients : BeginVerify(c))
  /\ WF_vars(\E p \in Paths : Stat(p) \/ HashFile(p) \/ HashFails(p))
  /\ WF_vars(FinishVerify)

----------------------------------------------------------------------------
(* Properties *)

\* Files, cache, work under way and reports have the shape the code gives them.
TypeOK ==
  /\ file \in [Clients -> [Paths -> Stamped \cup {NoFile}]]
  /\ clock \in Times /\ writes \in Times /\ clock <= writes
  /\ wanted \in [Paths -> Contents]
  /\ cache \in [Paths -> Entry \cup {NoEntry}]
  /\ job \in {NoJob} \cup [client : Clients, work : [Paths -> Work]]
  /\ report \in {NoReport} \cup [client : Clients, state : [Paths -> FileState]]
  /\ happened \subseteq Intrusions

\* Until a file changes under a verification, the cache never answers for a file
\* it was not computed from: whatever client a file is in, if its path, size and
\* time are those of an entry, the entry has its hash. This is what lets one cache
\* serve every client, and survive a copied client, a verification that is killed
\* and a result that is only half saved.
CacheHonest ==
  "busy" \notin happened =>
    \A c \in Clients, p \in Paths :
      file[c][p] # NoFile /\ Remembers(p, SizeOf[file[c][p].content], file[c][p].mtime)
        => cache[p].hash = file[c][p].content

\* The verdict the files on the disk deserve.
Deserved(c, p) ==
  LET f == file[c][p] IN
  IF f = NoFile THEN "missing"
  ELSE IF SizeOf[f.content] # SizeOf[wanted[p]] THEN "wrong_size"
  ELSE Compare(f.content, p)

Truthful ==
  report # NoReport =>
    \A p \in Paths : report.state[p] \in {Deserved(report.client, p), "unreadable"}

\* A wrong line of the report can be put right by verifying again: once nobody
\* writes any more, the reports of a player who keeps asking become true, as long
\* as the machine has not seen both a write under a verification and a copied
\* client. The comment on HashCache promises a full re-hash for the file the cache
\* misjudges.
VerdictsSettle == <>[](Truthful \/ happened = Intrusions)
============================================================================
