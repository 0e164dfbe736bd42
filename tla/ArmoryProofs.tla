---------------------------- MODULE ArmoryProofs ----------------------------
(***************************************************************************)
(* Proofs about Armory, for any trees, nodes, prices, characters, pages at *)
(* a time, time the rankings are kept, and bounds: its types, that pages   *)
(* show what was charged at one moment, whom they do not show, and that a  *)
(* profile agrees with itself.                                             *)
(*                                                                         *)
(* What holds of a page holds of what it has read so far (Sound). Sound    *)
(* speaks of the purchases, the characters and the time only through its   *)
(* parameters, so that its two halves are proved apart: what happens in    *)
(* the realm leaves every page under way sound, and every step of a page   *)
(* makes a sound page of one. The rankings kept are sound the same way.    *)
(*                                                                         *)
(* A profile agrees with itself by what sums and orders come to: the sums  *)
(* of the library are determined by induction over finite sets, and the    *)
(* place of a tree by how many are deeper.                                 *)
(***************************************************************************)
EXTENDS Armory, FiniteSetTheorems, TLAPS

Steps == {"new", "asked", "found", "reading", "answered"}
Modes == {"none", "list", "not found", "interim", "build", "boards", "not live", "purchases", "error"}
Statements == {"nodes", "taken", "characters", "builds", "guilds", "rows"}
Reads == [read : BOOLEAN, rows : Rows]

\* What rankings may say of a character: a sum, or a count.
Sums == {Sum(rows) : rows \in Rows} \cup {Cardinality(nodes) : nodes \in SUBSET Node}
Depths == UNION {[S -> Sums] : S \in SUBSET Character}

Requests ==
  [step : Steps, page : Pages \cup {"none"}, of : Character \cup {"none"}, since : 0..MaxTime,
   from : Nat, level : 0..MaxLevel, named : BOOLEAN, priced : BOOLEAN, offered : Reads,
   taken : Reads, todo : SUBSET Statements, shown : SUBSET Character, depth : Depths,
   led : SUBSET Leaders, mode : Modes]
Boards ==
  [at : 0..Never, from : Nat, shown : SUBSET Character, depth : Depths,
   led : SUBSET Leaders, priced : BOOLEAN]

Bought_All == [Character -> Rows]
People == [Character -> [level : 1..MaxLevel, hiddenSince : 0..Never]]

-----------------------------------------------------------------------------
(* What holds of a page under way *)

\* Which page is at which step, and what it has still to read.
Staged(q) ==
  /\ q.step \in {"asked", "found", "reading"} /\ q.page # "boards" => q.of \in Character
  /\ q.step = "asked" => q.page \in Pages \ {"boards"}
  /\ q.step = "found" => q.page = "profile"
  /\ q.step = "reading" =>
       \/ q.page = "profile" /\ q.todo \subseteq {"nodes", "taken"}
       \/ q.page = "boards" /\ q.todo \subseteq {"characters", "builds", "guilds"}
       \/ q.page = "panel" /\ q.todo = {"rows"}
  /\ q.step # "reading" => q.todo = {}

\* What it has read of purchases, if anything, it read at one moment since it was
\* asked for; when an answer shows them, it has read them.
Charged(q, p) ==
  /\ q.from \in 1..Len(p)
  /\ q.taken.read => \E i \in q.from..Len(p) : q.taken.rows = p[i][q.of]
  /\ q.step = "reading" /\ q.page = "profile" /\ "taken" \notin q.todo => q.taken.read
  /\ q.step = "answered" /\ q.mode \in {"build", "purchases"} => q.taken.read

\* So it is with the sums of a ranking.
Ranked(q, p) ==
  /\ q.from \in 1..Len(p)
  /\ q.priced => \E i \in q.from..Len(p) : \A c \in DOMAIN q.depth : q.depth[c] = Sum(p[i][c])

Unranked(q) == q.page # "boards" \/ "builds" \in q.todo => DOMAIN q.depth = {}

\* Whoever it shows was to be seen when it was asked for; rankings may be older by
\* the time they are kept.
Age(q) == IF q.step = "answered" /\ q.mode = "boards" THEN CacheTicks ELSE 0
SeenSince(q, t, ch) ==
  \A c \in q.shown \cup DOMAIN q.depth : ch[c].hiddenSince >= t

Sound(q, p, ch, t) ==
  /\ q \in Requests /\ q.since <= t
  /\ Staged(q) /\ Charged(q, p) /\ Ranked(q, p) /\ Unranked(q)
  /\ SeenSince(q, q.since - Age(q), ch)

SoundBoards(b, p, ch, t) ==
  /\ b \in Boards /\ Ranked(b, p)
  /\ \/ b.at = Never /\ b.shown = {} /\ DOMAIN b.depth = {}
     \/ b.at <= t /\ SeenSince(b, b.at, ch)

-----------------------------------------------------------------------------
(* What holds of the realm *)

RealmOK ==
  /\ node \in [Node -> [cost : Costs, enabled : BOOLEAN]]
  /\ past \in Seq(Bought_All)
  /\ live \in BOOLEAN /\ (~live => past = << [c \in Character |-> NoRows] >>)
  /\ char \in People
  /\ clock \in 0..MaxTime /\ changes \in 0..MaxChanges

PagesOK ==
  /\ request \in [Request -> Requests]
  /\ \A r \in Request : Sound(request[r], past, char, clock)

ArmoryInv == RealmOK /\ PagesOK /\ SoundBoards(boards, past, char, clock)

-----------------------------------------------------------------------------
(* Rows, depths and pages that have read nothing *)

LEMMA NothingBought == NoRows \in Rows /\ NotRead \in Reads
<1>1. NoRows \in [{} -> Costs]  BY DEF NoRows
<1>2. NoRows \in Rows
  <2>1. {} \in SUBSET Node  OBVIOUS
  <2>2. QED  BY <1>1, <2>1 DEF Rows
<1>3. QED  BY <1>2 DEF NotRead, Reads

LEMMA NothingRanked == [c \in {} |-> 0] \in Depths
<1>1. [c \in {} |-> 0] \in [{} -> Sums]  OBVIOUS
<1>2. {} \in SUBSET Character  OBVIOUS
<1>3. QED  BY <1>1, <1>2 DEF Depths

LEMMA RowsHaveNodes == ASSUME NEW rows \in Rows PROVE DOMAIN rows \in SUBSET Node
BY DEF Rows

LEMMA RowsArePriced ==
  ASSUME NEW rows, NEW S \in SUBSET Node, rows \in [S -> Costs] PROVE rows \in Rows
BY DEF Rows

LEMMA DepthsNameCharacters == ASSUME NEW d \in Depths PROVE DOMAIN d \in SUBSET Character
BY DEF Depths

LEMMA RowsBought ==
  ASSUME NEW p \in Seq(Bought_All), NEW i \in 1..Len(p), NEW c \in Character
  PROVE  p[i][c] \in Rows
<1>1. p[i] \in Bought_All  OBVIOUS
<1>2. QED  BY <1>1 DEF Bought_All

\* A page not begun, or one that has nothing to show, has read nothing.
Blank(q) ==
  /\ q \in Requests
  /\ q.since = 0 /\ q.from = 1 /\ ~q.taken.read /\ q.todo = {} /\ q.shown = {}
  /\ q.depth = [c \in {} |-> 0]

LEMMA UnusedIsBlank ==
  /\ Blank(Unused) /\ Unused.step = "new" /\ Unused.mode = "none" /\ Unused.page = "none"
<1>1. Unused \in Requests
  BY ArmoryAssumption, NothingBought, NothingRanked
  DEF ArmoryAssumption, Unused, Requests, Steps, Modes
<1>2. QED  BY <1>1 DEF Unused, Blank, NotRead

LEMMA BlankIsSound ==
  ASSUME NEW q, Blank(q), q.step \in {"new", "answered"},
         q.step = "answered" => q.mode \notin {"build", "purchases"},
         NEW p \in Seq(Bought_All), Len(p) >= 1, NEW ch, NEW t \in 0..MaxTime
  PROVE  Sound(q, p, ch, t)
<1>1. DOMAIN q.depth = {}  BY DEF Blank
<1>2. q \in Requests /\ q.since <= t  BY DEF Blank
<1>3. Staged(q)  BY DEF Blank, Staged
<1>4. q.from \in 1..Len(p)  BY DEF Blank
<1>5. Charged(q, p)  BY <1>4 DEF Blank, Charged
<1>6. Ranked(q, p)
  <2>1. q.from \in q.from..Len(p)  BY <1>4
  <2>2. QED  BY <1>1, <1>4, <2>1 DEF Ranked
<1>7. Unranked(q)  BY <1>1 DEF Unranked
<1>8. SeenSince(q, q.since - Age(q), ch)  BY <1>1 DEF Blank, SeenSince
<1>9. QED  BY <1>2, <1>3, <1>5, <1>6, <1>7, <1>8 DEF Sound

LEMMA NothingIsBlank ==
  ASSUME NEW q \in Requests, NEW mode \in Modes
  PROVE  Blank(Nothing(q, mode)) /\ Nothing(q, mode).step = "answered" /\ Nothing(q, mode).mode = mode
<1>1. Unused \in Requests  BY UnusedIsBlank DEF Blank
<1>2. Nothing(q, mode) \in Requests  BY <1>1 DEF Nothing, Answered, Requests, Steps
<1>3. QED  BY <1>1, <1>2, UnusedIsBlank DEF Nothing, Answered, Blank, Requests
\* An answer shows what was read.
LEMMA AnsweredIsSound ==
  ASSUME NEW p, NEW ch \in People, NEW t \in 0..MaxTime, NEW q, Sound(q, p, ch, t),
         q.step # "answered", NEW mode \in Modes,
         mode \in {"build", "purchases"} => q.taken.read
  PROVE  Sound(Answered(q, mode), p, ch, t)
<1> DEFINE a == Answered(q, mode)
<1>1. q \in Requests  BY DEF Sound
<1>2. /\ a \in Requests /\ a.step = "answered" /\ a.mode = mode /\ a.todo = {}
      /\ a.page = q.page /\ a.of = q.of /\ a.since = q.since /\ a.from = q.from
      /\ a.priced = q.priced /\ a.taken = q.taken /\ a.shown = q.shown /\ a.depth = q.depth
  BY <1>1 DEF Answered, Requests, Steps
<1> HIDE DEF a
<1>3. Staged(a)  BY <1>2 DEF Staged
<1>4. Charged(a, p)  BY <1>2 DEF Sound, Charged
<1>5. Ranked(a, p)  BY <1>2 DEF Sound, Ranked
<1>6. Unranked(a)  BY <1>2 DEF Sound, Unranked
<1>7. SeenSince(a, a.since - Age(a), ch)
  <2>1. SeenSince(q, q.since, ch)
    <3>1. q.since \in Int  BY <1>1 DEF Requests
    <3>2. Age(q) = 0  BY DEF Age
    <3>3. q.since - Age(q) = q.since  BY <3>1, <3>2
    <3>4. QED  BY <3>3 DEF Sound
  <2>2. Age(a) \in Nat  BY ArmoryAssumption DEF ArmoryAssumption, Age
  <2>3. ASSUME NEW c \in a.shown \cup DOMAIN a.depth
        PROVE  ch[c].hiddenSince >= a.since - Age(a)
    <3>1. ch[c].hiddenSince >= q.since  BY <1>2, <2>1, <2>3 DEF SeenSince
    <3>2. c \in Character  BY <1>2, <2>3, DepthsNameCharacters DEF Requests
    <3>3. ch[c].hiddenSince \in Int  BY <3>2, ArmoryAssumption DEF People, ArmoryAssumption, Never
    <3>4. q.since \in Int  BY <1>1 DEF Requests
    <3>5. QED  BY <1>2, <2>2, <3>1, <3>3, <3>4
  <2>4. QED  BY <2>3 DEF SeenSince
<1>8. a.since <= t  BY <1>2 DEF Sound
<1>9. QED  BY <1>2, <1>3, <1>4, <1>5, <1>6, <1>7, <1>8 DEF Sound, a

LEMMA NeverIsLast == ASSUME NEW t \in 0..MaxTime PROVE Never \in Nat /\ t < Never
BY ArmoryAssumption DEF ArmoryAssumption, Never

LEMMA UnrankedIsRanked ==
  ASSUME NEW p, NEW a, a.from \in 1..Len(p), Len(p) \in Nat, DOMAIN a.depth = {}
  PROVE  Ranked(a, p) /\ Unranked(a)
<1>1. a.from \in a.from..Len(p)  OBVIOUS
<1>2. QED  BY <1>1 DEF Ranked, Unranked

\* A page just asked for.
LEMMA AskedIsSound ==
  ASSUME NEW p \in Seq(Bought_All), NEW ch \in People, NEW t \in 0..MaxTime,
         NEW a \in Requests, a.step # "answered", a.since = t, a.from \in 1..Len(p), Staged(a),
         ~a.taken.read, "taken" \in a.todo \/ a.page # "profile" \/ a.step # "reading",
         a.shown = {}, DOMAIN a.depth = {}
  PROVE  Sound(a, p, ch, t)
<1>1. Charged(a, p)  BY DEF Charged
<1>2. Ranked(a, p) /\ Unranked(a)
  <2>1. Len(p) \in Nat  OBVIOUS
  <2>2. QED  BY <2>1, UnrankedIsRanked
<1>3. SeenSince(a, a.since - Age(a), ch)  BY DEF SeenSince
<1>4. QED  BY <1>1, <1>2, <1>3 DEF Sound

\* A step of a page that is not its answer keeps the time it was asked for, and
\* shows nobody who is hidden now.
LEMMA StepIsSound ==
  ASSUME NEW p, NEW ch \in People, NEW t \in 0..MaxTime, NEW q, Sound(q, p, ch, t),
         NEW a \in Requests, q.step # "answered", a.step # "answered", a.since = q.since,
         Staged(a), Charged(a, p), Ranked(a, p), Unranked(a),
         \A c \in a.shown \cup DOMAIN a.depth :
           c \in q.shown \cup DOMAIN q.depth \/ ch[c].hiddenSince = Never
  PROVE  Sound(a, p, ch, t)
<1>1. q.since \in Int /\ q.since <= t  BY DEF Sound, Requests
<1>2. q.since - Age(q) = q.since /\ a.since - Age(a) = q.since  BY <1>1 DEF Age
<1>3. SeenSince(q, q.since, ch)  BY <1>2 DEF Sound
<1>4. ASSUME NEW c \in a.shown \cup DOMAIN a.depth
      PROVE  ch[c].hiddenSince >= q.since
  <2>1. CASE c \in q.shown \cup DOMAIN q.depth  BY <2>1, <1>3 DEF SeenSince
  <2>2. CASE ch[c].hiddenSince = Never
    BY <2>2, <1>1, NeverIsLast
  <2>3. QED  BY <1>4, <2>1, <2>2
<1>5. SeenSince(a, a.since - Age(a), ch)  BY <1>2, <1>4 DEF SeenSince
<1>6. QED  BY <1>1, <1>5 DEF Sound

-----------------------------------------------------------------------------
(* Every step of a page makes it a sound page *)

Moves(r) == \E q : Sound(q, past, char, clock) /\ Goes(r, q)

LEMMA PageAtHand ==
  ASSUME ArmoryInv, NEW r \in Request
  PROVE  /\ Sound(request[r], past, char, clock) /\ request[r] \in Requests
         /\ Staged(request[r]) /\ Charged(request[r], past) /\ Ranked(request[r], past)
         /\ Unranked(request[r])
         /\ past \in Seq(Bought_All) /\ char \in People /\ clock \in 0..MaxTime
         /\ Now \in Nat /\ Now >= 1 /\ Len(past) = Now /\ request[r].from \in 1..Now
<1>1. Sound(request[r], past, char, clock)  BY DEF ArmoryInv, PagesOK
<1>2. past \in Seq(Bought_All) /\ char \in People /\ clock \in 0..MaxTime
  BY DEF ArmoryInv, RealmOK
<1>3. request[r].from \in 1..Len(past)  BY <1>1 DEF Sound, Charged
<1>4. QED  BY <1>1, <1>2, <1>3 DEF Sound, Now

LEMMA AskMoves ==
  ASSUME ArmoryInv, NEW r \in Request, NEW page \in Pages, NEW c \in Character, Ask(r, page, c)
  PROVE  Moves(r)
<1> DEFINE a == [Unused EXCEPT !.step = "asked", !.page = page, !.of = c,
                               !.since = clock, !.from = Now]
<1>1. Unused \in Requests /\ DOMAIN Unused.depth = {} /\ Unused.shown = {}
      /\ ~Unused.taken.read /\ Unused.todo = {}
  BY UnusedIsBlank DEF Blank
<1>2. Now \in 1..Now /\ Now \in Nat /\ clock \in 0..MaxTime
  BY PageAtHand
<1>3. /\ a \in Requests /\ a.step = "asked" /\ a.page = page /\ a.of = c /\ a.since = clock
      /\ a.from = Now /\ a.taken = Unused.taken /\ a.todo = Unused.todo
      /\ a.shown = Unused.shown /\ a.depth = Unused.depth
  BY <1>1, <1>2 DEF Requests, Steps
<1>4. Goes(r, a) /\ page # "boards"  BY DEF Ask
<1> HIDE DEF a
<1>5. Staged(a)  BY <1>1, <1>3, <1>4 DEF Staged
<1>6. Sound(a, past, char, clock)
  BY <1>1, <1>2, <1>3, <1>5, AskedIsSound, PageAtHand
<1>7. QED  BY <1>4, <1>6 DEF Moves
\* A list: those it shows are to be seen now.
LEMMA ListIsSound ==
  ASSUME ArmoryInv, NEW r \in Request, At(r, "asked"), request[r].page \in {"search", "online"},
         NEW found \in SUBSET {c \in Character : Visible(c)}
  PROVE  Sound(Answered([request[r] EXCEPT !.shown = found], "list"), past, char, clock)
<1> DEFINE q == request[r]
           a == [q EXCEPT !.shown = found]
<1>1. q \in Requests /\ q.step = "asked"  BY PageAtHand DEF At
<1>2. /\ a \in Requests /\ a.step = q.step /\ a.page = q.page /\ a.of = q.of /\ a.since = q.since
      /\ a.from = q.from /\ a.priced = q.priced /\ a.taken = q.taken /\ a.todo = q.todo
      /\ a.shown = found /\ a.depth = q.depth /\ a.mode = q.mode
  BY <1>1 DEF Requests
<1>3. \A c \in found : char[c].hiddenSince = Never  BY DEF Visible
<1> HIDE DEF a
<1>4. Staged(a) /\ Charged(a, past) /\ Ranked(a, past) /\ Unranked(a)
  <2>1. Staged(a)  BY <1>2, PageAtHand DEF Staged
  <2>2. Charged(a, past)  BY <1>2, PageAtHand DEF Charged
  <2>3. Ranked(a, past)  BY <1>2, PageAtHand DEF Ranked
  <2>4. Unranked(a)  BY <1>2, PageAtHand DEF Unranked
  <2>5. QED  BY <2>1, <2>2, <2>3, <2>4
<1>5. Sound(a, past, char, clock)
  BY <1>1, <1>2, <1>3, <1>4, StepIsSound, PageAtHand
<1>6. Sound(Answered(a, "list"), past, char, clock)
  BY <1>1, <1>2, <1>5, AnsweredIsSound, PageAtHand DEF Modes
<1>7. QED  BY <1>6 DEF a

LEMMA SearchMoves ==
  ASSUME ArmoryInv, NEW r \in Request, SearchCharacters(r) \/ GetOnlineCharacters(r)
  PROVE  Moves(r)
BY ListIsSound DEF SearchCharacters, GetOnlineCharacters, Moves

\* Nothing to show, whatever was asked for.
LEMMA NothingMoves ==
  ASSUME ArmoryInv, NEW r \in Request, NEW mode \in Modes \ {"build", "purchases"},
         Goes(r, Nothing(request[r], mode))
  PROVE  Moves(r)
<1>1. Blank(Nothing(request[r], mode)) /\ Nothing(request[r], mode).step = "answered"
      /\ Nothing(request[r], mode).mode = mode
  BY PageAtHand, NothingIsBlank
<1>2. Sound(Nothing(request[r], mode), past, char, clock)
  BY <1>1, PageAtHand, BlankIsSound
<1>3. QED  BY <1>2 DEF Moves

LEMMA FoundMoves ==
  ASSUME ArmoryInv, NEW r \in Request, GetCharacterProfile(r)
  PROVE  Moves(r)
<1> DEFINE q == request[r]
           a == [q EXCEPT !.step = "found", !.shown = {q.of}, !.level = char[q.of].level]
<1>1. q \in Requests /\ q.step = "asked" /\ q.page = "profile"
  BY PageAtHand DEF GetCharacterProfile, At
<1>2. q.of \in Character  BY <1>1, PageAtHand DEF Staged
<1>3. char[q.of].level \in 0..MaxLevel
  BY <1>2, PageAtHand, ArmoryAssumption DEF People, ArmoryAssumption
<1>4. /\ a \in Requests /\ a.step = "found" /\ a.page = q.page /\ a.of = q.of /\ a.since = q.since
      /\ a.from = q.from /\ a.priced = q.priced /\ a.taken = q.taken /\ a.todo = q.todo
      /\ a.shown = {q.of} /\ a.depth = q.depth
  BY <1>1, <1>2, <1>3 DEF Requests, Steps
<1> HIDE DEF a
<1>5. CASE Visible(q.of)
  <2>1. Goes(r, a)  BY <1>5 DEF GetCharacterProfile, a
  <2>2. Staged(a)  BY <1>1, <1>4, PageAtHand DEF Staged
  <2>3. Charged(a, past)  BY <1>4, PageAtHand DEF Charged
  <2>4. Ranked(a, past)  BY <1>4, PageAtHand DEF Ranked
  <2>5. Unranked(a)  BY <1>4, PageAtHand DEF Unranked
  <2>6. char[q.of].hiddenSince = Never  BY <1>5 DEF Visible
  <2>7. Sound(a, past, char, clock)
    BY <1>1, <1>4, <2>2, <2>3, <2>4, <2>5, <2>6, StepIsSound, PageAtHand
  <2>8. QED  BY <2>1, <2>7 DEF Moves
<1>6. CASE ~Visible(q.of)
  <2>1. Goes(r, Nothing(request[r], "not found"))  BY <1>6 DEF GetCharacterProfile
  <2>2. QED  BY <2>1, NothingMoves DEF Modes
<1>7. QED  BY <1>5, <1>6

LEMMA LoadBuildMoves ==
  ASSUME ArmoryInv, NEW r \in Request, LoadBuild(r)
  PROVE  Moves(r)
<1> DEFINE q == request[r]
           a(named, priced) == [q EXCEPT !.step = "reading", !.named = named, !.priced = priced,
                                         !.todo = {"nodes", "taken"}]
<1>1. /\ q \in Requests /\ q.step = "found" /\ q.page = "profile" /\ DOMAIN q.depth = {}
      /\ q.of \in Character
  BY PageAtHand DEF LoadBuild, At, Staged, Unranked
<1>2. PICK present \in TableExists, named \in BOOLEAN, priced \in BOOLEAN :
        IF present THEN Goes(r, a(named, priced)) ELSE Goes(r, Nothing(request[r], "interim"))
  BY DEF LoadBuild, ColumnsOf
<1>3. CASE present
  <2> DEFINE b == a(named, priced)
  <2>1. /\ b \in Requests /\ b.step = "reading" /\ b.page = q.page /\ b.of = q.of
        /\ b.since = q.since /\ b.from = q.from /\ b.taken = q.taken
        /\ b.todo = {"nodes", "taken"} /\ b.shown = q.shown /\ b.depth = q.depth
    BY <1>1 DEF Requests, Steps, Statements
  <2>2. Goes(r, b)  BY <1>2, <1>3
  <2> HIDE DEF b
  <2>3. Staged(b)  BY <1>1, <2>1 DEF Staged
  <2>4. Charged(b, past)  BY <2>1, PageAtHand DEF Charged
  <2>5. Ranked(b, past) /\ Unranked(b)  BY <1>1, <2>1, PageAtHand, UnrankedIsRanked
  <2>6. Sound(b, past, char, clock)
    BY <1>1, <2>1, <2>3, <2>4, <2>5, StepIsSound, PageAtHand
  <2>7. QED  BY <2>2, <2>6 DEF Moves
<1>4. CASE ~present  BY <1>2, <1>4, NothingMoves DEF Modes
<1>5. QED  BY <1>3, <1>4

\* A page that has read one more of its statements is where it was, and keeps
\* what it showed.
LEMMA ReadIsSound ==
  ASSUME ArmoryInv, NEW r \in Request, NEW a \in Requests, NEW done \in request[r].todo,
         request[r].step = "reading", request[r].page # "panel",
         a.step = "reading", a.page = request[r].page, a.of = request[r].of, a.since = request[r].since,
         a.todo = request[r].todo \ {done}, a.from = request[r].from,
         Charged(a, past), Ranked(a, past), Unranked(a),
         \A c \in a.shown \cup DOMAIN a.depth :
           c \in request[r].shown \cup DOMAIN request[r].depth \/ char[c].hiddenSince = Never
  PROVE  Sound(a, past, char, clock)
<1> DEFINE q == request[r]
<1>1. \/ q.page = "profile" /\ q.todo \subseteq {"nodes", "taken"}
      \/ q.page = "boards" /\ q.todo \subseteq {"characters", "builds", "guilds"}
  BY PageAtHand DEF Staged
<1>2. q.page # "boards" => q.of \in Character  BY PageAtHand DEF Staged
<1>3. Staged(a)  BY <1>1, <1>2 DEF Staged
<1>4. QED  BY <1>3, StepIsSound, PageAtHand
LEMMA OfferedAreRows ==
  ASSUME ArmoryInv, NEW named \in BOOLEAN
  PROVE  NodesOffered(named) \in Rows
<1> DEFINE S == {m \in Node : node[m].enabled \/ ~named}
<1>1. S \in SUBSET Node  OBVIOUS
<1>2. \A n \in S : node[n].cost \in Costs  BY DEF ArmoryInv, RealmOK
<1>3. NodesOffered(named) \in [S -> Costs]  BY <1>2 DEF NodesOffered
<1>4. QED  BY <1>1, <1>3, RowsArePriced

LEMMA ReadNodesMoves ==
  ASSUME ArmoryInv, NEW r \in Request, ReadNodes(r)
  PROVE  Moves(r)
<1> DEFINE q == request[r]
           rows == NodesOffered(q.named)
           a == [q EXCEPT !.offered = Read(rows), !.todo = @ \ {"nodes"}]
<1>1. q \in Requests /\ q.step = "reading" /\ "nodes" \in q.todo
  BY PageAtHand DEF ReadNodes, Outstanding, At
<1>2. q.page = "profile"  BY <1>1, PageAtHand DEF Staged
<1>3. Read(rows) \in Reads
  <2>1. q.named \in BOOLEAN  BY <1>1 DEF Requests
  <2>2. rows \in Rows  BY <2>1, OfferedAreRows
  <2>3. QED  BY <2>2 DEF Read, Reads
<1>4. Goes(r, a)  BY DEF ReadNodes
<1> HIDE DEF rows
<1>5. /\ a \in Requests /\ a.step = "reading" /\ a.page = q.page /\ a.of = q.of
      /\ a.since = q.since /\ a.from = q.from /\ a.priced = q.priced /\ a.taken = q.taken
      /\ a.todo = q.todo \ {"nodes"} /\ a.shown = q.shown /\ a.depth = q.depth
  BY <1>1, <1>3 DEF Requests
<1> HIDE DEF a
<1>6. Charged(a, past)  BY <1>1, <1>5, PageAtHand DEF Charged
<1>7. Ranked(a, past)  BY <1>5, PageAtHand DEF Ranked
<1>8. Unranked(a)  BY <1>2, <1>5, PageAtHand DEF Unranked
<1>9. Sound(a, past, char, clock)
  BY <1>1, <1>2, <1>5, <1>6, <1>7, <1>8, ReadIsSound
<1>10. QED  BY <1>4, <1>9 DEF Moves

\* The purchases just read are those of now.
LEMMA TakenIsCharged ==
  ASSUME ArmoryInv, NEW r \in Request, NEW a, a.from = request[r].from, a.of = request[r].of,
         a.taken = Read(Bought(request[r].of))
  PROVE  Charged(a, past)
<1>1. a.taken.read /\ a.taken.rows = past[Now][a.of]  BY DEF Read, Bought
<1>2. Now \in a.from..Now  BY PageAtHand
<1>3. QED  BY <1>1, <1>2, PageAtHand DEF Charged

LEMMA BoughtAreRead ==
  ASSUME ArmoryInv, NEW r \in Request, NEW c \in Character
  PROVE  Read(Bought(c)) \in Reads
<1>1. past[Now][c] \in Rows  BY PageAtHand, RowsBought
<1>2. QED  BY <1>1 DEF Bought, Read, Reads

LEMMA ReadTakenMoves ==
  ASSUME ArmoryInv, NEW r \in Request, ReadTaken(r)
  PROVE  Moves(r)
<1> DEFINE q == request[r]
           taken == Read(Bought(q.of))
           a == [q EXCEPT !.taken = taken, !.todo = @ \ {"taken"}]
<1>1. q \in Requests /\ q.step = "reading" /\ "taken" \in q.todo
  BY PageAtHand DEF ReadTaken, Outstanding, At
<1>2. q.page = "profile" /\ q.of \in Character  BY <1>1, PageAtHand DEF Staged
<1>3. taken \in Reads  BY <1>2, BoughtAreRead
<1>4. Goes(r, a)  BY DEF ReadTaken
<1>5. taken = Read(Bought(q.of))  OBVIOUS
<1> HIDE DEF taken
<1>6. /\ a \in Requests /\ a.step = "reading" /\ a.page = q.page /\ a.of = q.of
      /\ a.since = q.since /\ a.from = q.from /\ a.priced = q.priced /\ a.taken = taken
      /\ a.todo = q.todo \ {"taken"} /\ a.shown = q.shown /\ a.depth = q.depth
  BY <1>1, <1>3 DEF Requests
<1> HIDE DEF a
<1>7. Charged(a, past)  BY <1>5, <1>6, TakenIsCharged
<1>8. Ranked(a, past)  BY <1>6, PageAtHand DEF Ranked
<1>9. Unranked(a)  BY <1>2, <1>6, PageAtHand DEF Unranked
<1>10. Sound(a, past, char, clock)
  BY <1>1, <1>2, <1>6, <1>7, <1>8, <1>9, ReadIsSound
<1>11. QED  BY <1>4, <1>10 DEF Moves

LEMMA AnswerProfileMoves ==
  ASSUME ArmoryInv, NEW r \in Request, AnswerProfile(r)
  PROVE  Moves(r)
<1>1. request[r].step = "reading" /\ request[r].page = "profile" /\ request[r].todo = {}
  BY DEF AnswerProfile, At
<1>2. request[r].taken.read  BY <1>1, PageAtHand DEF Charged
<1>3. Sound(Answered(request[r], "build"), past, char, clock)
  BY <1>1, <1>2, AnsweredIsSound, PageAtHand DEF Modes
<1>4. QED  BY <1>3 DEF AnswerProfile, Answers, Moves

LEMMA CharacterBoardMoves ==
  ASSUME ArmoryInv, NEW r \in Request, CharacterBoard(r)
  PROVE  Moves(r)
<1> DEFINE q == request[r]
           seen == {c \in Character : Visible(c)}
           a == [q EXCEPT !.shown = @ \cup seen, !.todo = @ \ {"characters"}]
<1>1. q \in Requests /\ q.step = "reading" /\ "characters" \in q.todo
  BY PageAtHand DEF CharacterBoard, Outstanding, At
<1>2. q.page = "boards"  BY <1>1, PageAtHand DEF Staged
<1>3. seen \in SUBSET Character /\ \A c \in seen : char[c].hiddenSince = Never
  BY DEF Visible
<1>4. Goes(r, a)  BY DEF CharacterBoard
<1> HIDE DEF seen
<1>5. /\ a \in Requests /\ a.step = "reading" /\ a.page = q.page /\ a.of = q.of
      /\ a.since = q.since /\ a.from = q.from /\ a.priced = q.priced /\ a.taken = q.taken
      /\ a.todo = q.todo \ {"characters"} /\ a.shown = q.shown \cup seen /\ a.depth = q.depth
  BY <1>1, <1>3 DEF Requests
<1> HIDE DEF a
<1>6. Charged(a, past)  BY <1>1, <1>2, <1>5, PageAtHand DEF Charged
<1>7. Ranked(a, past)  BY <1>5, PageAtHand DEF Ranked
<1>8. Unranked(a)  BY <1>2, <1>5, PageAtHand DEF Unranked
<1>9. Sound(a, past, char, clock)
  BY <1>1, <1>2, <1>3, <1>5, <1>6, <1>7, <1>8, ReadIsSound
<1>10. QED  BY <1>4, <1>9 DEF Moves

\* The sums just read are those of now, of characters to be seen now.
LEMMA DepthIsRanked ==
  ASSUME ArmoryInv, NEW r \in Request, NEW priced \in BOOLEAN
  PROVE  /\ Depth(priced) \in Depths
         /\ \A c \in DOMAIN Depth(priced) : char[c].hiddenSince = Never
         /\ priced => \A c \in DOMAIN Depth(priced) : Depth(priced)[c] = Sum(past[Now][c])
<1> DEFINE S == {d \in Character : Visible(d) /\ DOMAIN Bought(d) # {}}
<1>1. S \in SUBSET Character  OBVIOUS
<1>2. Depth(priced) = [c \in S |-> IF priced THEN Sum(Bought(c))
                                            ELSE Cardinality(DOMAIN Bought(c))]
  BY DEF Depth
<1>3. ASSUME NEW c \in S
      PROVE  Sum(Bought(c)) \in Sums /\ Cardinality(DOMAIN Bought(c)) \in Sums
  <2>1. past[Now][c] \in Rows  BY PageAtHand, RowsBought
  <2>2. DOMAIN past[Now][c] \in SUBSET Node  BY <2>1, RowsHaveNodes
  <2>3. QED  BY <2>1, <2>2 DEF Bought, Sums
<1>4. Depth(priced) \in [S -> Sums]  BY <1>2, <1>3
<1>5. Depth(priced) \in Depths  BY <1>1, <1>4 DEF Depths
<1>6. \A c \in S : char[c].hiddenSince = Never  BY DEF Visible
<1>7. QED  BY <1>2, <1>5, <1>6 DEF Bought

LEMMA BuildDepthMoves ==
  ASSUME ArmoryInv, NEW r \in Request, BuildDepthBoard(r)
  PROVE  Moves(r)
<1> DEFINE q == request[r]
           a(priced, depth) == [q EXCEPT !.priced = priced, !.todo = @ \ {"builds"}, !.depth = depth]
<1>1. q \in Requests /\ q.step = "reading" /\ "builds" \in q.todo
  BY PageAtHand DEF BuildDepthBoard, Outstanding, At
<1>2. q.page = "boards" /\ DOMAIN q.depth = {}  BY <1>1, PageAtHand DEF Staged, Unranked
<1>3. PICK present \in TableExists, priced \in BOOLEAN :
        Goes(r, a(priced, IF present THEN Depth(priced) ELSE q.depth))
  BY DEF BuildDepthBoard, ColumnsOf
<1> DEFINE depth == IF present THEN Depth(priced) ELSE q.depth
           b == a(priced, depth)
<1>4. depth \in Depths /\ (depth = Depth(priced) \/ DOMAIN depth = {})
  BY <1>1, <1>2, DepthIsRanked DEF Requests
<1>5. Goes(r, b)  BY <1>3
<1> HIDE DEF depth
<1>6. /\ b \in Requests /\ b.step = "reading" /\ b.page = q.page /\ b.of = q.of
      /\ b.since = q.since /\ b.from = q.from /\ b.priced = priced /\ b.taken = q.taken
      /\ b.todo = q.todo \ {"builds"} /\ b.shown = q.shown /\ b.depth = depth
  BY <1>1, <1>4 DEF Requests
<1> HIDE DEF b
<1>7. Charged(b, past)  BY <1>1, <1>2, <1>6, PageAtHand DEF Charged
<1>8. Unranked(b)  BY <1>2, <1>6 DEF Unranked
<1>9. Ranked(b, past)
  <2>1. CASE DOMAIN depth = {}  BY <2>1, <1>6, PageAtHand, UnrankedIsRanked
  <2>2. CASE depth = Depth(priced)
    <3>1. Now \in b.from..Len(past)  BY <1>6, PageAtHand
    <3>2. b.priced => \A c \in DOMAIN b.depth : b.depth[c] = Sum(past[Now][c])
      BY <1>6, <2>2, DepthIsRanked
    <3>3. QED  BY <1>6, <3>1, <3>2, PageAtHand DEF Ranked
  <2>3. QED  BY <1>4, <2>1, <2>2
<1>10. \A c \in DOMAIN depth : char[c].hiddenSince = Never  BY <1>4, DepthIsRanked
<1>11. Sound(b, past, char, clock)
  BY <1>1, <1>2, <1>6, <1>7, <1>8, <1>9, <1>10, ReadIsSound
<1>12. QED  BY <1>5, <1>11 DEF Moves
LEMMA GuildBoardMoves ==
  ASSUME ArmoryInv, NEW r \in Request, GuildBoard(r)
  PROVE  Moves(r)
<1> DEFINE q == request[r]
           a == [q EXCEPT !.led = Leaders, !.todo = @ \ {"guilds"}]
<1>1. q \in Requests /\ q.step = "reading" /\ "guilds" \in q.todo
  BY PageAtHand DEF GuildBoard, Outstanding, At
<1>2. q.page = "boards"  BY <1>1, PageAtHand DEF Staged
<1>3. Goes(r, a)  BY DEF GuildBoard
<1>4. /\ a \in Requests /\ a.step = "reading" /\ a.page = q.page /\ a.of = q.of
      /\ a.since = q.since /\ a.from = q.from /\ a.priced = q.priced /\ a.taken = q.taken
      /\ a.todo = q.todo \ {"guilds"} /\ a.shown = q.shown /\ a.depth = q.depth
  BY <1>1 DEF Requests
<1> HIDE DEF a
<1>5. Charged(a, past)  BY <1>1, <1>2, <1>4, PageAtHand DEF Charged
<1>6. Ranked(a, past)  BY <1>4, PageAtHand DEF Ranked
<1>7. Unranked(a)  BY <1>2, <1>4, PageAtHand DEF Unranked
<1>8. Sound(a, past, char, clock)
  BY <1>1, <1>2, <1>4, <1>5, <1>6, <1>7, ReadIsSound
<1>9. QED  BY <1>3, <1>8 DEF Moves

LEMMA PanelMoves ==
  ASSUME ArmoryInv, NEW r \in Request, ClasslessLive(r)
  PROVE  Moves(r)
<1> DEFINE q == request[r]
           a == [q EXCEPT !.step = "reading", !.todo = {"rows"}]
<1>1. q \in Requests /\ q.step = "asked" /\ q.page = "panel" /\ DOMAIN q.depth = {}
  BY PageAtHand DEF ClasslessLive, At, Unranked
<1>2. PICK present \in TableExists :
        Goes(r, IF present THEN a ELSE Nothing(request[r], "not live"))
  BY DEF ClasslessLive
<1>3. CASE present
  <2>1. /\ a \in Requests /\ a.step = "reading" /\ a.page = q.page /\ a.of = q.of
        /\ a.since = q.since /\ a.from = q.from /\ a.priced = q.priced /\ a.taken = q.taken
        /\ a.todo = {"rows"} /\ a.shown = q.shown /\ a.depth = q.depth
    BY <1>1 DEF Requests, Steps, Statements
  <2>2. Goes(r, a)  BY <1>2, <1>3
  <2> HIDE DEF a
  <2>3. Staged(a)  BY <1>1, <2>1, PageAtHand DEF Staged
  <2>4. Charged(a, past)  BY <1>1, <2>1, PageAtHand DEF Charged
  <2>5. Ranked(a, past) /\ Unranked(a)  BY <1>1, <2>1, PageAtHand, UnrankedIsRanked
  <2>6. Sound(a, past, char, clock)
    BY <1>1, <2>1, <2>3, <2>4, <2>5, StepIsSound, PageAtHand
  <2>7. QED  BY <2>2, <2>6 DEF Moves
<1>4. CASE ~present
  <2>1. Goes(r, Nothing(request[r], "not live"))  BY <1>2, <1>4
  <2>2. QED  BY <2>1, NothingMoves DEF Modes
<1>5. QED  BY <1>3, <1>4

LEMMA CharacterBuildMoves ==
  ASSUME ArmoryInv, NEW r \in Request, CharacterBuild(r)
  PROVE  Moves(r)
<1> DEFINE q == request[r]
           taken == Read(Bought(q.of))
           a == [q EXCEPT !.taken = taken]
<1>1. q \in Requests /\ q.step = "reading" /\ "rows" \in q.todo
  BY PageAtHand DEF CharacterBuild, Outstanding, At
<1>2. q.page = "panel" /\ q.of \in Character  BY <1>1, PageAtHand DEF Staged
<1>3. taken \in Reads  BY <1>2, BoughtAreRead
<1>4. Goes(r, Answered(a, "purchases"))  BY DEF CharacterBuild
<1>5. taken = Read(Bought(q.of)) /\ taken.read  BY DEF Read
<1> HIDE DEF taken
<1>6. /\ a \in Requests /\ a.step = "reading" /\ a.page = q.page /\ a.of = q.of
      /\ a.since = q.since /\ a.from = q.from /\ a.priced = q.priced /\ a.taken = taken
      /\ a.todo = q.todo /\ a.shown = q.shown /\ a.depth = q.depth
  BY <1>1, <1>3 DEF Requests
<1> HIDE DEF a
<1>7. Staged(a)  BY <1>1, <1>2, <1>6, PageAtHand DEF Staged
<1>8. Charged(a, past)  BY <1>5, <1>6, TakenIsCharged
<1>9. Ranked(a, past)  BY <1>6, PageAtHand DEF Ranked
<1>10. Unranked(a)  BY <1>2, <1>6, PageAtHand DEF Unranked
<1>11. Sound(a, past, char, clock)
  BY <1>1, <1>6, <1>7, <1>8, <1>9, <1>10, StepIsSound, PageAtHand
<1>12. Sound(Answered(a, "purchases"), past, char, clock)
  BY <1>5, <1>6, <1>11, AnsweredIsSound, PageAtHand DEF Modes
<1>13. QED  BY <1>4, <1>12 DEF Moves

LEMMA StatementFailsMoves ==
  ASSUME ArmoryInv, NEW r \in Request, StatementFails(r)
  PROVE  Moves(r)
<1> DEFINE q == request[r]
           a(board) == [q EXCEPT !.todo = @ \ {board}]
<1>1. q \in Requests  BY PageAtHand
<1>2. CASE /\ At(r, "asked") \/ (At(r, "reading") /\ q.page # "boards" /\ q.todo # {})
           /\ Goes(r, MakesDo(q))
  <2>1. \/ q.page = "profile" /\ q.step \in {"asked", "reading"}
        \/ q.page \in {"search", "online"}
        \/ q.page = "panel"
    BY <1>2, PageAtHand DEF At, Staged, Pages
  <2>2. \E mode \in Modes \ {"build", "purchases"} : MakesDo(q) = Nothing(q, mode)
    <3>1. CASE q.page = "profile" /\ q.step = "reading"
      <4>1. MakesDo(q) = Nothing(q, "interim")  BY <3>1 DEF MakesDo
      <4>2. QED  BY <4>1 DEF Modes
    <3>2. CASE q.page = "profile" /\ q.step = "asked"
      <4>1. MakesDo(q) = Nothing(q, "not found")  BY <3>2 DEF MakesDo
      <4>2. QED  BY <4>1 DEF Modes
    <3>3. CASE q.page \in {"search", "online"}
      <4>1. MakesDo(q) = Nothing(q, "list")  BY <3>3 DEF MakesDo
      <4>2. QED  BY <4>1 DEF Modes
    <3>4. CASE q.page = "panel"
      <4>1. MakesDo(q) = Nothing(q, "error")  BY <3>4 DEF MakesDo
      <4>2. QED  BY <4>1 DEF Modes
    <3>5. QED  BY <2>1, <3>1, <3>2, <3>3, <3>4
  <2>3. PICK mode \in Modes \ {"build", "purchases"} : MakesDo(q) = Nothing(q, mode)
    BY <2>2
  <2>4. Goes(r, Nothing(request[r], mode))  BY <1>2, <2>3
  <2>5. QED  BY <2>4, NothingMoves
<1>3. CASE q.page = "boards" /\ \E board \in q.todo : Goes(r, a(board))
  <2>1. PICK board \in q.todo : Goes(r, a(board))  BY <1>3
  <2>2. q.step = "reading"  BY <2>1, PageAtHand DEF Staged
  <2> DEFINE b == a(board)
  <2>3. /\ b \in Requests /\ b.step = "reading" /\ b.page = q.page /\ b.of = q.of
        /\ b.since = q.since /\ b.from = q.from /\ b.priced = q.priced /\ b.taken = q.taken
        /\ b.todo = q.todo \ {board} /\ b.shown = q.shown /\ b.depth = q.depth
    BY <1>1, <2>2 DEF Requests
  <2>4. Goes(r, b)  BY <2>1
  <2> HIDE DEF b
  <2>5. Charged(b, past)  BY <1>3, <2>2, <2>3, PageAtHand DEF Charged
  <2>6. Ranked(b, past)  BY <2>3, PageAtHand DEF Ranked
  <2>7. Unranked(b)  BY <1>3, <2>3, PageAtHand DEF Unranked
  <2>8. Sound(b, past, char, clock)
    BY <1>3, <2>2, <2>3, <2>5, <2>6, <2>7, ReadIsSound
  <2>9. QED  BY <2>4, <2>8 DEF Moves
<1>4. QED  BY <1>2, <1>3 DEF StatementFails

LEMMA SentMoves ==
  ASSUME ArmoryInv, NEW r \in Request, Sent(r)
  PROVE  Moves(r)
<1>1. Sound(Unused, past, char, clock)
  BY UnusedIsBlank, BlankIsSound, PageAtHand
<1>2. QED  BY <1>1 DEF Sent, Moves

\* A page of rankings begins to read, or is answered from those kept.
LEMMA GetLeaderboardsMoves ==
  ASSUME ArmoryInv, NEW r \in Request, GetLeaderboards(r)
  PROVE  Moves(r)
<1> DEFINE q == [Unused EXCEPT !.page = "boards", !.since = clock, !.from = Now]
           kept == [q EXCEPT !.from = boards.from, !.shown = boards.shown,
                             !.depth = boards.depth, !.led = boards.led, !.priced = boards.priced]
           fresh == [q EXCEPT !.step = "reading", !.todo = {"characters", "builds", "guilds"}]
<1>1. Unused \in Requests /\ DOMAIN Unused.depth = {} /\ Unused.shown = {}
      /\ ~Unused.taken.read /\ Unused.todo = {} /\ Unused.step = "new"
  BY UnusedIsBlank DEF Blank
<1>2. Now \in 1..Now /\ Now \in Nat /\ clock \in 0..MaxTime
  BY PageAtHand
<1>3. q \in Requests /\ q.step = "new" /\ q.page = "boards" /\ q.since = clock /\ q.from = Now
      /\ q.taken = Unused.taken /\ q.todo = {} /\ q.shown = {} /\ DOMAIN q.depth = {}
  BY <1>1, <1>2 DEF Requests, Pages
<1>4. Goes(r, IF Kept THEN Answered(kept, "boards") ELSE fresh)
  BY DEF GetLeaderboards
<1> HIDE DEF q
<1>5. CASE ~Kept
  <2>1. /\ fresh \in Requests /\ fresh.step = "reading" /\ fresh.page = "boards"
        /\ fresh.since = clock /\ fresh.from = Now /\ fresh.taken = Unused.taken
        /\ fresh.todo = {"characters", "builds", "guilds"} /\ fresh.shown = {} /\ DOMAIN fresh.depth = {}
    BY <1>3 DEF Requests, Steps, Statements
  <2>2. Goes(r, fresh)  BY <1>4, <1>5
  <2> HIDE DEF fresh
  <2>3. Staged(fresh)  BY <2>1 DEF Staged
  <2>4. Sound(fresh, past, char, clock)
    BY <1>1, <1>2, <2>1, <2>3, AskedIsSound, PageAtHand
  <2>5. QED  BY <2>2, <2>4 DEF Moves
<1>6. CASE Kept
  <2> DEFINE a == Answered(kept, "boards")
  <2>1. boards \in Boards /\ Ranked(boards, past)  BY DEF ArmoryInv, SoundBoards
  <2>2. /\ a \in Requests /\ a.step = "answered" /\ a.mode = "boards" /\ a.page = "boards"
        /\ a.since = clock /\ a.from = boards.from /\ a.taken = Unused.taken /\ a.todo = {}
        /\ a.shown = boards.shown /\ a.depth = boards.depth /\ a.priced = boards.priced
    BY <1>3, <2>1 DEF Answered, Requests, Boards, Steps, Modes
  <2>3. Goes(r, a)  BY <1>4, <1>6
  <2> HIDE DEF a
  <2>4. Staged(a) /\ Unranked(a)  BY <2>2 DEF Staged, Unranked
  <2>5. Ranked(a, past)  BY <2>1, <2>2 DEF Ranked
  <2>6. Charged(a, past)  BY <1>1, <2>2, <2>5 DEF Ranked, Charged
  <2>7. SeenSince(a, a.since - Age(a), char)
    <3>1. boards.at # Never /\ clock - boards.at < CacheTicks  BY <1>6 DEF Kept
    <3>2. SeenSince(boards, boards.at, char)  BY <3>1 DEF ArmoryInv, SoundBoards
    <3>3. ASSUME NEW c \in a.shown \cup DOMAIN a.depth
          PROVE  char[c].hiddenSince >= a.since - Age(a)
      <4>1. char[c].hiddenSince >= boards.at  BY <2>2, <3>2, <3>3 DEF SeenSince
      <4>2. c \in Character  BY <2>2, <3>3, DepthsNameCharacters DEF Requests
      <4>3. char[c].hiddenSince \in Nat
        BY <4>2, PageAtHand, ArmoryAssumption DEF People, ArmoryAssumption, Never
      <4>4. boards.at \in Nat /\ CacheTicks \in Nat /\ clock \in Nat
        BY <1>2, <2>1, ArmoryAssumption DEF Boards, ArmoryAssumption, Never
      <4>5. a.since - Age(a) = clock - CacheTicks  BY <2>2 DEF Age
      <4>6. QED  BY <3>1, <4>1, <4>3, <4>4, <4>5
    <3>4. QED  BY <3>3 DEF SeenSince
  <2>8. a.since <= clock  BY <1>2, <2>2
  <2>9. Sound(a, past, char, clock)  BY <2>2, <2>4, <2>5, <2>6, <2>7, <2>8 DEF Sound
  <2>10. QED  BY <2>3, <2>9 DEF Moves
<1>7. QED  BY <1>5, <1>6

\* Rankings that are ready are answered, and kept.
LEMMA AnswerBoardsMoves ==
  ASSUME ArmoryInv, NEW r \in Request, AnswerBoards(r)
  PROVE  Moves(r) /\ SoundBoards(boards', past, char, clock)
<1> DEFINE q == request[r]
<1>1. q \in Requests /\ q.step = "reading"  BY PageAtHand DEF AnswerBoards, At
<1>2. Sound(Answered(q, "boards"), past, char, clock)
  BY <1>1, AnsweredIsSound, PageAtHand DEF Modes
<1>3. Moves(r)  BY <1>2 DEF AnswerBoards, Moves
<1>4. PICK b : /\ b = [at |-> q.since, from |-> q.from, shown |-> q.shown,
                       depth |-> q.depth, led |-> q.led, priced |-> q.priced]
               /\ boards' = b
  BY DEF AnswerBoards, BoardsSince
<1>5. b \in Boards
  <2>1. q.since \in 0..Never
    BY <1>1, ArmoryAssumption DEF Requests, ArmoryAssumption, Never
  <2>2. QED  BY <1>1, <1>4, <2>1 DEF Requests, Boards
<1>6. Ranked(b, past)  BY <1>4, PageAtHand DEF Ranked
<1>7. b.at <= clock /\ SeenSince(b, b.at, char)
  <2>1. Sound(q, past, char, clock)  BY PageAtHand
  <2>2. q.since - Age(q) = q.since  BY <1>1 DEF Requests, Age
  <2>3. SeenSince(q, q.since, char) /\ q.since <= clock  BY <2>1, <2>2 DEF Sound
  <2>4. QED  BY <1>4, <2>3 DEF SeenSince
<1>8. QED  BY <1>3, <1>4, <1>5, <1>6, <1>7 DEF SoundBoards
-----------------------------------------------------------------------------
(* Every step of a page keeps the invariant *)

LEMMA PageMoved ==
  ASSUME ArmoryInv, NEW r \in Request, Moves(r), UNCHANGED <<realm, clock>>,
         SoundBoards(boards', past, char, clock)
  PROVE  ArmoryInv'
<1>1. PICK q : Sound(q, past, char, clock) /\ Goes(r, q)  BY DEF Moves
<1>2. q \in Requests  BY <1>1 DEF Sound
<1>3. request' = [request EXCEPT ![r] = q]  BY <1>1 DEF Goes
<1>4. /\ past' = past /\ char' = char /\ clock' = clock /\ node' = node /\ live' = live
      /\ changes' = changes
  BY DEF realm
<1>5. request \in [Request -> Requests]
      /\ \A s \in Request : Sound(request[s], past, char, clock)
  BY DEF ArmoryInv, PagesOK
<1>6. request' \in [Request -> Requests]  BY <1>2, <1>3, <1>5
<1>7. ASSUME NEW s \in Request  PROVE Sound(request'[s], past', char', clock')
  <2>1. CASE s = r  BY <2>1, <1>1, <1>3, <1>4, <1>5
  <2>2. CASE s # r
    <3>1. request'[s] = request[s]  BY <2>2, <1>3, <1>5
    <3>2. QED  BY <3>1, <1>4, <1>5
  <2>3. QED  BY <2>1, <2>2
<1>8. PagesOK'  BY <1>6, <1>7 DEF PagesOK
<1>9. RealmOK'  BY <1>4 DEF ArmoryInv, RealmOK
<1>10. SoundBoards(boards', past', char', clock')  BY <1>4
<1>11. QED  BY <1>8, <1>9, <1>10 DEF ArmoryInv

LEMMA PageStep ==
  ASSUME ArmoryInv, NEW r \in Request, Page(r)
  PROVE  ArmoryInv'
<1>1. SoundBoards(boards, past, char, clock)  BY DEF ArmoryInv
<1>2. ASSUME Moves(r), UNCHANGED <<realm, boards, clock>>
      PROVE  ArmoryInv'
  <2>1. boards' = boards /\ UNCHANGED <<realm, clock>>  BY <1>2
  <2>2. SoundBoards(boards', past, char, clock)  BY <1>1, <2>1
  <2>3. QED  BY <1>2, <2>1, <2>2, PageMoved
<1>3. CASE \E page \in Pages \ {"boards"}, c \in Character : Ask(r, page, c)
  <2>1. PICK page \in Pages \ {"boards"}, c \in Character : Ask(r, page, c)  BY <1>3
  <2>2. QED  BY <1>2, <2>1, AskMoves DEF Ask
<1>4. CASE SearchCharacters(r)  BY <1>2, <1>4, SearchMoves DEF SearchCharacters
<1>5. CASE GetOnlineCharacters(r)  BY <1>2, <1>5, SearchMoves DEF GetOnlineCharacters
<1>6. CASE GetCharacterProfile(r)  BY <1>2, <1>6, FoundMoves DEF GetCharacterProfile
<1>7. CASE LoadBuild(r)  BY <1>2, <1>7, LoadBuildMoves DEF LoadBuild
<1>8. CASE ReadNodes(r)  BY <1>2, <1>8, ReadNodesMoves DEF ReadNodes
<1>9. CASE ReadTaken(r)  BY <1>2, <1>9, ReadTakenMoves DEF ReadTaken
<1>10. CASE AnswerProfile(r)  BY <1>2, <1>10, AnswerProfileMoves DEF AnswerProfile, Answers
<1>11. CASE GetLeaderboards(r)  BY <1>2, <1>11, GetLeaderboardsMoves DEF GetLeaderboards
<1>12. CASE CharacterBoard(r)  BY <1>2, <1>12, CharacterBoardMoves DEF CharacterBoard
<1>13. CASE BuildDepthBoard(r)  BY <1>2, <1>13, BuildDepthMoves DEF BuildDepthBoard
<1>14. CASE AnswerBoards(r)
  <2>1. UNCHANGED <<realm, clock>>  BY <1>14 DEF AnswerBoards
  <2>2. QED  BY <1>14, <2>1, AnswerBoardsMoves, PageMoved
<1>15. CASE ClasslessLive(r)  BY <1>2, <1>15, PanelMoves DEF ClasslessLive
<1>16. CASE CharacterBuild(r)  BY <1>2, <1>16, CharacterBuildMoves DEF CharacterBuild
<1>17. CASE StatementFails(r)  BY <1>2, <1>17, StatementFailsMoves DEF StatementFails
<1>18. CASE Sent(r)  BY <1>2, <1>18, SentMoves DEF Sent
<1>19. CASE GuildBoard(r)  BY <1>2, <1>19, GuildBoardMoves DEF GuildBoard
<1>20. QED
  BY <1>3, <1>4, <1>5, <1>6, <1>7, <1>8, <1>9, <1>10, <1>11, <1>12, <1>13, <1>14, <1>15,
     <1>16, <1>17, <1>18, <1>19
  DEF Page

-----------------------------------------------------------------------------
(* Whatever happens in the realm leaves the pages under way sound *)

\* Purchases of the past stay, time goes on, and whoever is hidden is hidden now.
Onward(p, p2, ch, ch2, t, t2) ==
  /\ p2 \in Seq(Bought_All) /\ Len(p) <= Len(p2) /\ \A i \in 1..Len(p) : p2[i] = p[i]
  /\ \A c \in Character :
       ch2[c].hiddenSince = ch[c].hiddenSince \/ ch2[c].hiddenSince >= t
  /\ t <= t2 /\ t2 \in 0..MaxTime

LEMMA RankedOnward ==
  ASSUME NEW p \in Seq(Bought_All), NEW p2, NEW ch, NEW ch2, NEW t, NEW t2,
         Onward(p, p2, ch, ch2, t, t2), NEW b, Ranked(b, p)
  PROVE  Ranked(b, p2)
<1>1. Len(p) \in Nat /\ Len(p2) \in Nat /\ Len(p) <= Len(p2) /\ \A i \in 1..Len(p) : p2[i] = p[i]
  BY DEF Onward
<1>2. b.from \in 1..Len(p) /\ b.from \in 1..Len(p2)  BY <1>1 DEF Ranked
<1>3. ASSUME b.priced
      PROVE  \E i \in b.from..Len(p2) : \A c \in DOMAIN b.depth : b.depth[c] = Sum(p2[i][c])
  <2>1. PICK i \in b.from..Len(p) : \A c \in DOMAIN b.depth : b.depth[c] = Sum(p[i][c])
    BY <1>3 DEF Ranked
  <2>2. i \in b.from..Len(p2) /\ p2[i] = p[i]  BY <1>1, <1>2
  <2>3. QED  BY <2>1, <2>2
<1>4. QED  BY <1>2, <1>3 DEF Ranked

LEMMA ChargedOnward ==
  ASSUME NEW p \in Seq(Bought_All), NEW p2, NEW ch, NEW ch2, NEW t, NEW t2,
         Onward(p, p2, ch, ch2, t, t2), NEW q, Charged(q, p)
  PROVE  Charged(q, p2)
<1>1. Len(p) \in Nat /\ Len(p2) \in Nat /\ Len(p) <= Len(p2) /\ \A i \in 1..Len(p) : p2[i] = p[i]
  BY DEF Onward
<1>2. q.from \in 1..Len(p) /\ q.from \in 1..Len(p2)  BY <1>1 DEF Charged
<1>3. ASSUME q.taken.read
      PROVE  \E i \in q.from..Len(p2) : q.taken.rows = p2[i][q.of]
  <2>1. PICK i \in q.from..Len(p) : q.taken.rows = p[i][q.of]  BY <1>3 DEF Charged
  <2>2. i \in q.from..Len(p2) /\ p2[i] = p[i]  BY <1>1, <1>2
  <2>3. QED  BY <2>1, <2>2
<1>4. QED  BY <1>2, <1>3 DEF Charged

LEMMA SeenOnward ==
  ASSUME NEW p, NEW p2, NEW ch, NEW ch2, NEW t \in 0..MaxTime, NEW t2,
         Onward(p, p2, ch, ch2, t, t2),
         NEW q, q.shown \subseteq Character, DOMAIN q.depth \subseteq Character,
         NEW since \in Int, since <= t, SeenSince(q, since, ch), ch2 \in People
  PROVE  SeenSince(q, since, ch2)
<1>1. ASSUME NEW c \in q.shown \cup DOMAIN q.depth
      PROVE  ch2[c].hiddenSince >= since
  <2>1. c \in Character /\ ch[c].hiddenSince >= since  BY <1>1 DEF SeenSince
  <2>2. CASE ch2[c].hiddenSince = ch[c].hiddenSince  BY <2>1, <2>2
  <2>3. CASE ch2[c].hiddenSince >= t
    <3>1. ch2[c].hiddenSince \in Int
      BY <2>1, ArmoryAssumption DEF People, ArmoryAssumption, Never
    <3>2. t \in Int  OBVIOUS
    <3>3. QED  BY <2>3, <3>1, <3>2
  <2>4. QED  BY <2>1, <2>2, <2>3 DEF Onward
<1>2. QED  BY <1>1 DEF SeenSince

LEMMA SoundOnward ==
  ASSUME NEW p \in Seq(Bought_All), NEW p2, NEW ch, NEW ch2 \in People, NEW t \in 0..MaxTime,
         NEW t2, Onward(p, p2, ch, ch2, t, t2), NEW q, Sound(q, p, ch, t)
  PROVE  Sound(q, p2, ch2, t2)
<1>1. q \in Requests /\ q.since <= t  BY DEF Sound
<1>2. q.since \in Int /\ t \in Int /\ t2 \in Int /\ t <= t2  BY <1>1 DEF Requests, Onward
<1>3. Charged(q, p2) /\ Ranked(q, p2)  BY ChargedOnward, RankedOnward DEF Sound
<1>4. SeenSince(q, q.since - Age(q), ch2)
  <2>1. Age(q) \in Nat  BY ArmoryAssumption DEF ArmoryAssumption, Age
  <2>2. q.since - Age(q) \in Int /\ q.since - Age(q) <= t  BY <1>1, <1>2, <2>1
  <2>3. q.shown \subseteq Character /\ DOMAIN q.depth \subseteq Character
    BY <1>1, DepthsNameCharacters DEF Requests
  <2>4. SeenSince(q, q.since - Age(q), ch)  BY DEF Sound
  <2>5. QED  BY <2>2, <2>3, <2>4, SeenOnward
<1>5. q.since <= t2  BY <1>1, <1>2
<1>6. QED  BY <1>1, <1>3, <1>4, <1>5 DEF Sound

LEMMA BoardsOnward ==
  ASSUME NEW p \in Seq(Bought_All), NEW p2, NEW ch, NEW ch2 \in People, NEW t \in 0..MaxTime,
         NEW t2, Onward(p, p2, ch, ch2, t, t2), NEW b, SoundBoards(b, p, ch, t)
  PROVE  SoundBoards(b, p2, ch2, t2)
<1>1. b \in Boards /\ Ranked(b, p2)  BY RankedOnward DEF SoundBoards
<1>2. CASE b.at = Never /\ b.shown = {} /\ DOMAIN b.depth = {}
  BY <1>1, <1>2 DEF SoundBoards
<1>3. CASE b.at <= t /\ SeenSince(b, b.at, ch)
  <2>1. b.at \in Int /\ t \in Int /\ t2 \in Int /\ t <= t2
    BY <1>1, ArmoryAssumption DEF Boards, Onward, ArmoryAssumption, Never
  <2>2. b.shown \subseteq Character /\ DOMAIN b.depth \subseteq Character
    BY <1>1, DepthsNameCharacters DEF Boards
  <2>3. SeenSince(b, b.at, ch2)  BY <1>3, <2>1, <2>2, SeenOnward
  <2>4. b.at <= t2  BY <1>3, <2>1
  <2>5. QED  BY <1>1, <2>3, <2>4 DEF SoundBoards
<1>4. QED  BY <1>2, <1>3 DEF SoundBoards

LEMMA RealmMoved ==
  ASSUME ArmoryInv, RealmOK', Onward(past, past', char, char', clock, clock'),
         UNCHANGED <<boards, request>>
  PROVE  ArmoryInv'
<1>1. past \in Seq(Bought_All) /\ clock \in 0..MaxTime /\ char' \in People
  BY DEF ArmoryInv, RealmOK
<1>2. request' = request /\ boards' = boards  OBVIOUS
<1>3. ASSUME NEW r \in Request  PROVE Sound(request'[r], past', char', clock')
  <2>1. Sound(request[r], past, char, clock)  BY DEF ArmoryInv, PagesOK
  <2>2. Sound(request[r], past', char', clock')  BY <1>1, <2>1, SoundOnward
  <2>3. QED  BY <1>2, <2>2
<1>4. PagesOK'  BY <1>2, <1>3 DEF ArmoryInv, PagesOK
<1>5. SoundBoards(boards', past', char', clock')
  <2>1. SoundBoards(boards, past, char, clock)  BY DEF ArmoryInv
  <2>2. SoundBoards(boards, past', char', clock')  BY <1>1, <2>1, BoardsOnward
  <2>3. QED  BY <1>2, <2>2
<1>6. QED  BY <1>4, <1>5 DEF ArmoryInv
\* What happens leaves the count of what happened, and everything else of the pages.
LEMMA Changed ==
  ASSUME ArmoryInv, Changes
  PROVE  /\ changes' \in 0..MaxChanges /\ clock' = clock /\ clock \in 0..MaxTime
         /\ boards' = boards /\ request' = request
         /\ past \in Seq(Bought_All) /\ Len(past) = Now /\ Now \in Nat
<1>1. changes \in 0..MaxChanges /\ clock \in 0..MaxTime  BY DEF ArmoryInv, RealmOK
<1>2. past \in Seq(Bought_All)  BY DEF ArmoryInv, RealmOK
<1>3. QED  BY <1>1, <1>2, ArmoryAssumption DEF Changes, ArmoryAssumption, Now

\* The realm has at least one state.
LEMMA PastIsNotEmpty == ASSUME ArmoryInv PROVE Now \in 1..Now /\ past[Now] \in Bought_All
<1>1. past \in Seq(Bought_All) /\ boards.from \in 1..Len(past)
  BY DEF ArmoryInv, RealmOK, SoundBoards, Ranked
<1>2. QED  BY <1>1 DEF Now

\* A change that leaves the purchases alone.
LEMMA PastKept ==
  ASSUME ArmoryInv, Changes, past' = past, live => live',
         node' \in [Node -> [cost : Costs, enabled : BOOLEAN]], live' \in BOOLEAN,
         char' \in People,
         \A c \in Character : \/ char'[c].hiddenSince = char[c].hiddenSince
                              \/ char'[c].hiddenSince = clock
  PROVE  ArmoryInv'
<1>1. RealmOK'  BY Changed DEF ArmoryInv, RealmOK
<1>2. clock \in Int  BY Changed
<1>3. \A c \in Character : char'[c].hiddenSince = char[c].hiddenSince
                           \/ char'[c].hiddenSince >= clock
  BY <1>2
<1>4. Onward(past, past', char, char', clock, clock')  BY <1>2, <1>3, Changed DEF Onward
<1>5. QED  BY <1>1, <1>4, Changed, RealmMoved

\* A change of one character's purchases.
LEMMA PastWritten ==
  ASSUME ArmoryInv, Changes, live, NEW c \in Character, NEW rows \in Rows, Writes(c, rows)
  PROVE  ArmoryInv'
<1> DEFINE new == [past[Now] EXCEPT ![c] = rows]
<1>1. new \in Bought_All  BY PastIsNotEmpty DEF Bought_All
<1>2. past' = Append(past, new) /\ node' = node /\ char' = char /\ live' = live
  BY DEF Writes
<1> HIDE DEF new
<1>3. past \in Seq(Bought_All) /\ clock' = clock /\ clock \in 0..MaxTime  BY Changed
<1>4. /\ past' \in Seq(Bought_All) /\ Len(past) <= Len(past')
      /\ \A i \in 1..Len(past) : past'[i] = past[i]
  BY <1>1, <1>2, <1>3
<1>5. RealmOK'  BY <1>2, <1>4, Changed DEF ArmoryInv, RealmOK
<1>6. Onward(past, past', char, char', clock, clock')
  BY <1>2, <1>3, <1>4 DEF Onward
<1>7. QED  BY <1>5, <1>6, Changed, RealmMoved

LEMMA BuysKeeps ==
  ASSUME ArmoryInv, NEW c \in Character, NEW n \in Node, NEW price \in Costs, Buys(c, n, price)
  PROVE  ArmoryInv'
<1> DEFINE rows == [m \in DOMAIN Bought(c) \cup {n} |-> IF m = n THEN price ELSE Bought(c)[m]]
<1>1. Bought(c) \in Rows  BY PastIsNotEmpty DEF Bought, Bought_All
<1>2. PICK S \in SUBSET Node : Bought(c) \in [S -> Costs]  BY <1>1 DEF Rows
<1>3. rows \in [S \cup {n} -> Costs]  BY <1>2
<1>4. S \cup {n} \in SUBSET Node  OBVIOUS
<1>5. rows \in Rows  BY <1>3, <1>4, RowsArePriced
<1>6. Changes /\ live /\ Writes(c, rows)  BY DEF Buys
<1> HIDE DEF rows
<1>7. QED  BY <1>5, <1>6, PastWritten

\* Who has bought, bought while the module's tables were there.
LEMMA RespecsKeeps ==
  ASSUME ArmoryInv, NEW c \in Character, Respecs(c)
  PROVE  ArmoryInv'
<1>1. live
  <2>1. SUFFICES ASSUME ~live PROVE FALSE  OBVIOUS
  <2>2. past = << [d \in Character |-> NoRows] >>  BY <2>1 DEF ArmoryInv, RealmOK
  <2>3. Now = 1  BY <2>2 DEF Now
  <2>4. Bought(c) = NoRows  BY <2>2, <2>3 DEF Bought
  <2>5. DOMAIN NoRows = {}  BY DEF NoRows
  <2>6. QED  BY <2>4, <2>5 DEF Respecs
<1>2. QED  BY <1>1, NothingBought, PastWritten DEF Respecs

LEMMA LevelsUpKeeps ==
  ASSUME ArmoryInv, NEW c \in Character, LevelsUp(c)
  PROVE  ArmoryInv'
<1>1. char \in People /\ node \in [Node -> [cost : Costs, enabled : BOOLEAN]] /\ live \in BOOLEAN
  BY DEF ArmoryInv, RealmOK
<1>2. char[c].level + 1 \in 1..MaxLevel
  <2>1. char[c].level \in 1..MaxLevel  BY <1>1 DEF People
  <2>2. QED  BY <2>1, ArmoryAssumption DEF LevelsUp, ArmoryAssumption
<1>3. char' = [char EXCEPT ![c].level = char[c].level + 1]  BY DEF LevelsUp
<1>4. char' \in People  BY <1>1, <1>2, <1>3 DEF People
<1>5. \A d \in Character : char'[d].hiddenSince = char[d].hiddenSince  BY <1>1, <1>3 DEF People
<1>6. Changes /\ past' = past /\ node' = node /\ live' = live  BY DEF LevelsUp
<1>7. QED  BY <1>1, <1>4, <1>5, <1>6, PastKept

LEMMA HidesKeeps ==
  ASSUME ArmoryInv, NEW c \in Character, Hides(c)
  PROVE  ArmoryInv'
<1>1. char \in People /\ node \in [Node -> [cost : Costs, enabled : BOOLEAN]] /\ live \in BOOLEAN
  BY DEF ArmoryInv, RealmOK
<1>2. clock \in 0..Never  BY PastIsNotEmpty, ArmoryAssumption DEF ArmoryInv, RealmOK, ArmoryAssumption, Never
<1>3. char' = [char EXCEPT ![c].hiddenSince = clock]  BY DEF Hides
<1>4. char' \in People  BY <1>1, <1>2, <1>3 DEF People
<1>5. \A d \in Character : \/ char'[d].hiddenSince = char[d].hiddenSince
                           \/ char'[d].hiddenSince = clock
  BY <1>1, <1>3 DEF People
<1>6. Changes /\ past' = past /\ node' = node /\ live' = live  BY DEF Hides
<1>7. QED  BY <1>1, <1>4, <1>5, <1>6, PastKept

LEMMA EditsKeep ==
  ASSUME ArmoryInv, NEW n \in Node, NEW row \in [cost : Costs, enabled : BOOLEAN],
         EditNode(n, row)
  PROVE  ArmoryInv'
<1>1. char \in People /\ node \in [Node -> [cost : Costs, enabled : BOOLEAN]] /\ live \in BOOLEAN
  BY DEF ArmoryInv, RealmOK
<1>2. node' \in [Node -> [cost : Costs, enabled : BOOLEAN]]  BY <1>1 DEF EditNode
<1>3. Changes /\ past' = past /\ char' = char /\ live' = live  BY DEF EditNode
<1>4. QED  BY <1>1, <1>2, <1>3, PastKept

LEMMA MigratesKeeps == ASSUME ArmoryInv, Migrates PROVE ArmoryInv'
<1>1. char \in People /\ node \in [Node -> [cost : Costs, enabled : BOOLEAN]]
  BY DEF ArmoryInv, RealmOK
<1>2. Changes /\ past' = past /\ char' = char /\ node' = node /\ live'  BY DEF Migrates
<1>3. live' \in BOOLEAN  BY DEF Migrates
<1>4. QED  BY <1>1, <1>2, <1>3, PastKept

LEMMA TickKeeps == ASSUME ArmoryInv, Tick PROVE ArmoryInv'
<1>1. clock \in 0..MaxTime /\ clock' = clock + 1 /\ clock < MaxTime
  BY DEF Tick, ArmoryInv, RealmOK
<1>2. clock' \in 0..MaxTime /\ clock <= clock'  BY <1>1, ArmoryAssumption DEF ArmoryAssumption
<1>3. /\ past' = past /\ char' = char /\ node' = node /\ live' = live /\ changes' = changes
      /\ boards' = boards /\ request' = request
  BY DEF Tick, realm
<1>4. RealmOK'  BY <1>2, <1>3 DEF ArmoryInv, RealmOK
<1>5. past \in Seq(Bought_All)  BY DEF ArmoryInv, RealmOK
<1>6. Onward(past, past', char, char', clock, clock')  BY <1>2, <1>3, <1>5 DEF Onward
<1>7. QED  BY <1>3, <1>4, <1>6, RealmMoved

-----------------------------------------------------------------------------
(* The invariant *)

LEMMA ArmoryBegins == Init => ArmoryInv
<1> SUFFICES ASSUME Init PROVE ArmoryInv
  OBVIOUS
<1>1. PICK rows \in [Character -> InitialRows] :
        (~live => rows = [c \in Character |-> NoRows]) /\ past = << rows >>
  BY DEF Init
<1>2. rows \in Bought_All  BY ArmoryAssumption DEF ArmoryAssumption, Bought_All
<1>3. past \in Seq(Bought_All) /\ Len(past) = 1  BY <1>1, <1>2
<1>4. clock \in 0..MaxTime /\ changes \in 0..MaxChanges
  BY ArmoryAssumption DEF ArmoryAssumption, Init
<1>5. char \in People
  <2>1. 1 \in 1..MaxLevel /\ Never \in 0..Never
    BY ArmoryAssumption DEF ArmoryAssumption, Never
  <2>2. QED  BY <2>1 DEF Init, People
<1>6. node \in [Node -> [cost : Costs, enabled : BOOLEAN]]
  <2>1. (CHOOSE p \in Costs : TRUE) \in Costs  BY ArmoryAssumption DEF ArmoryAssumption
  <2>2. QED  BY <2>1 DEF Init
<1>7. live \in BOOLEAN  BY DEF Init
<1>8. RealmOK  BY <1>1, <1>3, <1>4, <1>5, <1>6, <1>7 DEF RealmOK
<1>9. PagesOK
  <2>1. Unused \in Requests  BY UnusedIsBlank DEF Blank
  <2>2. Sound(Unused, past, char, clock)
    BY <1>3, <1>4, UnusedIsBlank, BlankIsSound
  <2>3. request = [r \in Request |-> Unused]  BY DEF Init
  <2>4. QED  BY <2>1, <2>2, <2>3 DEF PagesOK
<1>10. SoundBoards(boards, past, char, clock)
  <2>1. boards = NoBoards  BY DEF Init
  <2>2. boards \in Boards
    <3>1. Never \in 0..Never  BY ArmoryAssumption DEF ArmoryAssumption, Never
    <3>2. QED  BY <2>1, <3>1, NothingRanked DEF NoBoards, Boards
  <2>3. boards.at = Never /\ boards.shown = {} /\ DOMAIN boards.depth = {} /\ boards.from = 1
    BY <2>1 DEF NoBoards
  <2>4. Ranked(boards, past)
    <3>1. boards.from \in 1..Len(past) /\ Len(past) \in Nat  BY <1>3, <2>3
    <3>2. boards.from \in boards.from..Len(past)  BY <3>1
    <3>3. QED  BY <2>3, <3>1, <3>2 DEF Ranked
  <2>5. QED  BY <2>2, <2>3, <2>4 DEF SoundBoards
<1>11. QED  BY <1>8, <1>9, <1>10 DEF ArmoryInv

LEMMA ArmoryStep == ArmoryInv /\ [Next]_vars => ArmoryInv'
<1> SUFFICES ASSUME ArmoryInv, [Next]_vars PROVE ArmoryInv'
  OBVIOUS
<1>1. CASE \E c \in Character, n \in Node, price \in Costs : Buys(c, n, price)
  BY <1>1, BuysKeeps
<1>2. CASE \E c \in Character : Respecs(c)  BY <1>2, RespecsKeeps
<1>3. CASE \E c \in Character : LevelsUp(c)  BY <1>3, LevelsUpKeeps
<1>4. CASE \E c \in Character : Hides(c)  BY <1>4, HidesKeeps
<1>5. CASE \E n \in Node, row \in [cost : Costs, enabled : BOOLEAN] : EditNode(n, row)
  BY <1>5, EditsKeep
<1>6. CASE Migrates  BY <1>6, MigratesKeeps
<1>7. CASE Tick  BY <1>7, TickKeeps
<1>8. CASE \E r \in Request : Page(r)  BY <1>8, PageStep
<1>9. CASE UNCHANGED vars
  BY <1>9 DEF vars, ArmoryInv, RealmOK, PagesOK
<1>10. QED
  BY <1>1, <1>2, <1>3, <1>4, <1>5, <1>6, <1>7, <1>8, <1>9 DEF Next, Realm

LEMMA ArmoryInvariant == Spec => []ArmoryInv
BY ArmoryBegins, ArmoryStep, PTL DEF Spec

-----------------------------------------------------------------------------
(* What it says *)

LEMMA BudgetsAreNumbers ==
  ASSUME NEW level \in Nat, Curve # NoCurve
  PROVE  BudgetForLevel(level, Curve) \in Nat
<1>1. Curve \in [firstLevel : Nat, perLevel : Nat, bonus : Nat]
  BY ArmoryAssumption DEF ArmoryAssumption
<1> DEFINE first == Curve.firstLevel
           per == Curve.perLevel
           bonus == Curve.bonus
<1>2. first \in Nat /\ per \in Nat /\ bonus \in Nat  BY <1>1
<1>3. BudgetForLevel(level, Curve) =
        IF level < first THEN bonus ELSE (level - first + 1) * per + bonus
  BY DEF BudgetForLevel
<1> HIDE DEF first, per, bonus
<1>4. CASE level < first  BY <1>2, <1>3, <1>4
<1>5. CASE ~(level < first)
  <2>1. level - first + 1 \in Nat  BY <1>2, <1>5
  <2>2. \A m, n \in Nat : m * n \in Nat  OBVIOUS
  <2>3. (level - first + 1) * per \in Nat  BY <1>2, <2>1, <2>2
  <2>4. \A m, n \in Nat : m + n \in Nat  OBVIOUS
  <2>5. (level - first + 1) * per + bonus \in Nat  BY <1>2, <2>3, <2>4
  <2>6. QED  BY <1>3, <1>5, <2>5
<1>6. QED  BY <1>4, <1>5

\* Types, whatever pages do at a time: nobody owns anything while the module's
\* tables are missing, and the budget of a profile (budgetForLevel of build.ts)
\* is a number of points.
THEOREM ArmoryTypeCorrect == Spec => []TypeOK
<1>1. ASSUME ArmoryInv PROVE TypeOK
  <2>1. /\ node \in [Node -> [cost : Costs, enabled : BOOLEAN]]
        /\ past \in Seq(Bought_All) /\ (~live => past = << [c \in Character |-> NoRows] >>)
        /\ char \in People /\ clock \in 0..MaxTime /\ changes \in 0..MaxChanges
    BY <1>1 DEF ArmoryInv, RealmOK
  <2>2. \A i \in DOMAIN past : past[i] \in [Character -> Rows]
    BY <2>1 DEF Bought_All
  <2>3. DOMAIN past = 1..Len(past)  BY <2>1
  <2>4. boards.at \in 0..Never /\ boards.from \in DOMAIN past /\ boards.shown \subseteq Character
    BY <1>1, <2>3 DEF ArmoryInv, SoundBoards, Boards, Ranked
  <2>5. ASSUME NEW r \in Request
        PROVE  /\ request[r].step \in Steps /\ request[r].from \in DOMAIN past
               /\ request[r].shown \subseteq Character /\ request[r].led \subseteq Leaders
               /\ Total(request[r]) \in Nat \cup {NoCurve}
    <3>1. request[r] \in Requests /\ request[r].from \in 1..Len(past)
      BY <1>1, PageAtHand DEF Now
    <3>2. request[r].level \in Nat  BY <3>1, ArmoryAssumption DEF Requests, ArmoryAssumption
    <3>3. Total(request[r]) \in Nat \cup {NoCurve}  BY <3>2, BudgetsAreNumbers DEF Total
    <3>4. QED  BY <2>3, <3>1, <3>3 DEF Requests
  <2>6. QED  BY <2>1, <2>2, <2>4, <2>5 DEF TypeOK, People, Steps
<1>2. QED  BY <1>1, ArmoryInvariant, PTL

\* "Spend is summed from cost_paid, which the database holds exactly" (build.ts):
\* every page shows the purchases of one moment since it was asked for, at the
\* prices charged then, whatever is bought, cleared or priced anew meanwhile.
THEOREM PagesShowWhatWasCharged == Spec => []ShownAsCharged
<1>1. ASSUME ArmoryInv PROVE ShownAsCharged
  <2>1. ASSUME NEW r \in Request
        PROVE  /\ Is(r, "build") /\ request[r].priced =>
                    OfOneMoment(request[r], ProfileAsCharged)
               /\ Is(r, "purchases") => OfOneMoment(request[r], PanelAsCharged)
               /\ Is(r, "boards") /\ request[r].priced =>
                    OfOneMoment(request[r], BoardsAsCharged)
    <3> DEFINE q == request[r]
    <3>1. Charged(q, past) /\ Ranked(q, past) /\ Len(past) = Now  BY <1>1, PageAtHand
    <3>2. ASSUME Is(r, "build") \/ Is(r, "purchases")
          PROVE  \E i \in q.from..Now : q.taken.rows = past[i][q.of]
      <4>1. q.taken.read  BY <3>1, <3>2 DEF Charged, Is, At
      <4>2. QED  BY <3>1, <4>1 DEF Charged
    <3>3. Is(r, "purchases") => OfOneMoment(q, PanelAsCharged)
      BY <3>2 DEF OfOneMoment, PanelAsCharged
    <3>4. ASSUME Is(r, "build"), q.priced
          PROVE  OfOneMoment(q, ProfileAsCharged)
      <4>1. PICK i \in q.from..Now : q.taken.rows = past[i][q.of]  BY <3>2, <3>4
      <4>2. Itemised(q) =
              [n \in DOMAIN q.taken.rows \cap DOMAIN q.offered.rows |-> q.taken.rows[n]]
        BY <3>4 DEF Itemised
      <4>3. ProfileAsCharged(q, past[i])  BY <4>1, <4>2 DEF ProfileAsCharged
      <4>4. QED  BY <4>3 DEF OfOneMoment
    <3>5. ASSUME q.priced
          PROVE  OfOneMoment(q, BoardsAsCharged)
      <4>1. PICK i \in q.from..Now : \A c \in DOMAIN q.depth : q.depth[c] = Sum(past[i][c])
        BY <3>1, <3>5 DEF Ranked
      <4>2. QED  BY <4>1 DEF OfOneMoment, BoardsAsCharged
    <3>6. QED  BY <3>3, <3>4, <3>5
  <2>2. QED  BY <2>1 DEF ShownAsCharged
<1>2. QED  BY <1>1, ArmoryInvariant, PTL

\* Profiles, search, who is online and the boards of characters (visibleCharacter)
\* show nobody who was hidden before they were asked for, the boards nobody hidden
\* for longer than they are kept. It says nothing of the leaders the guild board
\* names, which are not asked whether they are hidden (leaderboards.ts:123-146).
THEOREM TheHiddenAreHiddenElsewhere == Spec => []HiddenElsewhere
<1>1. ASSUME ArmoryInv PROVE HiddenElsewhere
  <2>1. ASSUME NEW r \in Request, At(r, "answered"),
               NEW c \in request[r].shown \cup DOMAIN request[r].depth
        PROVE  char[c].hiddenSince + (IF Is(r, "boards") THEN CacheTicks ELSE 0)
                 >= request[r].since
    <3> DEFINE q == request[r]
               age == IF Is(r, "boards") THEN CacheTicks ELSE 0
    <3>1. q \in Requests /\ char \in People /\ Sound(q, past, char, clock)
      BY <1>1, PageAtHand
    <3>2. age = Age(q)  BY <2>1 DEF Age, Is, At
    <3>3. char[c].hiddenSince >= q.since - Age(q)  BY <2>1, <3>1 DEF Sound, SeenSince
    <3>4. c \in Character  BY <2>1, <3>1, DepthsNameCharacters DEF Requests
    <3>5. char[c].hiddenSince \in Int
      BY <3>1, <3>4, ArmoryAssumption DEF People, ArmoryAssumption, Never
    <3>6. q.since \in Int /\ Age(q) \in Int
      BY <3>1, ArmoryAssumption DEF Requests, Age, ArmoryAssumption
    <3>7. char[c].hiddenSince + Age(q) >= q.since  BY <3>3, <3>5, <3>6
    <3>8. QED  BY <3>2, <3>7
  <2>2. QED  BY <2>1 DEF HiddenElsewhere
<1>2. QED  BY <1>1, ArmoryInvariant, PTL

-----------------------------------------------------------------------------
(* Sums over finite sets *)

\* Some one element of a set: the one a fold over the set takes first.
Some(S) == CHOOSE x \in S : TRUE

\* Whatever is true of a set as soon as it is true of all smaller ones is true of
\* every finite set: a smallest exception would not be one.
LEMMA BySmallerSets ==
  ASSUME NEW S, IsFiniteSet(S), NEW Good,
         \A T \in SUBSET S : (\A V \in SUBSET T : V # T => V \in Good) => T \in Good
  PROVE  \A T \in SUBSET S : T \in Good
<1> DEFINE Bad == (SUBSET S) \ Good
<1> SUFFICES ASSUME Bad # {} PROVE FALSE  OBVIOUS
<1>1. IsWellFoundedOn(StrictSubsetOrdering(S), SUBSET S)
  <2>1. IsWellFoundedOn(StrictSubsetOrdering(S), FiniteSubsetsOf(S))
    BY FS_StrictSubsetOrderingWellFounded
  <2>2. FiniteSubsetsOf(S) = SUBSET S  BY FS_FiniteSubsetsOfFinite
  <2>3. QED  BY <2>1, <2>2
<1>2. Bad \subseteq SUBSET S  OBVIOUS
<1>3. PICK T \in Bad : \A V \in Bad : ~(<<V, T>> \in StrictSubsetOrdering(S))
  <2> HIDE DEF Bad
  <2> QED  BY <1>1, <1>2, WFMin
<1>4. \A V \in SUBSET T : V # T => V \in Good
  BY <1>3 DEF StrictSubsetOrdering
<1>5. QED  BY <1>3, <1>4

\* The partial sums of f over the subsets of S, as the folds of the community
\* modules build them.
Partial(g, f, S) ==
  g = [T \in SUBSET S |-> IF T = {} THEN 0 ELSE f[Some(T)] + g[T \ {Some(T)}]]

LEMMA SumIsPartial ==
  ASSUME NEW f, NEW S
  PROVE  SumFunctionOnSet(f, S) = (CHOOSE g : Partial(g, f, S))[S]
BY Zenon DEF SumFunctionOnSet, FoldFunctionOnSet, MapThenFoldSet, Partial, Some

LEMMA PartialAt ==
  ASSUME NEW f, NEW S, NEW g, Partial(g, f, S), NEW T, T \subseteq S
  PROVE  /\ T = {} => g[T] = 0
         /\ T # {} => Some(T) \in T /\ g[T] = f[Some(T)] + g[T \ {Some(T)}]
<1>1. T # {} => Some(T) \in T  BY DEF Some
<1> DEFINE h == [U \in SUBSET S |-> IF U = {} THEN 0 ELSE f[Some(U)] + g[U \ {Some(U)}]]
<1>2. g[T] = h[T]  BY DEF Partial
<1>3. QED  BY <1>1, <1>2

LEMMA PartialSumsAgree ==
  ASSUME NEW f, NEW e, NEW S, IsFiniteSet(S), NEW A, NEW B, S \subseteq A, S \subseteq B,
         \A x \in S : f[x] = e[x],
         NEW g, Partial(g, f, A), NEW h, Partial(h, e, B)
  PROVE  g[S] = h[S]
<1> DEFINE Good == {T \in SUBSET S : g[T] = h[T]}
<1>1. ASSUME NEW T \in SUBSET S, \A V \in SUBSET T : V # T => V \in Good  PROVE g[T] = h[T]
  <2>1. T \subseteq A /\ T \subseteq B  OBVIOUS
  <2>g. /\ T = {} => g[T] = 0
        /\ T # {} => Some(T) \in T /\ g[T] = f[Some(T)] + g[T \ {Some(T)}]
    <3> HIDE DEF Good
    <3> QED  BY <2>1, PartialAt
  <2>h. /\ T = {} => h[T] = 0
        /\ T # {} => h[T] = e[Some(T)] + h[T \ {Some(T)}]
    <3> HIDE DEF Good
    <3> QED  BY <2>1, PartialAt
  <2>2. CASE T = {}  BY <2>g, <2>h, <2>2
  <2>3. CASE T # {}
    <3>1. Some(T) \in T  BY <2>g, <2>3
    <3>2. T \ {Some(T)} \in Good  BY <3>1, <1>1
    <3>3. f[Some(T)] = e[Some(T)]  BY <3>1
    <3>4. QED  BY <2>g, <2>h, <2>3, <3>2, <3>3
  <2>4. QED  BY <2>2, <2>3
<1>2. \A T \in SUBSET S : (\A V \in SUBSET T : V # T => V \in Good) => T \in Good
  BY <1>1
<1>3. \A T \in SUBSET S : T \in Good
  <2> HIDE DEF Good
  <2> QED  BY <1>2, BySmallerSets
<1>4. QED  BY <1>3

LEMMA PartialSumsExist ==
  ASSUME NEW f, NEW S, IsFiniteSet(S)
  PROVE  \E g : Partial(g, f, S)
<1> DEFINE Good == {T \in SUBSET S : \E g : Partial(g, f, T)}
<1>1. ASSUME NEW T \in SUBSET S, \A V \in SUBSET T : V # T => V \in Good
      PROVE  \E g : Partial(g, f, T)
  <2> DEFINE P(V) == CHOOSE g : Partial(g, f, V)
             s(V) == IF V = {} THEN 0 ELSE f[Some(V)] + P(V \ {Some(V)})[V \ {Some(V)}]
             g == [V \in SUBSET T |-> s(V)]
  <2>1. \A V \in SUBSET T : V # T => Partial(P(V), f, V)
    BY <1>1
  <2>2. ASSUME NEW V \in SUBSET T, V # T  PROVE s(V) = P(V)[V]
    <3>1. Partial(P(V), f, V) /\ V \subseteq V  BY <2>1, <2>2
    <3>2. CASE V = {}
      <4> HIDE DEF P
      <4>1. P(V)[V] = 0  BY <3>1, <3>2, PartialAt
      <4>2. QED  BY <4>1, <3>2
    <3>3. CASE V # {}
      <4> DEFINE W == V \ {Some(V)}
      <4>1. Some(V) \in V  BY <3>3 DEF Some
      <4>2. W \in SUBSET T /\ W # T /\ W \subseteq V  BY <4>1
      <4>3. Partial(P(W), f, W)  BY <4>2, <2>1
      <4>4. IsFiniteSet(W)  BY <4>2, FS_Subset
      <4> HIDE DEF P
      <4>5. P(V)[V] = f[Some(V)] + P(V)[W]  BY <3>1, <3>3, PartialAt
      <4>6. P(V)[W] = P(W)[W]
        <5> HIDE DEF W
        <5> QED  BY <3>1, <4>2, <4>3, <4>4, PartialSumsAgree
      <4>7. QED  BY <4>5, <4>6, <3>3
    <3>4. QED  BY <3>2, <3>3
  <2>3. ASSUME NEW V \in SUBSET T, V # {}
        PROVE  s(V) = f[Some(V)] + g[V \ {Some(V)}]
    <3> DEFINE W == V \ {Some(V)}
    <3>1. Some(V) \in V  BY <2>3 DEF Some
    <3>2. W \in SUBSET T /\ W # T  BY <3>1
    <3> HIDE DEF P
    <3>3. s(W) = P(W)[W]
      <4> HIDE DEF s, W
      <4> QED  BY <3>2, <2>2
    <3>4. g[W] = s(W)
      <4> HIDE DEF s, W
      <4> QED  BY <3>2
    <3>5. QED  BY <3>3, <3>4, <2>3
  <2>4. g = [V \in SUBSET T |-> IF V = {} THEN 0 ELSE f[Some(V)] + g[V \ {Some(V)}]]
    <3>1. ASSUME NEW V \in SUBSET T
          PROVE  s(V) = IF V = {} THEN 0 ELSE f[Some(V)] + g[V \ {Some(V)}]
      <4>1. CASE V = {}  BY <4>1
      <4>2. CASE V # {}
        <5> HIDE DEF s, g
        <5> QED  BY <4>2, <2>3
      <4>3. QED  BY <4>1, <4>2
    <3> DEFINE e(V) == IF V = {} THEN 0 ELSE f[Some(V)] + g[V \ {Some(V)}]
    <3>2. \A V \in SUBSET T : s(V) = e(V)  BY <3>1
    <3>3. [V \in SUBSET T |-> s(V)] = [V \in SUBSET T |-> e(V)]
      <4> HIDE DEF s, e
      <4> QED  BY <3>2
    <3>4. QED  BY <3>3
  <2>5. Partial(g, f, T)
    <3> HIDE DEF g
    <3> QED  BY <2>4 DEF Partial
  <2>6. QED  BY <2>5
<1>2. \A T \in SUBSET S : (\A V \in SUBSET T : V # T => V \in Good) => T \in Good
  BY <1>1
<1>3. \A T \in SUBSET S : T \in Good
  <2> HIDE DEF Good
  <2> QED  BY <1>2, BySmallerSets
<1>4. QED  BY <1>3

LEMMA SumOfPartial ==
  ASSUME NEW f, NEW S, IsFiniteSet(S), NEW A, S \subseteq A, NEW g, Partial(g, f, A)
  PROVE  SumFunctionOnSet(f, S) = g[S]
<1> DEFINE h == CHOOSE h : Partial(h, f, S)
<1>1. Partial(h, f, S)  BY PartialSumsExist
<1>2. SumFunctionOnSet(f, S) = h[S]  BY SumIsPartial
<1>3. h[S] = g[S]
  <2> HIDE DEF h
  <2> QED  BY <1>1, PartialSumsAgree
<1>4. QED  BY <1>2, <1>3

LEMMA SumOfNothing == ASSUME NEW f PROVE SumFunctionOnSet(f, {}) = 0
<1>1. IsFiniteSet({})  BY FS_EmptySet
<1>2. PICK g : Partial(g, f, {})  BY <1>1, PartialSumsExist
<1>3. SumFunctionOnSet(f, {}) = g[{}]  BY <1>1, <1>2, SumOfPartial
<1>4. g[{}] = 0  BY <1>2, PartialAt
<1>5. QED  BY <1>3, <1>4

LEMMA SumTakesSome ==
  ASSUME NEW f, NEW S, IsFiniteSet(S), S # {}
  PROVE  /\ Some(S) \in S
         /\ SumFunctionOnSet(f, S) = f[Some(S)] + SumFunctionOnSet(f, S \ {Some(S)})
<1> DEFINE V == S \ {Some(S)}
<1>1. PICK g : Partial(g, f, S)  BY PartialSumsExist
<1>2. Some(S) \in S /\ g[S] = f[Some(S)] + g[V]  BY <1>1, PartialAt
<1>3. V \subseteq S /\ IsFiniteSet(V)  BY FS_Subset
<1>4. SumFunctionOnSet(f, S) = g[S]  BY <1>1, SumOfPartial
<1>5. SumFunctionOnSet(f, V) = g[V]
  <2> HIDE DEF V
  <2> QED  BY <1>1, <1>3, SumOfPartial
<1>6. QED  BY <1>2, <1>4, <1>5

\* A sum depends on what is summed only.
LEMMA SameSums ==
  ASSUME NEW f, NEW e, NEW S, IsFiniteSet(S), \A x \in S : f[x] = e[x]
  PROVE  SumFunctionOnSet(f, S) = SumFunctionOnSet(e, S)
<1>1. PICK g : Partial(g, f, S)  BY PartialSumsExist
<1>2. PICK h : Partial(h, e, S)  BY PartialSumsExist
<1>3. SumFunctionOnSet(f, S) = g[S]  BY <1>1, SumOfPartial
<1>4. SumFunctionOnSet(e, S) = h[S]  BY <1>2, SumOfPartial
<1>5. g[S] = h[S]  BY <1>1, <1>2, PartialSumsAgree
<1>6. QED  BY <1>3, <1>4, <1>5

LEMMA SumsAreNumbers ==
  ASSUME NEW f, NEW S, IsFiniteSet(S), \A x \in S : f[x] \in Nat
  PROVE  SumFunctionOnSet(f, S) \in Nat
<1> DEFINE Good == {T \in SUBSET S : SumFunctionOnSet(f, T) \in Nat}
<1>1. ASSUME NEW T \in SUBSET S, \A V \in SUBSET T : V # T => V \in Good
      PROVE  SumFunctionOnSet(f, T) \in Nat
  <2>1. IsFiniteSet(T)  BY FS_Subset
  <2>2. CASE T = {}
    <3>1. SumFunctionOnSet(f, {}) = 0  BY SumOfNothing
    <3>2. QED  BY <3>1, <2>2
  <2>3. CASE T # {}
    <3>1. Some(T) \in T /\ SumFunctionOnSet(f, T) = f[Some(T)] + SumFunctionOnSet(f, T \ {Some(T)})
      BY <2>1, <2>3, SumTakesSome
    <3>2. SumFunctionOnSet(f, T \ {Some(T)}) \in Nat  BY <3>1, <1>1
    <3>3. f[Some(T)] \in Nat  BY <3>1
    <3>4. QED  BY <3>1, <3>2, <3>3
  <2>4. QED  BY <2>2, <2>3
<1>2. \A T \in SUBSET S : (\A V \in SUBSET T : V # T => V \in Good) => T \in Good
  BY <1>1
<1>3. \A T \in SUBSET S : T \in Good
  <2> HIDE DEF Good
  <2> QED  BY <1>2, BySmallerSets
<1>4. QED  BY <1>3

\* The order in which a sum is made does not matter: any element may be taken first.
LEMMA SumTakesAny ==
  ASSUME NEW f, NEW S, IsFiniteSet(S), \A x \in S : f[x] \in Nat, NEW y \in S
  PROVE  SumFunctionOnSet(f, S) = f[y] + SumFunctionOnSet(f, S \ {y})
<1> DEFINE sum(T) == SumFunctionOnSet(f, T)
           Good == {T \in SUBSET S : \A x \in T : sum(T) = f[x] + sum(T \ {x})}
<1>1. ASSUME NEW T \in SUBSET S, \A V \in SUBSET T : V # T => V \in Good, NEW x \in T
      PROVE  sum(T) = f[x] + sum(T \ {x})
  <2>1. IsFiniteSet(T)  BY FS_Subset
  <2>2. PICK z : z = Some(T)  OBVIOUS
  <2>3. z \in T /\ sum(T) = f[z] + sum(T \ {z})
    BY <2>1, <2>2, SumTakesSome
  <2>4. CASE x = z  BY <2>3, <2>4
  <2>5. CASE x # z
    <3> DEFINE W == T \ {x, z}
    <3>1. (T \ {z}) \ {x} = W /\ (T \ {x}) \ {z} = W  OBVIOUS
    <3>2. T \ {z} \in Good /\ T \ {x} \in Good  BY <1>1, <2>3
    <3>3. x \in T \ {z} /\ z \in T \ {x}  BY <2>3, <2>5
    <3> HIDE DEF W, sum
    <3>4. sum(T \ {z}) = f[x] + sum(W)  BY <3>1, <3>2, <3>3
    <3>5. sum(T \ {x}) = f[z] + sum(W)  BY <3>1, <3>2, <3>3
    <3>6. sum(W) \in Nat
      <4>1. IsFiniteSet(W) /\ \A u \in W : f[u] \in Nat  BY <2>1, FS_Subset DEF W
      <4>2. QED  BY <4>1, SumsAreNumbers DEF sum
    <3>7. f[x] \in Nat /\ f[z] \in Nat  BY <2>3
    <3>8. QED  BY <2>3, <3>4, <3>5, <3>6, <3>7
  <2>6. QED  BY <2>4, <2>5
<1>2. \A T \in SUBSET S : (\A V \in SUBSET T : V # T => V \in Good) => T \in Good
  BY <1>1
<1>3. \A T \in SUBSET S : T \in Good
  <2> HIDE DEF Good
  <2> QED  BY <1>2, BySmallerSets
<1>4. QED  BY <1>3

LEMMA SumOfOne ==
  ASSUME NEW f, NEW x, f[x] \in Nat
  PROVE  SumFunctionOnSet(f, {x}) = f[x]
<1>1. IsFiniteSet({x})  BY FS_Singleton
<1>2. SumFunctionOnSet(f, {x}) = f[x] + SumFunctionOnSet(f, {x} \ {x})
  BY <1>1, SumTakesAny
<1>3. {x} \ {x} = {}  OBVIOUS
<1>4. SumFunctionOnSet(f, {}) = 0  BY SumOfNothing
<1>5. QED  BY <1>2, <1>3, <1>4

\* What is nought adds nothing.
LEMMA SumWithoutNoughts ==
  ASSUME NEW f, NEW S, IsFiniteSet(S), \A x \in S : f[x] \in Nat,
         NEW T, T \subseteq S, \A x \in S \ T : f[x] = 0
  PROVE  SumFunctionOnSet(f, S) = SumFunctionOnSet(f, T)
<1> DEFINE sum(V) == SumFunctionOnSet(f, V)
           Good == {V \in SUBSET S : sum(V) = sum(V \cap T)}
<1>1. ASSUME NEW V \in SUBSET S, \A W \in SUBSET V : W # V => W \in Good
      PROVE  sum(V) = sum(V \cap T)
  <2>1. CASE V \subseteq T
    <3>1. V \cap T = V  BY <2>1
    <3>2. QED  BY <3>1
  <2>2. CASE ~(V \subseteq T)
    <3>1. PICK x \in V : x \notin T  BY <2>2
    <3> DEFINE W == V \ {x}
    <3>2. sum(W) = sum(V \cap T)
      <4>1. W \in Good /\ W \cap T = V \cap T  BY <3>1, <1>1
      <4>2. QED  BY <4>1
    <3>3. IsFiniteSet(V) /\ \A u \in V : f[u] \in Nat  BY FS_Subset
    <3>4. sum(V) = f[x] + sum(W)  BY <3>3, SumTakesAny
    <3>5. f[x] = 0  BY <3>1
    <3>6. sum(W) \in Nat
      <4>1. IsFiniteSet(W) /\ \A u \in W : f[u] \in Nat  BY <3>3, FS_Subset
      <4>2. QED  BY <4>1, SumsAreNumbers
    <3> HIDE DEF W, sum
    <3>7. QED  BY <3>2, <3>4, <3>5, <3>6
  <2>3. QED  BY <2>1, <2>2
<1>2. \A V \in SUBSET S : (\A W \in SUBSET V : W # V => W \in Good) => V \in Good
  BY <1>1
<1>3. \A V \in SUBSET S : V \in Good
  <2> HIDE DEF Good
  <2> QED  BY <1>2, BySmallerSets
<1>4. S \cap T = T /\ S \in SUBSET S  OBVIOUS
<1>5. QED  BY <1>3, <1>4

LEMMA SumOfNoughts ==
  ASSUME NEW f, NEW S, IsFiniteSet(S), \A x \in S : f[x] = 0
  PROVE  SumFunctionOnSet(f, S) = 0
<1>1. {} \subseteq S /\ (\A x \in S : f[x] \in Nat) /\ \A x \in S \ {} : f[x] = 0  OBVIOUS
<1>2. SumFunctionOnSet(f, S) = SumFunctionOnSet(f, {})  BY <1>1, SumWithoutNoughts
<1>3. QED  BY <1>2, SumOfNothing

\* What a set is divided into, and the sums of the parts: together the sum of the set.
Part(T, h, i) == {x \in T : h[x] = i}
Parts(f, T, h, I) == [i \in I |-> SumFunctionOnSet(f, Part(T, h, i))]

LEMMA PartsAreNumbers ==
  ASSUME NEW f, NEW S, IsFiniteSet(S), \A x \in S : f[x] \in Nat, NEW h, NEW I, NEW i \in I
  PROVE  IsFiniteSet(Part(S, h, i)) /\ Parts(f, S, h, I)[i] \in Nat
<1>1. IsFiniteSet(Part(S, h, i)) /\ \A x \in Part(S, h, i) : f[x] \in Nat
  BY FS_Subset DEF Part
<1>2. SumFunctionOnSet(f, Part(S, h, i)) \in Nat  BY <1>1, SumsAreNumbers
<1>3. QED  BY <1>1, <1>2 DEF Parts

LEMMA PartsWithoutOne ==
  ASSUME NEW f, NEW S, IsFiniteSet(S), \A x \in S : f[x] \in Nat, NEW h, NEW I,
         NEW y \in S, NEW j \in I, h[y] = j
  PROVE  /\ Parts(f, S, h, I)[j] = f[y] + Parts(f, S \ {y}, h, I)[j]
         /\ \A i \in I : i # j => Parts(f, S, h, I)[i] = Parts(f, S \ {y}, h, I)[i]
<1>1. ASSUME NEW i \in I, i # j  PROVE Part(S, h, i) = Part(S \ {y}, h, i)
  BY <1>1 DEF Part
<1>2. Part(S \ {y}, h, j) = Part(S, h, j) \ {y} /\ y \in Part(S, h, j)
  BY DEF Part
<1>3. IsFiniteSet(Part(S, h, j)) /\ \A x \in Part(S, h, j) : f[x] \in Nat
  BY FS_Subset DEF Part
<1>4. SumFunctionOnSet(f, Part(S, h, j)) = f[y] + SumFunctionOnSet(f, Part(S, h, j) \ {y})
  BY <1>2, <1>3, SumTakesAny
<1>5. Parts(f, S, h, I)[j] = f[y] + Parts(f, S \ {y}, h, I)[j]
  BY <1>2, <1>4 DEF Parts
<1>6. \A i \in I : i # j => Parts(f, S, h, I)[i] = Parts(f, S \ {y}, h, I)[i]
  BY <1>1 DEF Parts
<1>7. QED  BY <1>5, <1>6

LEMMA SumOfParts ==
  ASSUME NEW f, NEW S, IsFiniteSet(S), \A x \in S : f[x] \in Nat,
         NEW I, IsFiniteSet(I), NEW h, \A x \in S : h[x] \in I
  PROVE  SumFunctionOnSet(Parts(f, S, h, I), I) = SumFunctionOnSet(f, S)
<1> DEFINE all(T) == SumFunctionOnSet(Parts(f, T, h, I), I)
           sum(T) == SumFunctionOnSet(f, T)
           Good == {T \in SUBSET S : all(T) = sum(T)}
<1>1. ASSUME NEW T \in SUBSET S, \A V \in SUBSET T : V # T => V \in Good
      PROVE  all(T) = sum(T)
  <2>1. CASE T = {}
    <3>1. \A i \in I : Part(T, h, i) = {}  BY <2>1 DEF Part
    <3>2. SumFunctionOnSet(f, {}) = 0  BY SumOfNothing
    <3>3. \A i \in I : Parts(f, T, h, I)[i] = 0  BY <3>1, <3>2 DEF Parts
    <3>4. all(T) = 0  BY <3>3, SumOfNoughts
    <3>5. QED  BY <2>1, <3>2, <3>4
  <2>2. CASE T # {}
    <3>1. PICK y \in T : TRUE  BY <2>2
    <3>2. PICK j \in I : j = h[y]  BY <3>1
    <3> DEFINE V == T \ {y}
               w == Parts(f, T, h, I)
               v == Parts(f, V, h, I)
    <3>3. IsFiniteSet(T) /\ \A x \in T : f[x] \in Nat  BY FS_Subset
    <3>4. IsFiniteSet(V) /\ (\A x \in V : f[x] \in Nat) /\ V \in SUBSET T /\ V # T
      BY <3>1, <3>3, FS_Subset
    <3>5. all(V) = sum(V)  BY <3>4, <1>1
    <3>6. sum(T) = f[y] + sum(V)  BY <3>1, <3>3, SumTakesAny
    <3>7. w[j] = f[y] + v[j] /\ \A i \in I : i # j => w[i] = v[i]
      <4> HIDE DEF w, v, all, sum, Good, V
      <4>1. /\ Parts(f, T, h, I)[j] = f[y] + Parts(f, T \ {y}, h, I)[j]
            /\ \A i \in I : i # j => Parts(f, T, h, I)[i] = Parts(f, T \ {y}, h, I)[i]
        BY <3>1, <3>2, <3>3, PartsWithoutOne
      <4>2. QED  BY <4>1 DEF w, v, V
    <3>8. (\A i \in I : w[i] \in Nat) /\ (\A i \in I : v[i] \in Nat)
      <4>1. \A i \in I : w[i] \in Nat  BY <3>3, PartsAreNumbers
      <4>2. \A i \in I : v[i] \in Nat
        <5> HIDE DEF V
        <5> QED  BY <3>4, PartsAreNumbers
      <4>3. QED  BY <4>1, <4>2
    <3> HIDE DEF V, w, v
    <3>9. SumFunctionOnSet(w, I) = w[j] + SumFunctionOnSet(w, I \ {j})
      BY <3>8, SumTakesAny
    <3>10. SumFunctionOnSet(v, I) = v[j] + SumFunctionOnSet(v, I \ {j})
      BY <3>8, SumTakesAny
    <3>11. IsFiniteSet(I \ {j})  BY FS_Subset
    <3>12. SumFunctionOnSet(w, I \ {j}) = SumFunctionOnSet(v, I \ {j})
      BY <3>7, <3>11, SameSums
    <3>13. SumFunctionOnSet(v, I \ {j}) \in Nat  BY <3>8, <3>11, SumsAreNumbers
    <3>14. f[y] \in Nat /\ v[j] \in Nat  BY <3>1, <3>3, <3>8
    <3>15. SumFunctionOnSet(w, I) = f[y] + SumFunctionOnSet(v, I)
      BY <3>7, <3>9, <3>10, <3>12, <3>13, <3>14
    <3>16. all(T) = SumFunctionOnSet(w, I) /\ all(V) = SumFunctionOnSet(v, I)  BY DEF w, v
    <3> HIDE DEF all, sum
    <3>17. QED  BY <3>5, <3>6, <3>15, <3>16
  <2>3. QED  BY <2>1, <2>2
<1>2. \A T \in SUBSET S : (\A V \in SUBSET T : V # T => V \in Good) => T \in Good
  BY <1>1
<1>3. \A T \in SUBSET S : T \in Good
  <2> HIDE DEF Good
  <2> QED  BY <1>2, BySmallerSets
<1>4. QED  BY <1>3

\* A sum may be made in any order of its own: b says what comes where.
LEMMA SumReordered ==
  ASSUME NEW f, NEW S, IsFiniteSet(S), \A x \in S : f[x] \in Nat,
         NEW I, IsFiniteSet(I), NEW b \in [I -> S],
         \A i, j \in I : b[i] = b[j] => i = j, \A x \in S : \E i \in I : b[i] = x,
         NEW e, \A i \in I : e[i] = f[b[i]]
  PROVE  SumFunctionOnSet(e, I) = SumFunctionOnSet(f, S)
<1> DEFINE h == [x \in S |-> CHOOSE i \in I : b[i] = x]
<1>1. \A x \in S : h[x] \in I /\ b[h[x]] = x  OBVIOUS
<1>2. ASSUME NEW i \in I  PROVE Part(S, h, i) = {b[i]}
  <2>1. b[i] \in S /\ h[b[i]] = i
    <3>1. b[i] \in S  OBVIOUS
    <3>2. h[b[i]] \in I /\ b[h[b[i]]] = b[i]  BY <1>1, <3>1
    <3> HIDE DEF h
    <3>3. QED  BY <3>1, <3>2
  <2> HIDE DEF h
  <2>2. QED  BY <1>1, <2>1 DEF Part
<1> HIDE DEF h
<1>3. ASSUME NEW i \in I  PROVE Parts(f, S, h, I)[i] = e[i]
  <2>1. f[b[i]] \in Nat  OBVIOUS
  <2>2. SumFunctionOnSet(f, {b[i]}) = f[b[i]]  BY <2>1, SumOfOne
  <2>3. QED  BY <1>2, <2>2 DEF Parts
<1>4. SumFunctionOnSet(Parts(f, S, h, I), I) = SumFunctionOnSet(f, S)
  BY <1>1, SumOfParts
<1>5. SumFunctionOnSet(Parts(f, S, h, I), I) = SumFunctionOnSet(e, I)
  BY <1>3, SameSums
<1>6. QED  BY <1>4, <1>5

-----------------------------------------------------------------------------
(* The trees of a build, in order *)

\* The points of trees, as a page counts them.
Weighed(S) == \A w \in S : w.points \in Nat /\ w.tree \in Nat
Apart(S) == \A v, w \in S : v.tree = w.tree => v = w
Place(S, w) == Cardinality(Before(S, w))

LEMMA DeeperIsAnOrder ==
  ASSUME NEW S, Weighed(S), Apart(S), NEW u \in S, NEW v \in S, NEW w \in S
  PROVE  /\ ~Deeper(v, v)
         /\ Deeper(u, v) /\ Deeper(v, w) => Deeper(u, w)
         /\ v # w => Deeper(v, w) \/ Deeper(w, v)
<1>1. /\ u.points \in Nat /\ v.points \in Nat /\ w.points \in Nat
      /\ u.tree \in Nat /\ v.tree \in Nat /\ w.tree \in Nat
  BY DEF Weighed
<1>2. v # w => v.tree # w.tree  BY DEF Apart
<1>3. QED  BY <1>1, <1>2 DEF Deeper

LEMMA PlacesAreCounted ==
  ASSUME NEW S, IsFiniteSet(S), NEW w \in S, Weighed(S), Apart(S)
  PROVE  /\ Cardinality(S) \in Nat /\ Place(S, w) \in 0..(Cardinality(S) - 1)
         /\ IsFiniteSet(Before(S, w))
<1>1. Before(S, w) \in SUBSET S /\ Before(S, w) # S
  <2>1. w \notin Before(S, w)  BY DeeperIsAnOrder DEF Before
  <2>2. QED  BY <2>1 DEF Before
<1>2. /\ IsFiniteSet(Before(S, w)) /\ Cardinality(Before(S, w)) <= Cardinality(S)
      /\ Cardinality(Before(S, w)) # Cardinality(S)
  BY <1>1, FS_Subset
<1>3. Cardinality(S) \in Nat /\ Cardinality(Before(S, w)) \in Nat
  BY <1>2, FS_CardinalityType
<1>4. QED  BY <1>2, <1>3 DEF Place

LEMMA DeeperComesFirst ==
  ASSUME NEW S, IsFiniteSet(S), Weighed(S), Apart(S), NEW v \in S, NEW w \in S, Deeper(v, w)
  PROVE  Place(S, v) < Place(S, w)
<1>1. Before(S, v) \subseteq Before(S, w)
  <2>1. ASSUME NEW u \in S, Deeper(u, v)  PROVE Deeper(u, w)  BY <2>1, DeeperIsAnOrder
  <2>2. QED  BY <2>1 DEF Before
<1>2. v \in Before(S, w) /\ v \notin Before(S, v)
  BY DeeperIsAnOrder DEF Before
<1>3. IsFiniteSet(Before(S, w)) /\ Place(S, w) \in Nat /\ Place(S, v) \in Nat
  BY PlacesAreCounted
<1>4. /\ Cardinality(Before(S, v)) <= Cardinality(Before(S, w))
      /\ Cardinality(Before(S, v)) # Cardinality(Before(S, w))
  BY <1>1, <1>2, <1>3, FS_Subset
<1>5. QED  BY <1>3, <1>4 DEF Place

\* Two trees are never at one place, and no place is left empty.
LEMMA EveryPlaceIsTaken ==
  ASSUME NEW S, IsFiniteSet(S), Weighed(S), Apart(S)
  PROVE  /\ \A v, w \in S : Place(S, v) = Place(S, w) => v = w
         /\ \A k \in 1..Cardinality(S) : \E w \in S : Place(S, w) = k - 1
<1>1. ASSUME NEW v \in S, NEW w \in S, Place(S, v) = Place(S, w)  PROVE v = w
  <2> SUFFICES ASSUME v # w PROVE FALSE  OBVIOUS
  <2>1. Place(S, v) \in Nat /\ Place(S, w) \in Nat  BY PlacesAreCounted
  <2>2. CASE Deeper(v, w)
    <3>1. Place(S, v) < Place(S, w)  BY <2>2, DeeperComesFirst
    <3>2. QED  BY <1>1, <2>1, <3>1
  <2>3. CASE Deeper(w, v)
    <3>1. Place(S, w) < Place(S, v)  BY <2>3, DeeperComesFirst
    <3>2. QED  BY <1>1, <2>1, <3>1
  <2>4. QED  BY <2>2, <2>3, DeeperIsAnOrder
<1> DEFINE n == Cardinality(S)
           places == 0..(n - 1)
           at == [w \in S |-> Place(S, w)]
<1>2. n \in Nat  BY FS_CardinalityType
<1>3. IsFiniteSet(places) /\ Cardinality(places) = n
  <2>1. 0 \in Int /\ n - 1 \in Int  BY <1>2
  <2>2. IsFiniteSet(places) /\ Cardinality(places) = IF 0 > n - 1 THEN 0 ELSE (n - 1) - 0 + 1
    <3> HIDE DEF n
    <3> QED  BY <2>1, FS_Interval
  <2>3. QED  BY <1>2, <2>2
<1>4. \A w \in S : Place(S, w) \in places  BY PlacesAreCounted
<1>5. at \in Injection(S, places)
  <2>1. at \in [S -> places]  BY <1>4
  <2>2. \A v, w \in S : at[v] = at[w] => v = w  BY <1>1
  <2>3. QED  BY <2>1, <2>2 DEF Injection, IsInjective
<1>6. at \in Surjection(S, places)
  <2> HIDE DEF at, places
  <2> QED  BY <1>3, <1>5, FS_Injection
<1>7. ASSUME NEW k \in 1..n  PROVE \E w \in S : Place(S, w) = k - 1
  <2>1. k - 1 \in places  BY <1>2
  <2>2. PICK w \in S : at[w] = k - 1
    <3> HIDE DEF at, places
    <3> QED  BY <1>6, <2>1 DEF Surjection
  <2>3. QED  BY <2>2
<1>8. QED  BY <1>1, <1>7

LEMMA TheOrder ==
  ASSUME NEW S, IsFiniteSet(S), Weighed(S), Apart(S), NEW n, n = Cardinality(S),
         NEW seq, seq = Ordered(S)
  PROVE  /\ n \in Nat /\ seq \in [1..n -> S]
         /\ \A i, j \in 1..n : seq[i] = seq[j] => i = j
         /\ \A w \in S : \E k \in 1..n : seq[k] = w
         /\ \A i, j \in 1..n : i < j => seq[j].points <= seq[i].points
<1>1. n \in Nat  BY FS_CardinalityType
<1>2. \A k \in 1..n : seq[k] \in S /\ Place(S, seq[k]) = k - 1
  <2>1. \A k \in 1..n : \E w \in S : Place(S, w) = k - 1  BY EveryPlaceIsTaken
  <2>2. \A k \in 1..n : seq[k] = CHOOSE w \in S : Place(S, w) = k - 1  BY DEF Ordered, Place
  <2>3. QED  BY <2>1, <2>2
<1>3. seq \in [1..n -> S]
  <2>1. \A k \in 1..n : seq[k] \in S  BY <1>2
  <2>2. seq = [k \in 1..n |-> seq[k]]  BY DEF Ordered
  <2>3. QED  BY <2>1, <2>2
<1>4. \A i, j \in 1..n : seq[i] = seq[j] => i = j
  <2>1. ASSUME NEW i \in 1..n, NEW j \in 1..n, seq[i] = seq[j]  PROVE i = j
    <3>1. i - 1 = j - 1  BY <1>2, <2>1
    <3>2. QED  BY <1>1, <3>1
  <2>2. QED  BY <2>1
<1>5. ASSUME NEW w \in S  PROVE \E k \in 1..n : seq[k] = w
  <2>1. Place(S, w) \in 0..(n - 1)  BY PlacesAreCounted
  <2>2. PICK k \in 1..n : k - 1 = Place(S, w)
    <3>1. Place(S, w) + 1 \in 1..n /\ (Place(S, w) + 1) - 1 = Place(S, w)  BY <1>1, <2>1
    <3>2. QED  BY <3>1
  <2>3. seq[k] \in S /\ Place(S, seq[k]) = Place(S, w)  BY <1>2, <2>2
  <2>4. QED  BY <2>3, EveryPlaceIsTaken
<1>6. ASSUME NEW i \in 1..n, NEW j \in 1..n, i < j  PROVE seq[j].points <= seq[i].points
  <2>1. seq[i] \in S /\ seq[j] \in S /\ Place(S, seq[i]) = i - 1 /\ Place(S, seq[j]) = j - 1
    BY <1>2
  <2>2. ~Deeper(seq[j], seq[i])
    <3>1. SUFFICES ASSUME Deeper(seq[j], seq[i]) PROVE FALSE  OBVIOUS
    <3>2. Place(S, seq[j]) < Place(S, seq[i])  BY <2>1, <3>1, DeeperComesFirst
    <3>3. QED  BY <1>1, <1>6, <2>1, <3>2
  <2>3. seq[i].points \in Nat /\ seq[j].points \in Nat  BY <2>1 DEF Weighed
  <2>4. QED  BY <2>2, <2>3 DEF Deeper
<1>7. QED  BY <1>1, <1>3, <1>4, <1>5, <1>6

LEMMA FinitelyManyTrees == IsFiniteSet(DOMAIN Tree) /\ DOMAIN Tree \subseteq Nat
<1>1. Tree \in Seq(Range(Tree))  BY ArmoryAssumption DEF ArmoryAssumption
<1>2. Len(Tree) \in Nat /\ DOMAIN Tree = 1..Len(Tree)  BY <1>1
<1>3. IsFiniteSet(1..Len(Tree))
  <2>1. 1 \in Int /\ Len(Tree) \in Int  BY <1>2
  <2>2. QED  BY <2>1, FS_Interval
<1>4. QED  BY <1>2, <1>3

\* The weight of a tree.
WeightOf(rows, i) == [tree |-> i, points |-> Points(rows, Tree[i])]

LEMMA WeightsAreNumbers ==
  ASSUME NEW D \in SUBSET Node, NEW rows \in [D -> Nat]
  PROVE  /\ IsFiniteSet(D) /\ \A i \in DOMAIN Tree : Points(rows, Tree[i]) \in Nat
         /\ IsFiniteSet(Weights(rows)) /\ Weighed(Weights(rows)) /\ Apart(Weights(rows))
<1>1. IsFiniteSet(Node)  BY ArmoryAssumption DEF ArmoryAssumption
<1>2. IsFiniteSet(D)  BY <1>1, FS_Subset
<1>3. ASSUME NEW i \in DOMAIN Tree  PROVE Points(rows, Tree[i]) \in Nat
  <2> DEFINE mine == {n \in DOMAIN rows : TreeOf[n] = Tree[i]}
  <2>1. mine \in SUBSET D /\ \A x \in mine : rows[x] \in Nat  OBVIOUS
  <2>2. IsFiniteSet(mine)  BY <1>2, <2>1, FS_Subset
  <2>3. SumFunctionOnSet(rows, mine) \in Nat
    <3> HIDE DEF mine
    <3> QED  BY <2>1, <2>2, SumsAreNumbers
  <2>4. QED  BY <2>3 DEF Points
<1> DEFINE weigh == [i \in DOMAIN Tree |-> WeightOf(rows, i)]
<1>4. Weights(rows) = {weigh[i] : i \in DOMAIN Tree}  BY DEF Weights, WeightOf
<1>5. IsFiniteSet(Weights(rows))
  <2>1. weigh \in Surjection(DOMAIN Tree, Weights(rows))
    <3>1. weigh \in [DOMAIN Tree -> Weights(rows)]  BY <1>4
    <3>2. \A w \in Weights(rows) : \E i \in DOMAIN Tree : weigh[i] = w  BY <1>4
    <3> HIDE DEF weigh
    <3>3. QED  BY <3>1, <3>2 DEF Surjection
  <2>2. IsFiniteSet(DOMAIN Tree)  BY FinitelyManyTrees
  <2> HIDE DEF weigh
  <2>3. QED  BY <2>1, <2>2, FS_Surjection
<1>6. Weighed(Weights(rows))
  BY <1>3, FinitelyManyTrees DEF Weighed, Weights
<1>7. Apart(Weights(rows))  BY DEF Apart, Weights
<1>8. QED  BY <1>2, <1>3, <1>5, <1>6, <1>7

\* All trees together weigh what was spent: each row counts in the one tree it is of.
LEMMA WeightsAddUp ==
  ASSUME NEW D \in SUBSET Node, NEW rows \in [D -> Nat], NEW f,
         \A w \in Weights(rows) : f[w] = w.points
  PROVE  SumFunctionOnSet(f, Weights(rows)) = Sum(rows)
<1> DEFINE I == Weights(rows)
           h == [n \in D |-> CHOOSE w \in I : Tree[w.tree] = TreeOf[n]]
<1>1. IsFiniteSet(D) /\ IsFiniteSet(I)  BY WeightsAreNumbers
<1>2. ASSUME NEW n \in D  PROVE h[n] \in I /\ Tree[h[n].tree] = TreeOf[n]
  <2>1. TreeOf[n] \in Range(Tree)  BY ArmoryAssumption DEF ArmoryAssumption
  <2>2. PICK i \in DOMAIN Tree : Tree[i] = TreeOf[n]  BY <2>1 DEF Range
  <2>3. WeightOf(rows, i) \in I /\ Tree[WeightOf(rows, i).tree] = TreeOf[n]
    BY <2>2 DEF Weights, WeightOf
  <2>4. \E w \in I : Tree[w.tree] = TreeOf[n]
    <3> HIDE DEF I, h
    <3> QED  BY <2>3
  <2>5. h[n] = CHOOSE w \in I : Tree[w.tree] = TreeOf[n]  OBVIOUS
  <2> HIDE DEF I, h
  <2>6. QED  BY <2>4, <2>5
<1>3. ASSUME NEW w \in I  PROVE Parts(rows, D, h, I)[w] = f[w]
  <2>1. PICK i \in DOMAIN Tree : w = WeightOf(rows, i)  BY DEF Weights, WeightOf
  <2>2. w.tree = i /\ w.points = Points(rows, Tree[i])  BY <2>1 DEF WeightOf
  <2>3. Part(D, h, w) = {n \in DOMAIN rows : TreeOf[n] = Tree[i]}
    <3>1. ASSUME NEW n \in D, h[n] = w  PROVE TreeOf[n] = Tree[i]
      BY <1>2, <2>2, <3>1
    <3>2. ASSUME NEW n \in D, TreeOf[n] = Tree[i]  PROVE h[n] = w
      <4>1. PICK v \in I : v = h[n]  BY <1>2
      <4>2. Tree[v.tree] = Tree[i]  BY <1>2, <3>2, <4>1
      <4>3. PICK j \in DOMAIN Tree : v = WeightOf(rows, j)  BY DEF Weights, WeightOf
      <4>4. v.tree = j  BY <4>3 DEF WeightOf
      <4>5. j = i
        <5>1. IsInjective(Tree)  BY ArmoryAssumption DEF ArmoryAssumption
        <5>2. QED  BY <4>2, <4>4, <5>1 DEF IsInjective
      <4>6. QED  BY <2>1, <4>1, <4>3, <4>5
    <3>3. DOMAIN rows = D  OBVIOUS
    <3> HIDE DEF h, I
    <3>4. QED  BY <3>1, <3>2, <3>3 DEF Part
  <2>4. Parts(rows, D, h, I)[w] = Points(rows, Tree[i])
    <3> HIDE DEF h, I
    <3> QED  BY <2>3 DEF Parts, Points
  <2>5. QED  BY <2>2, <2>4
<1>4. \A x \in D : rows[x] \in Nat  OBVIOUS
<1>5. SumFunctionOnSet(Parts(rows, D, h, I), I) = SumFunctionOnSet(rows, D)
  <2> HIDE DEF h, I
  <2> QED  BY <1>1, <1>2, <1>4, SumOfParts
<1>6. SumFunctionOnSet(Parts(rows, D, h, I), I) = SumFunctionOnSet(f, I)
  <2> HIDE DEF h, I
  <2> QED  BY <1>1, <1>3, SameSums
<1>7. Sum(rows) = SumFunctionOnSet(rows, D)
  <2>1. DOMAIN rows = D  OBVIOUS
  <2>2. QED  BY <2>1 DEF Sum, SumFunction
<1>8. QED  BY <1>5, <1>6, <1>7

\* Those something was spent in, in order.
LEMMA SegmentsAddUp ==
  ASSUME NEW D \in SUBSET Node, NEW rows \in [D -> Nat], NEW seq, seq = Populated(rows),
         NEW n, n = Cardinality(Spent(Weights(rows)))
  PROVE  /\ n \in Nat /\ seq \in [1..n -> Spent(Weights(rows))]
         /\ \A w \in Spent(Weights(rows)) : \E k \in 1..n : seq[k] = w
         /\ \A i, j \in 1..n : i < j => seq[j].points <= seq[i].points
         /\ Sum([i \in 1..n |-> seq[i].points]) = Sum(rows)
<1> DEFINE W == Weights(rows)
           S == Spent(W)
           f == [w \in W |-> w.points]
           e == [i \in 1..n |-> seq[i].points]
<1>1. IsFiniteSet(W) /\ Weighed(W) /\ Apart(W)  BY WeightsAreNumbers
<1>2. S \in SUBSET W  BY DEF Spent
<1>3. IsFiniteSet(S) /\ Weighed(S) /\ Apart(S)
  <2> HIDE DEF W, S
  <2>1. IsFiniteSet(S)  BY <1>1, <1>2, FS_Subset
  <2>2. Weighed(S) /\ Apart(S)  BY <1>1, <1>2 DEF Weighed, Apart
  <2>3. QED  BY <2>1, <2>2
<1>4. /\ n \in Nat /\ seq \in [1..n -> S]
      /\ \A i, j \in 1..n : seq[i] = seq[j] => i = j
      /\ \A w \in S : \E k \in 1..n : seq[k] = w
      /\ \A i, j \in 1..n : i < j => seq[j].points <= seq[i].points
  <2>1. seq = Ordered(S) /\ n = Cardinality(S)  BY DEF Populated
  <2> HIDE DEF S
  <2>2. QED  BY <1>3, <2>1, TheOrder
<1>5. IsFiniteSet(1..n)
  <2>1. 1 \in Int /\ n \in Int  BY <1>4
  <2>2. QED  BY <2>1, FS_Interval
<1>6. \A w \in W : f[w] = w.points /\ f[w] \in Nat
  <2>1. \A w \in W : w.points \in Nat  BY <1>1 DEF Weighed
  <2> HIDE DEF W
  <2>2. QED  BY <2>1
<1>7. SumFunctionOnSet(f, W) = Sum(rows)
  <2> HIDE DEF f
  <2> QED  BY <1>6, WeightsAddUp
<1>8. \A w \in W \ S : f[w] = 0  BY <1>6 DEF Spent
<1> HIDE DEF W, S, f
<1>9. SumFunctionOnSet(f, W) = SumFunctionOnSet(f, S)
  BY <1>1, <1>2, <1>6, <1>8, SumWithoutNoughts
<1>10. \A i \in 1..n : e[i] = f[seq[i]]
  BY <1>2, <1>4, <1>6
<1>11. SumFunctionOnSet(e, 1..n) = SumFunctionOnSet(f, S)
  <2> DEFINE I == 1..n
  <2> HIDE DEF e
  <2>1. \A w \in S : f[w] \in Nat  BY <1>2, <1>6
  <2>2. seq \in [I -> S] /\ IsFiniteSet(I) /\ \A i \in I : e[i] = f[seq[i]]
    BY <1>4, <1>5, <1>10
  <2>3. (\A i, j \in I : seq[i] = seq[j] => i = j) /\ \A w \in S : \E k \in I : seq[k] = w
    BY <1>4
  <2> HIDE DEF I
  <2>4. SumFunctionOnSet(e, I) = SumFunctionOnSet(f, S)
    BY <1>3, <2>1, <2>2, <2>3, SumReordered
  <2>5. QED  BY <2>4 DEF I
<1>12. Sum(e) = SumFunctionOnSet(e, 1..n)  BY DEF Sum, SumFunction
<1>13. Sum(e) = Sum(rows)  BY <1>7, <1>9, <1>11, <1>12
<1>14. QED  BY <1>4, <1>13 DEF S, W

-----------------------------------------------------------------------------
(* The profile *)

\* The title names the deepest tree, or the two or three deepest; none where nothing
\* was spent.
LEMMA TitleOfTheDeepest ==
  ASSUME NEW n \in Nat, NEW S, NEW seq \in [1..n -> S], \A w \in S : w.points \in Nat,
         Sum([i \in 1..n |-> seq[i].points]) \in Nat
  PROVE  /\ ComposeArchetype(seq).shape = "unspent" <=> Sum([i \in 1..n |-> seq[i].points]) = 0
         /\ \E m \in 0..n : Range(ComposeArchetype(seq).trees) = {seq[i].tree : i \in 1..m}
<1> DEFINE total == Sum([i \in DOMAIN seq |-> seq[i].points])
           share(i) == IF i \in DOMAIN seq THEN 100 * seq[i].points ELSE 0
           first(k) == [i \in 1..(IF k > Len(seq) THEN Len(seq) ELSE k) |-> seq[i].tree]
           title == ComposeArchetype(seq)
<1>1. DOMAIN seq = 1..n /\ Len(seq) = n  OBVIOUS
<1>2. total \in Nat /\ total = Sum([i \in 1..n |-> seq[i].points])  BY <1>1
<1>3. share(1) \in Nat /\ share(2) \in Nat  BY <1>1
<1>4. title = CASE total = 0 -> Title("unspent", << >>)
                [] total > 0 /\ share(1) >= 65 * total -> Title("focused", first(1))
                [] share(1) < 65 * total /\ share(1) + share(2) >= 80 * total /\ share(2) >= 15 * total
                     -> Title("paired", first(2))
                [] OTHER -> Title("broad", first(3))
  BY DEF ComposeArchetype
<1>5. ASSUME NEW k \in 1..3
      PROVE  \E m \in 0..n : Range(first(k)) = {seq[i].tree : i \in 1..m}
  <2>1. PICK m \in 0..n : m = IF k > Len(seq) THEN Len(seq) ELSE k  BY <1>1
  <2>2. first(k) = [i \in 1..m |-> seq[i].tree]  BY <2>1
  <2>3. Range(first(k)) = {seq[i].tree : i \in 1..m}  BY <2>2 DEF Range
  <2>4. QED  BY <2>3
<1>6. CASE total = 0
  <2>1. title = Title("unspent", << >>)
    <3> HIDE DEF total, share, first, title
    <3>1. ~(total > 0) /\ ~(share(1) < 65 * total)  BY <1>3, <1>6
    <3>2. QED  BY <1>4, <1>6, <3>1
  <2>2. Range(<< >>) = {}  BY DEF Range
  <2>3. {seq[i].tree : i \in 1..0} = {} /\ 0 \in 0..n  OBVIOUS
  <2> HIDE DEF total, title
  <2>4. QED  BY <1>2, <1>6, <2>1, <2>2, <2>3 DEF Title, title
<1>7. CASE total # 0
  <2>1. \E k \in 1..3, shape \in {"focused", "paired", "broad"} : title = Title(shape, first(k))
    <3> HIDE DEF total, share, first, title
    <3>1. \/ title = Title("focused", first(1))
          \/ title = Title("paired", first(2))
          \/ title = Title("broad", first(3))
      BY <1>2, <1>3, <1>4, <1>7
    <3>2. 1 \in 1..3 /\ 2 \in 1..3 /\ 3 \in 1..3  OBVIOUS
    <3>3. QED  BY <3>1, <3>2
  <2>2. PICK k \in 1..3, shape \in {"focused", "paired", "broad"} : title = Title(shape, first(k))
    BY <2>1
  <2>3. PICK m \in 0..n : Range(first(k)) = {seq[i].tree : i \in 1..m}  BY <1>5
  <2>4. title.shape # "unspent" /\ title.trees = first(k)
    <3> HIDE DEF first, title
    <3> QED  BY <2>2 DEF Title
  <2> HIDE DEF total, first
  <2>5. QED  BY <1>2, <1>7, <2>3, <2>4
<1>8. QED  BY <1>6, <1>7

\* The bar is filled, and no more.
LEMMA TheBarIsFilled ==
  ASSUME NEW q, NEW spent \in Nat, Total(q) \in Nat \cup {NoCurve},
         Curve # NoCurve => Total(q) \in Nat,
         NEW unspent,
         unspent = IF Total(q) = NoCurve THEN 0 ELSE Larger(Budget(q, spent) - spent, 0)
  PROVE  /\ spent + unspent <= Budget(q, spent)
         /\ Curve # NoCurve => spent + unspent = Budget(q, spent)
<1> DEFINE total == Total(q)
<1>1. NoCurve \notin Nat  BY ArmoryAssumption DEF ArmoryAssumption
<1>2. Budget(q, spent) = Larger(Larger(IF total = NoCurve THEN spent ELSE total, spent), 1)
  BY DEF Budget
<1> HIDE DEF total
<1>3. CASE total = NoCurve
  <2>1. Curve = NoCurve  BY <1>1, <1>3 DEF total
  <2>2. unspent = 0  BY <1>3 DEF total
  <2>3. Budget(q, spent) \in Nat /\ spent <= Budget(q, spent)  BY <1>2, <1>3 DEF Larger
  <2>4. QED  BY <2>1, <2>2, <2>3
<1>4. CASE total # NoCurve
  <2>1. total \in Nat  BY <1>4 DEF total
  <2>2. unspent = Larger(Budget(q, spent) - spent, 0)  BY <1>4 DEF total
  <2>3. Budget(q, spent) \in Nat /\ spent <= Budget(q, spent)  BY <1>2, <1>4, <2>1 DEF Larger
  <2>4. unspent = Budget(q, spent) - spent  BY <2>2, <2>3 DEF Larger
  <2>5. QED  BY <2>3, <2>4
<1>5. QED  BY <1>3, <1>4

\* No tree left out of the title is deeper than one in it.
LEMMA TheTitledAreDeepest ==
  ASSUME NEW D \in SUBSET Node, NEW rows \in [D -> Nat], NEW seq, seq = Populated(rows),
         NEW n, n = Cardinality(Spent(Weights(rows))), NEW m \in 0..n,
         NEW i \in {seq[k].tree : k \in 1..m}, NEW j \in DOMAIN Tree, j \notin {seq[k].tree : k \in 1..m}
  PROVE  Points(rows, Tree[j]) <= Points(rows, Tree[i])
<1> DEFINE S == Spent(Weights(rows))
<1>1. /\ n \in Nat /\ seq \in [1..n -> S]
      /\ \A w \in S : \E k \in 1..n : seq[k] = w
      /\ \A a, b \in 1..n : a < b => seq[b].points <= seq[a].points
      /\ Sum([k \in 1..n |-> seq[k].points]) = Sum(rows)
  BY SegmentsAddUp
<1>2. \A k \in DOMAIN Tree : Points(rows, Tree[k]) \in Nat  BY WeightsAreNumbers
<1>3. PICK a \in 1..m : i = seq[a].tree  OBVIOUS
<1>4. a \in 1..n /\ seq[a] \in S  BY <1>1, <1>3
<1>5. i \in DOMAIN Tree /\ seq[a].points = Points(rows, Tree[i])
  BY <1>3, <1>4 DEF Spent, Weights
<1>6. CASE Points(rows, Tree[j]) = 0  BY <1>2, <1>5, <1>6
<1>7. CASE Points(rows, Tree[j]) # 0
  <2>1. WeightOf(rows, j) \in S  BY <1>2, <1>7 DEF Spent, Weights, WeightOf
  <2>2. PICK b \in 1..n : seq[b] = WeightOf(rows, j)  BY <1>1, <2>1
  <2>3. seq[b].tree = j /\ seq[b].points = Points(rows, Tree[j])  BY <2>2 DEF WeightOf
  <2>4. b \notin 1..m  BY <2>3
  <2>5. a < b  BY <1>1, <1>3, <2>4
  <2>6. seq[b].points <= seq[a].points  BY <1>1, <1>4, <2>5
  <2>7. QED  BY <1>5, <2>3, <2>6
<1>8. QED  BY <1>6, <1>7

LEMMA AgreesWithItself ==
  ASSUME NEW q \in Requests
  PROVE  LET page == BuildDisplay(q)
             filled == Sum([i \in DOMAIN page.segments |-> page.segments[i].points])
             titled == Range(page.title.trees)
             depth(i) == Points(Itemised(q), Tree[i])
         IN /\ filled = page.spent
            /\ filled + page.unspent <= page.budget
            /\ Curve # NoCurve => filled + page.unspent = page.budget
            /\ \A i \in titled, j \in DOMAIN Tree \ titled : depth(j) <= depth(i)
            /\ page.title.shape = "unspent" <=> page.spent = 0
<1> DEFINE rows == Itemised(q)
           D == DOMAIN q.taken.rows \cap DOMAIN q.offered.rows
           S == Spent(Weights(rows))
           n == Cardinality(S)
           seq == Populated(rows)
           spent == Sum(rows)
           unspent == IF Total(q) = NoCurve THEN 0 ELSE Larger(Budget(q, spent) - spent, 0)
           title == ComposeArchetype(seq)
           page == BuildDisplay(q)
<1>1. q.taken.rows \in Rows /\ q.offered.rows \in Rows /\ q.level \in Nat
  BY ArmoryAssumption DEF Requests, Reads, ArmoryAssumption
<1>2. D \in SUBSET Node /\ rows \in [D -> Nat]
  <2>1. PICK A \in SUBSET Node : q.taken.rows \in [A -> Costs]  BY <1>1 DEF Rows
  <2>2. PICK B \in SUBSET Node : q.offered.rows \in [B -> Costs]  BY <1>1 DEF Rows
  <2>3. Costs \subseteq Nat  BY ArmoryAssumption DEF ArmoryAssumption
  <2>4. D \in SUBSET Node  BY <2>1, <2>2
  <2>5. \A x \in D : q.taken.rows[x] \in Nat /\ q.offered.rows[x] \in Nat  BY <2>1, <2>2, <2>3
  <2>6. rows \in [D -> Nat]  BY <2>5 DEF Itemised
  <2>7. QED  BY <2>4, <2>6
<1> HIDE DEF D, rows
<1>3. /\ n \in Nat /\ seq \in [1..n -> S]
      /\ Sum([i \in 1..n |-> seq[i].points]) = spent
  BY <1>2, SegmentsAddUp
<1>4. IsFiniteSet(D) /\ Weighed(Weights(rows))  BY <1>2, WeightsAreNumbers
<1>5. spent \in Nat
  <2>1. DOMAIN rows = D /\ \A x \in D : rows[x] \in Nat  BY <1>2
  <2>2. SumFunctionOnSet(rows, D) \in Nat  BY <1>4, <2>1, SumsAreNumbers
  <2>3. QED  BY <2>1, <2>2 DEF Sum, SumFunction
<1>6. /\ page.segments = seq /\ page.spent = spent /\ page.budget = Budget(q, spent)
      /\ page.unspent = unspent /\ page.title = title
  BY DEF BuildDisplay, rows
<1>7. Total(q) \in Nat \cup {NoCurve} /\ (Curve # NoCurve => Total(q) \in Nat)
  BY <1>1, BudgetsAreNumbers DEF Total
<1>8. DOMAIN seq = 1..n  BY <1>3
<1>9. \A w \in S : w.points \in Nat  BY <1>4 DEF Spent, Weighed
<1> HIDE DEF page, seq, spent, S, title, unspent
<1>10. n \in Nat /\ Sum([i \in DOMAIN page.segments |-> page.segments[i].points]) = page.spent
  BY <1>3, <1>6, <1>8
<1>11. /\ spent + unspent <= Budget(q, spent)
       /\ Curve # NoCurve => spent + unspent = Budget(q, spent)
  BY <1>5, <1>7, TheBarIsFilled DEF unspent
<1>12. /\ title.shape = "unspent" <=> spent = 0
       /\ \E m \in 0..n : Range(title.trees) = {seq[i].tree : i \in 1..m}
  <2>1. PICK k \in Nat : k = n  BY <1>3
  <2>2. seq \in [1..k -> S] /\ Sum([i \in 1..k |-> seq[i].points]) = spent  BY <1>3, <2>1
  <2> HIDE DEF n
  <2>3. /\ ComposeArchetype(seq).shape = "unspent" <=> Sum([i \in 1..k |-> seq[i].points]) = 0
        /\ \E m \in 0..k : Range(ComposeArchetype(seq).trees) = {seq[i].tree : i \in 1..m}
    <3>1. seq \in [1..k -> S] /\ Sum([i \in 1..k |-> seq[i].points]) \in Nat  BY <1>5, <2>2
    <3>2. QED  BY <1>9, <3>1, TitleOfTheDeepest
  <2>4. QED  BY <2>1, <2>2, <2>3 DEF title
<1>13. PICK m \in 0..n : Range(title.trees) = {seq[i].tree : i \in 1..m}  BY <1>12
<1>14. ASSUME NEW i \in Range(title.trees), NEW j \in DOMAIN Tree \ Range(title.trees)
       PROVE  Points(rows, Tree[j]) <= Points(rows, Tree[i])
  <2>1. i \in {seq[k].tree : k \in 1..m} /\ j \in DOMAIN Tree /\ j \notin {seq[k].tree : k \in 1..m}
    BY <1>13
  <2>2. seq = Populated(rows) /\ n = Cardinality(Spent(Weights(rows)))  BY DEF seq, S
  <2> HIDE DEF n
  <2>3. QED  BY <1>2, <2>1, <2>2, TheTitledAreDeepest
<1>15. QED  BY <1>6, <1>10, <1>11, <1>12, <1>14 DEF page, rows

\* The profile agrees with itself (BuildDisplay.tsx, archetype.ts), whatever mixture
\* of moments its level, its nodes and its purchases are from: the segments of the
\* bar show every point it counts and with the unspent rest fill the budget, which
\* they never overflow; no tree left out of the title is deeper than one in it; and
\* the build has no title just when nothing was spent.
THEOREM ThePageAgrees == Spec => []PageAgreesWithItself
<1>1. ASSUME ArmoryInv PROVE PageAgreesWithItself
  <2>1. \A r \in Request : request[r] \in Requests  BY <1>1, PageAtHand
  <2>2. QED  BY <2>1, AgreesWithItself DEF PageAgreesWithItself
<1>2. QED  BY <1>1, ArmoryInvariant, PTL

=============================================================================
