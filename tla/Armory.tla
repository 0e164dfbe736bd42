------------------------------- MODULE Armory -------------------------------
(***************************************************************************)
(* Who reads the purchases of the realm: the armory and the rankings of    *)
(* the public site (web), and the page of a character in the panel         *)
(* (web-admin).                                                            *)
(*                                                                         *)
(* Nobody stores how many points a character has spent. Every page sums    *)
(* the rows of classless_character_node anew, from several statements on   *)
(* several connections, while characters buy and respec, operators edit    *)
(* prices and accounts become staff, whom the site does not show. The      *)
(* rankings are kept for a while; everything else is read for each page.   *)
(***************************************************************************)
EXTENDS Integers, SequencesExt

CONSTANTS
  Tree,         \* a sequence: the trees by name
  Node,
  TreeOf,       \* node -> tree
  Costs,        \* prices an operator may set
  Character,
  Leaders,      \* characters that lead a guild
  MaxLevel,
  Curve,        \* CLASSLESS_POINTS_*, or NoCurve where they are not set
  NoCurve,
  InitialRows,  \* purchases characters may have made before
  Request,
  CacheTicks,   \* ARMORY_CACHE_SECONDS
  MaxTime,      \* bound on the clock
  MaxChanges    \* bound on what happens in the realm

Pages == {"profile", "search", "online", "boards", "panel"}
Prices == [Node -> Costs]
Rows == UNION {[S -> Costs] : S \in SUBSET Node}
NoRows == [n \in {} |-> 0]

ASSUME ArmoryAssumption ==
  /\ Costs \subseteq Nat /\ Costs # {}
  /\ Tree \in Seq(Range(Tree)) /\ IsInjective(Tree)
  /\ IsFiniteSet(Node) /\ TreeOf \in [Node -> Range(Tree)]
  /\ NoCurve \notin Nat
  /\ Curve = NoCurve \/ Curve \in [firstLevel : Nat, perLevel : Nat, bonus : Nat]
  /\ Leaders \subseteq Character
  /\ InitialRows \subseteq Rows
  /\ MaxLevel \in Nat \ {0} /\ CacheTicks \in Nat /\ MaxTime \in Nat /\ MaxChanges \in Nat

VARIABLES
  node,     \* classless_node: price and enabled
  past,     \* classless_character_node, as it was after each change; the last is now
  char,     \* characters, and the staff accounts they may belong to
  live,     \* whether the module's tables exist
  boards,   \* the rankings as last put together, and since when
  clock,
  changes,  \* how often the realm has changed
  request   \* pages under way

vars == <<node, past, char, live, boards, clock, changes, request>>
realm == <<node, past, char, live, changes>>

Never == MaxTime + 1
Now == Len(past)
Bought(c) == past[Now][c]
Sum(rows) == SumFunction(rows)

Larger(a, b) == IF a > b THEN a ELSE b

-----------------------------------------------------------------------------
(* A page under way *)

NotRead == [read |-> FALSE, rows |-> NoRows]
Read(rows) == [read |-> TRUE, rows |-> rows]

Unused ==
  [step |-> "new", page |-> "none", of |-> "none", since |-> 0, from |-> 1, level |-> 0,
   named |-> TRUE, priced |-> TRUE, offered |-> NotRead, taken |-> NotRead,
   todo |-> {}, shown |-> {}, depth |-> [c \in {} |-> 0], led |-> {}, mode |-> "none"]

At(r, step) == request[r].step = step
Goes(r, to) == request' = [request EXCEPT ![r] = to]
Outstanding(r, statement) == At(r, "reading") /\ statement \in request[r].todo

\* What is to be shown is settled; or there is nothing to show.
Answered(q, mode) == [q EXCEPT !.step = "answered", !.mode = mode, !.todo = {}]
Nothing(q, mode) == Answered([Unused EXCEPT !.page = q.page], mode)
Answers(r, mode) ==
  /\ Goes(r, Answered(request[r], mode))
  /\ UNCHANGED <<realm, boards, clock>>

\* The page is sent, and its place is free for another.
Sent(r) ==
  /\ At(r, "answered")
  /\ Goes(r, Unused)
  /\ UNCHANGED <<realm, boards, clock>>

\* tableExists, on the site and on the panel: a probe that fails reads as no, and an
\* answer may be a minute old (the tables are created once, and stay).
TableExists == {live, FALSE}

\* columnsOf: a probe that fails reads as a table without columns.
ColumnsOf == BOOLEAN

-----------------------------------------------------------------------------
(* Who is shown *)

\* Neither deleted nor of a staff account; staff itself is shown to the panel.
Visible(c) == char[c].hiddenSince = Never

Ask(r, page, c) ==
  /\ At(r, "new") /\ page # "boards"
  /\ Goes(r, [Unused EXCEPT !.step = "asked", !.page = page, !.of = c,
                            !.since = clock, !.from = Now])
  /\ UNCHANGED <<realm, boards, clock>>

\* searchCharacters: whatever of those to be shown the term fits.
SearchCharacters(r) ==
  /\ At(r, "asked") /\ request[r].page = "search"
  /\ \E found \in SUBSET {c \in Character : Visible(c)} :
       Goes(r, Answered([request[r] EXCEPT !.shown = found], "list"))
  /\ UNCHANGED <<realm, boards, clock>>

\* getOnlineCharacters: whoever of them is in the world.
GetOnlineCharacters(r) ==
  /\ At(r, "asked") /\ request[r].page = "online"
  /\ \E online \in SUBSET {c \in Character : Visible(c)} :
       Goes(r, Answered([request[r] EXCEPT !.shown = online], "list"))
  /\ UNCHANGED <<realm, boards, clock>>

\* getCharacterProfile begins with the character's own row, its level in it.
GetCharacterProfile(r) ==
  LET c == request[r].of
  IN /\ At(r, "asked") /\ request[r].page = "profile"
     /\ IF Visible(c)
          THEN Goes(r, [request[r] EXCEPT !.step = "found", !.shown = {c}, !.level = char[c].level])
          ELSE Goes(r, Nothing(request[r], "not found"))
     /\ UNCHANGED <<realm, boards, clock>>

-----------------------------------------------------------------------------
(* The build of a character *)

\* loadBuild asks first whether the module is there and what its tables hold:
\* a name and `enabled` (named), cost_paid (priced). Without it, the interim build.
LoadBuild(r) ==
  /\ At(r, "found")
  /\ \E present \in TableExists, named \in ColumnsOf, priced \in ColumnsOf :
       IF present
         THEN Goes(r, [request[r] EXCEPT !.step = "reading", !.named = named, !.priced = priced,
                                         !.todo = {"nodes", "taken"}])
         ELSE Goes(r, Nothing(request[r], "interim"))
  /\ UNCHANGED <<realm, boards, clock>>

\* SELECT ... WHERE enabled = 1, the filter only where the column is known.
NodesOffered(named) ==
  [n \in {m \in Node : node[m].enabled \/ ~named} |-> node[n].cost]

ReadNodes(r) ==
  /\ Outstanding(r, "nodes")
  /\ Goes(r, [request[r] EXCEPT !.offered = Read(NodesOffered(request[r].named)),
                                !.todo = @ \ {"nodes"}])
  /\ UNCHANGED <<realm, boards, clock>>

ReadTaken(r) ==
  /\ Outstanding(r, "taken")
  /\ Goes(r, [request[r] EXCEPT !.taken = Read(Bought(request[r].of)),
                                !.todo = @ \ {"taken"}])
  /\ UNCHANGED <<realm, boards, clock>>

\* The rows as pages count them: what was charged, or today's price where the
\* column is not known; a row whose node was not read is passed over.
Itemised_AtTodaysPrice(q) ==
  [n \in DOMAIN q.taken.rows \cap DOMAIN q.offered.rows |-> q.offered.rows[n]]
Itemised(q) ==
  [n \in DOMAIN q.taken.rows \cap DOMAIN q.offered.rows |->
     IF q.priced THEN q.taken.rows[n] ELSE q.offered.rows[n]]

AnswerProfile(r) ==
  /\ At(r, "reading") /\ request[r].page = "profile" /\ request[r].todo = {}
  /\ Answers(r, "build")

BudgetForLevel_NoFloor(level, curve) ==
  (level - curve.firstLevel + 1) * curve.perLevel + curve.bonus
BudgetForLevel(level, curve) ==
  IF level < curve.firstLevel
    THEN curve.bonus
    ELSE (level - curve.firstLevel + 1) * curve.perLevel + curve.bonus

\* classless_config is asked for first, and created by nothing.
Total(q) == IF Curve = NoCurve THEN NoCurve ELSE BudgetForLevel(q.level, Curve)

Points(rows, t) == SumFunctionOnSet(rows, {n \in DOMAIN rows : TreeOf[n] = t})
Weights(rows) == {[tree |-> i, points |-> Points(rows, Tree[i])] : i \in DOMAIN Tree}
Spent(weights) == {w \in weights : w.points > 0}

\* The deepest first, then by name: the place of a tree is how many come before it.
Deeper(v, w) == v.points > w.points \/ (v.points = w.points /\ v.tree < w.tree)
Before(weights, w) == {v \in weights : Deeper(v, w)}
Ordered(weights) ==
  [k \in 1..Cardinality(weights) |->
     CHOOSE w \in weights : Cardinality(Before(weights, w)) = k - 1]

\* The trees something was spent in.
Populated(rows) == Ordered(Spent(Weights(rows)))

\* The shape of the build and the trees in its title, in whole numbers: a share
\* of 65 % is a focus, 80 % together with at least 15 % for the lesser a pair.
Title(shape, trees) == [shape |-> shape, trees |-> trees]
ComposeArchetype(weights) ==
  LET total == Sum([i \in DOMAIN weights |-> weights[i].points])
      share(i) == IF i \in DOMAIN weights THEN 100 * weights[i].points ELSE 0
      first(k) == [i \in 1..(IF k > Len(weights) THEN Len(weights) ELSE k) |-> weights[i].tree]
  IN CASE total = 0 -> Title("unspent", << >>)
       [] total > 0 /\ share(1) >= 65 * total -> Title("focused", first(1))
       [] share(1) < 65 * total /\ share(1) + share(2) >= 80 * total /\ share(2) >= 15 * total
            -> Title("paired", first(2))
       [] OTHER -> Title("broad", first(3))

\* The spend bar: every segment is measured against one budget.
Budget_TheTotal(q, spent) ==
  Larger(IF Total(q) = NoCurve THEN spent ELSE Total(q), 1)
Budget(q, spent) ==
  Larger(Larger(IF Total(q) = NoCurve THEN spent ELSE Total(q), spent), 1)

BuildDisplay(q) ==
  LET trees == Populated(Itemised(q))
      spent == Sum(Itemised(q))
  IN [segments |-> trees,
      spent |-> spent,
      budget |-> Budget(q, spent),
      unspent |-> IF Total(q) = NoCurve THEN 0 ELSE Larger(Budget(q, spent) - spent, 0),
      title |-> ComposeArchetype(trees)]

-----------------------------------------------------------------------------
(* The rankings *)

NoBoards ==
  [at |-> Never, from |-> 1, shown |-> {}, depth |-> [c \in {} |-> 0], led |-> {}, priced |-> TRUE]

Kept == boards.at # Never /\ clock - boards.at < CacheTicks

\* getLeaderboards: the boards kept, if they are not too old.
GetLeaderboards(r) ==
  /\ At(r, "new")
  /\ LET q == [Unused EXCEPT !.page = "boards", !.since = clock, !.from = Now]
     IN Goes(r, IF Kept
                  THEN Answered([q EXCEPT !.from = boards.from, !.shown = boards.shown,
                                          !.depth = boards.depth, !.led = boards.led,
                                          !.priced = boards.priced], "boards")
                  ELSE [q EXCEPT !.step = "reading", !.todo = {"characters", "builds", "guilds"}])
  /\ UNCHANGED <<realm, boards, clock>>

\* The boards of levels, kills and hours: one statement each, of one kind.
CharacterBoard(r) ==
  /\ Outstanding(r, "characters")
  /\ Goes(r, [request[r] EXCEPT !.shown = @ \cup {c \in Character : Visible(c)},
                                !.todo = @ \ {"characters"}])
  /\ UNCHANGED <<realm, boards, clock>>

\* SUM(cost_paid) by character, enabled or not; COUNT(*) where it is not known.
Depth(priced) ==
  [c \in {d \in Character : Visible(d) /\ DOMAIN Bought(d) # {}} |->
     IF priced THEN Sum(Bought(c)) ELSE Cardinality(DOMAIN Bought(c))]

BuildDepthBoard(r) ==
  /\ Outstanding(r, "builds")
  /\ \E present \in TableExists, priced \in ColumnsOf :
       Goes(r, [request[r] EXCEPT !.priced = priced, !.todo = @ \ {"builds"},
                                  !.depth = IF present THEN Depth(priced) ELSE @])
  /\ UNCHANGED <<realm, boards, clock>>

\* The guild board says who leads each guild; its statement has no visibleCharacter.
GuildBoard(r) ==
  /\ Outstanding(r, "guilds")
  /\ Goes(r, [request[r] EXCEPT !.led = Leaders, !.todo = @ \ {"guilds"}])
  /\ UNCHANGED <<realm, boards, clock>>

\* The boards are kept with the time their page was asked for.
BoardsSince_WhenReady(r) == clock
BoardsSince(r) == request[r].since

AnswerBoards(r) ==
  /\ At(r, "reading") /\ request[r].page = "boards" /\ request[r].todo = {}
  /\ boards' = [at |-> BoardsSince(r), from |-> request[r].from, shown |-> request[r].shown,
                depth |-> request[r].depth, led |-> request[r].led,
                priced |-> request[r].priced]
  /\ Goes(r, Answered(request[r], "boards"))
  /\ UNCHANGED <<realm, clock>>

-----------------------------------------------------------------------------
(* The panel's page of a character *)

\* Whether the tables are there; the budget, with no curve published, is unknown.
ClasslessLive(r) ==
  /\ At(r, "asked") /\ request[r].page = "panel"
  /\ \E present \in TableExists :
       Goes(r, IF present THEN [request[r] EXCEPT !.step = "reading", !.todo = {"rows"}]
                          ELSE Nothing(request[r], "not live"))
  /\ UNCHANGED <<realm, boards, clock>>

\* characterBuild: the purchases joined with their nodes, in one statement.
CharacterBuild(r) ==
  /\ Outstanding(r, "rows")
  /\ Goes(r, Answered([request[r] EXCEPT !.taken = Read(Bought(request[r].of))], "purchases"))
  /\ UNCHANGED <<realm, boards, clock>>

-----------------------------------------------------------------------------
(* A statement fails *)

\* tryQuery: the site makes do without the answer; the panel's page is an error.
MakesDo(q) ==
  CASE q.page = "profile" /\ q.step = "reading" -> Nothing(q, "interim")
    [] q.page = "profile" /\ q.step = "asked"   -> Nothing(q, "not found")
    [] q.page \in {"search", "online"}          -> Nothing(q, "list")
    [] q.page = "panel"                         -> Nothing(q, "error")

StatementFails(r) ==
  /\ \/ /\ At(r, "asked") \/ (At(r, "reading") /\ request[r].page # "boards" /\ request[r].todo # {})
        /\ Goes(r, MakesDo(request[r]))
     \/ /\ request[r].page = "boards"
        /\ \E board \in request[r].todo : Goes(r, [request[r] EXCEPT !.todo = @ \ {board}])
  /\ UNCHANGED <<realm, boards, clock>>

-----------------------------------------------------------------------------
(* The realm *)

\* Nothing that happens now alters a page that is settled: it is sent first.
AllSent == \A r \in Request : ~At(r, "answered")

Changes ==
  /\ changes < MaxChanges /\ AllSent
  /\ changes' = changes + 1
  /\ UNCHANGED <<boards, clock, request>>

Writes(c, rows) ==
  /\ past' = Append(past, [past[Now] EXCEPT ![c] = rows])
  /\ UNCHANGED <<node, char, live>>

\* The worldserver sells at the prices of its own copy, whenever that was read.
Buys(c, n, price) ==
  /\ Changes /\ live
  /\ n \notin DOMAIN Bought(c)
  /\ Writes(c, [m \in DOMAIN Bought(c) \cup {n} |-> IF m = n THEN price ELSE Bought(c)[m]])

Respecs(c) ==
  /\ Changes
  /\ DOMAIN Bought(c) # {}
  /\ Writes(c, NoRows)

LevelsUp(c) ==
  /\ Changes /\ char[c].level < MaxLevel
  /\ char' = [char EXCEPT ![c].level = @ + 1]
  /\ UNCHANGED <<node, past, live>>

\* The character is deleted, or its account becomes one of the staff.
Hides(c) ==
  /\ Changes /\ Visible(c)
  /\ char' = [char EXCEPT ![c].hiddenSince = clock]
  /\ UNCHANGED <<node, past, live>>

\* editNode of the panel: a new price, or off and on.
EditNode(n, row) ==
  /\ Changes /\ row # node[n]
  /\ node' = [node EXCEPT ![n] = row]
  /\ UNCHANGED <<past, char, live>>

\* The module's SQL is applied.
Migrates ==
  /\ Changes /\ ~live
  /\ live' = TRUE
  /\ UNCHANGED <<node, past, char>>

Tick ==
  /\ clock < MaxTime /\ AllSent
  /\ clock' = clock + 1
  /\ UNCHANGED <<realm, boards, request>>

-----------------------------------------------------------------------------
Init ==
  /\ node = [n \in Node |-> [cost |-> CHOOSE p \in Costs : TRUE, enabled |-> TRUE]]
  /\ live \in BOOLEAN
  /\ \E rows \in [Character -> InitialRows] :
       /\ ~live => rows = [c \in Character |-> NoRows]
       /\ past = << rows >>
  /\ char = [c \in Character |-> [level |-> 1, hiddenSince |-> Never]]
  /\ boards = NoBoards
  /\ clock = 0 /\ changes = 0
  /\ request = [r \in Request |-> Unused]

Page(r) ==
  \/ \E page \in Pages \ {"boards"}, c \in Character : Ask(r, page, c)
  \/ SearchCharacters(r) \/ GetOnlineCharacters(r)
  \/ GetCharacterProfile(r) \/ LoadBuild(r) \/ ReadNodes(r) \/ ReadTaken(r) \/ AnswerProfile(r)
  \/ GetLeaderboards(r)
  \/ CharacterBoard(r) \/ BuildDepthBoard(r) \/ GuildBoard(r) \/ AnswerBoards(r)
  \/ ClasslessLive(r) \/ CharacterBuild(r)
  \/ StatementFails(r) \/ Sent(r)

Realm ==
  \/ \E c \in Character, n \in Node, price \in Costs : Buys(c, n, price)
  \/ \E c \in Character : Respecs(c) \/ LevelsUp(c) \/ Hides(c)
  \/ \E n \in Node, row \in [cost : Costs, enabled : BOOLEAN] : EditNode(n, row)
  \/ Migrates \/ Tick

Next == Realm \/ \E r \in Request : Page(r)

Spec == Init /\ [][Next]_vars

-----------------------------------------------------------------------------
(* Properties *)

Is(r, mode) == At(r, "answered") /\ request[r].mode = mode

\* Types. Nobody owns anything while the tables are missing, and the budget of
\* any level is a number of points.
TypeOK ==
  /\ node \in [Node -> [cost : Costs, enabled : BOOLEAN]]
  /\ \A i \in DOMAIN past : past[i] \in [Character -> Rows]
  /\ ~live => past = << [c \in Character |-> NoRows] >>
  /\ char \in [Character -> [level : 1..MaxLevel, hiddenSince : 0..Never]]
  /\ boards.at \in 0..Never /\ boards.from \in DOMAIN past /\ boards.shown \subseteq Character
  /\ clock \in 0..MaxTime /\ changes \in 0..MaxChanges
  /\ \A r \in Request :
       /\ request[r].step \in {"new", "asked", "found", "reading", "answered"}
       /\ request[r].from \in DOMAIN past
       /\ request[r].shown \subseteq Character /\ request[r].led \subseteq Leaders
       /\ At(r, "reading") /\ request[r].page = "profile" =>
            Total(request[r]) \in Nat \cup {NoCurve}

\* "Spend is summed from cost_paid, which the database holds exactly" (build.ts):
\* whatever is bought, cleared, priced anew or switched off while a page is put
\* together, it shows the purchases of one moment since it was asked for, at the
\* prices charged then; the panel and the rankings all of them, the profile those
\* whose node was on offer when it looked. Pages put together while the columns
\* could not be read are excepted.
OfOneMoment(q, p(_, _)) ==
  \E i \in q.from..Now : p(q, past[i])

ProfileAsCharged(q, rows) ==
  LET now == rows[q.of]
  IN Itemised(q) = [n \in DOMAIN now \cap DOMAIN q.offered.rows |-> now[n]]
PanelAsCharged(q, rows) == q.taken.rows = rows[q.of]
BoardsAsCharged(q, rows) == \A c \in DOMAIN q.depth : q.depth[c] = Sum(rows[c])

ShownAsCharged ==
  \A r \in Request :
    LET q == request[r]
    IN /\ Is(r, "build") /\ q.priced => OfOneMoment(q, ProfileAsCharged)
       /\ Is(r, "purchases") => OfOneMoment(q, PanelAsCharged)
       /\ Is(r, "boards") /\ q.priced => OfOneMoment(q, BoardsAsCharged)

\* Profiles, search, the list of who is online and the boards of levels, kills,
\* hours and builds show no character that was hidden before their page was asked
\* for, the boards none hidden for longer than they are kept. visibility.ts:7 says
\* more: "Staff characters are hidden everywhere - search, profiles, leaderboards
\* and the population count". The guild board (leaderboards.ts:123-146) names the
\* leader of a guild whoever it is, hidden or not, so this is stated for all of
\* the page but what it read of guilds (led).
HiddenElsewhere ==
  \A r \in Request :
    LET age == IF Is(r, "boards") THEN CacheTicks ELSE 0
    IN At(r, "answered") /\ request[r].page # "panel" =>
         \A c \in request[r].shown \cup DOMAIN request[r].depth :
           char[c].hiddenSince + age >= request[r].since

\* The profile agrees with itself, whatever mixture of moments its level, its
\* nodes and its purchases are from: the segments of its bar and the unspent rest
\* fill the budget (BuildDisplay.tsx: "still renders a bar that adds up instead of
\* overflowing its row"), and no tree left out of the title is deeper than one in it.
PageAgreesWithItself ==
  \A r \in Request : Is(r, "build") =>
    LET page == BuildDisplay(request[r])
        filled == Sum([i \in DOMAIN page.segments |-> page.segments[i].points])
        titled == Range(page.title.trees)
        depth(i) == Points(Itemised(request[r]), Tree[i])
    IN /\ filled = page.spent
       /\ filled + page.unspent <= page.budget
       /\ Curve # NoCurve => filled + page.unspent = page.budget
       /\ \A i \in titled, j \in DOMAIN Tree \ titled : depth(j) <= depth(i)
       /\ page.title.shape = "unspent" <=> page.spent = 0

=============================================================================
