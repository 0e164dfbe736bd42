------------------------------ MODULE Classless ------------------------------
(***************************************************************************)
(* The ability ledger of the realm: modules/mod-classless, the worldserver *)
(* module that sells abilities for skill points.                           *)
(*                                                                         *)
(* Every piece of state exists twice and the two copies move apart:        *)
(*   - the tree tables in the world database and the copy Load() caches;   *)
(*   - a character's purchase rows and the copy LoadCharacter() caches;    *)
(*   - the spellbook of the Player object and the one saved by the core.   *)
(* Purchase rows are written asynchronously the moment they are made; the  *)
(* spellbook, level and money only when the core saves the player.         *)
(*                                                                         *)
(* Writes for one character leave the server in order, so what is in       *)
(* flight is kept as the sequence of database states the writes will       *)
(* produce one after another: queue[p][1] is disk[p] after the next write. *)
(***************************************************************************)
EXTENDS Integers, Sequences, Functions, FiniteSets

CONSTANTS
  Player,        \* characters
  Tree, Node,    \* rows of classless_tree and classless_node
  Spell,
  NoNode,        \* requires_node = 0
  TreeOf,        \* node -> tree
  SpellOf,       \* node -> spell it grants; several nodes may grant one spell
  Requires,      \* node -> the node below it, or NoNode
  Costs,         \* prices an operator may set
  ReqLevels,     \* level gates an operator may set
  MaxLevel,      \* bound: highest character level
  MaxMoney,      \* bound: most money a character may start with
  Configs,       \* contents mod_classless.conf may have
  Disturbances,  \* which of crash, toggle and retune may happen
  MaxQueue       \* bound: writes in flight for one character

Level == 1..MaxLevel
Money == 0..MaxMoney

\* ClasslessConfig: the switch, the curve's three parameters and the fee.
Config == [enable : BOOLEAN, firstLevel : Nat, perLevel : Nat, bonus : Nat,
           respecCost : Nat]

\* What an operator can tune of a node, and what Load() keeps of it.
NodeRow   == [cost : Costs, level : ReqLevels, enabled : BOOLEAN]
NodeOffer == [cost : Costs, level : ReqLevels]

\* OwnedNode, and one row of classless_character_node.
OwnedNode == [spell : Spell, cost : Costs, granted : BOOLEAN]
Rows == UNION {[S -> OwnedNode] : S \in SUBSET Node}
NoRows == [n \in {} |-> n]

\* The part of a character the core saves. native is not in the code: it marks
\* the spells something else taught before a purchase had put them in the book.
Character == [spells : SUBSET Spell, native : SUBSET Spell,
              level : Level, money : Money]
Disk == [rows : Rows, char : Character]

ASSUME ClasslessAssumption ==
  /\ IsFiniteSet(Node)
  /\ TreeOf \in [Node -> Tree]
  /\ SpellOf \in [Node -> Spell]
  /\ NoNode \notin Node
  /\ Requires \in [Node -> Node \cup {NoNode}]
  /\ Costs \subseteq Nat /\ ReqLevels \subseteq Nat
  /\ MaxLevel \in Nat \ {0} /\ MaxMoney \in Nat /\ MaxQueue \in Nat
  /\ Configs \subseteq Config
  /\ Disturbances \subseteq {"crash", "toggle", "retune"}

VARIABLES
  nodeTable,  \* classless_node in the world database
  treeTable,  \* classless_tree: enabled or not
  nodes,      \* ClasslessMgr::_nodes, what is on offer
  config,     \* ClasslessConfig as last loaded
  online,     \* whether the character is in the world
  char,       \* the Player object; while offline, as it was at logout
  owned,      \* ClasslessMgr::_owned; an absent key reads as no rows
  disk,       \* the characters database
  queue       \* writes on their way to disk

world == <<nodeTable, treeTable, nodes, config>>
vars  == <<nodeTable, treeTable, nodes, config, online, char, owned, disk, queue>>

-----------------------------------------------------------------------------
(* The characters database and the asynchronous writer *)

\* The database once every write made so far has been executed.
Settled(p) == IF queue[p] = << >> THEN disk[p] ELSE queue[p][Len(queue[p])]

Enqueue(p, d) ==
  /\ Len(queue[p]) < MaxQueue
  /\ queue' = [queue EXCEPT ![p] = Append(@, d)]

WithRow(rows, n, row) ==
  [m \in DOMAIN rows \cup {n} |-> IF m = n THEN row ELSE rows[m]]

\* INSERT ... ON DUPLICATE KEY UPDATE, and DELETE ... WHERE guid.
InsertRow_Dropped(d, n, row) == d
InsertRow(d, n, row) == [d EXCEPT !.rows = WithRow(@, n, row)]
DeleteRows_Nothing(d) == d
DeleteRows(d) == [d EXCEPT !.rows = NoRows]

SpellsOf(rows) == {rows[n].spell : n \in DOMAIN rows}
GrantedBy(rows) == {rows[n].spell : n \in {m \in DOMAIN rows : rows[m].granted}}

-----------------------------------------------------------------------------
(* The budget *)

BudgetForLevel(c, level) ==
  IF level < c.firstLevel
    THEN c.bonus
    ELSE (level - c.firstLevel + 1) * c.perLevel + c.bonus

SpentPoints_AtTodaysPrice(rows) == SumFunction([n \in DOMAIN rows \cap DOMAIN nodes |-> nodes[n].cost])
SpentPoints(rows) == SumFunction([n \in DOMAIN rows |-> rows[n].cost])

AvailablePoints(total, spent) == IF spent >= total THEN 0 ELSE total - spent

-----------------------------------------------------------------------------
(* The catalogue *)

LoadTrees ==
  [n \in {m \in Node : nodeTable[m].enabled /\ treeTable[TreeOf[m]]}
     |-> [cost |-> nodeTable[n].cost, level |-> nodeTable[n].level]]

EditNode(n, row) ==
  /\ row # nodeTable[n]
  /\ nodeTable' = [nodeTable EXCEPT ![n] = row]
  /\ UNCHANGED <<treeTable, nodes, config, online, char, owned, disk, queue>>

EditTree(t, enabled) ==
  /\ enabled # treeTable[t]
  /\ treeTable' = [treeTable EXCEPT ![t] = enabled]
  /\ UNCHANGED <<nodeTable, nodes, config, online, char, owned, disk, queue>>

\* `.classless reload`, typed by an operator or sent by the panel: it needs
\* no Enable, and leaves the cached purchases alone.
Reload ==
  /\ nodes' = LoadTrees
  /\ UNCHANGED <<nodeTable, treeTable, config, online, char, owned, disk, queue>>

\* mod_classless.conf may have been edited since it was last read.
ConfigFile(c) ==
  /\ c.enable # config.enable => "toggle" \in Disturbances
  /\ <<c.firstLevel, c.perLevel, c.bonus>>
       # <<config.firstLevel, config.perLevel, config.bonus>>
       => "retune" \in Disturbances

OnAfterConfigLoad(c) ==
  /\ ConfigFile(c)
  /\ config' = c
  /\ nodes' = LoadTrees
  /\ UNCHANGED <<nodeTable, treeTable, online, char, owned, disk, queue>>

-----------------------------------------------------------------------------
(* Buying and respeccing *)

HasNode(p, n) == n \in DOMAIN owned[p]

CanLearn_NoFoundation(p, n) ==
  /\ ~HasNode(p, n)
  /\ char[p].level >= nodes[n].level
  /\ SpellOf[n] \notin char[p].spells
  /\ AvailablePoints(BudgetForLevel(config, char[p].level), SpentPoints(owned[p]))
       >= nodes[n].cost

CanLearn_NoSpellCheck(p, n) ==
  /\ ~HasNode(p, n)
  /\ char[p].level >= nodes[n].level
  /\ Requires[n] # NoNode => HasNode(p, Requires[n])
  /\ AvailablePoints(BudgetForLevel(config, char[p].level), SpentPoints(owned[p]))
       >= nodes[n].cost

\* All the refusals of CanLearn at once: their order only picks a message.
CanLearn(p, n) ==
  /\ ~HasNode(p, n)
  /\ char[p].level >= nodes[n].level
  /\ Requires[n] # NoNode => HasNode(p, Requires[n])
  /\ SpellOf[n] \notin char[p].spells
  /\ AvailablePoints(BudgetForLevel(config, char[p].level), SpentPoints(owned[p]))
       >= nodes[n].cost

\* Whether the spell is ours to take back: asked before it is taught.
Granted_AskedAfterTeaching(p, n) == FALSE
Granted(p, n) == SpellOf[n] \notin char[p].spells

ForgetCached_Nothing(p) == UNCHANGED owned
ForgetCached(p) == owned' = [owned EXCEPT ![p] = NoRows]

\* The broker and `.classless learn`: look the node up again, check, grant,
\* remember, and send the row on its way.
Learn(p, n) ==
  LET row == [spell |-> SpellOf[n], cost |-> nodes[n].cost, granted |-> Granted(p, n)]
  IN /\ online[p] /\ config.enable
     /\ n \in DOMAIN nodes
     /\ CanLearn(p, n)
     /\ char' = [char EXCEPT ![p].spells = @ \cup {row.spell}]
     /\ owned' = [owned EXCEPT ![p] = WithRow(@, n, row)]
     /\ Enqueue(p, InsertRow(Settled(p), n, row))
     /\ UNCHANGED <<world, online, disk>>

\* Take back what the cache says was granted, forget it, and delete every row
\* of the character. With nothing cached Respec returns before all of that.
Respec(p, fee) ==
  /\ online[p] /\ config.enable
  /\ DOMAIN owned[p] # {}
  /\ char' = [char EXCEPT ![p].spells = @ \ GrantedBy(owned[p]),
                          ![p].money = @ - fee]
  /\ ForgetCached(p)
  /\ Enqueue(p, DeleteRows(Settled(p)))
  /\ UNCHANGED <<world, online, disk>>

BrokerRespec_OnCredit(p) == SpentPoints(owned[p]) > 0 /\ Respec(p, config.respecCost)

\* The broker offers a respec to those who have spent something, for a fee.
BrokerRespec(p) ==
  /\ SpentPoints(owned[p]) > 0
  /\ char[p].money >= config.respecCost
  /\ Respec(p, config.respecCost)

GmRespec(p) == Respec(p, 0)

-----------------------------------------------------------------------------
(* The core: sessions, saves, everything else that teaches or levels *)

\* The character's own data is fetched through the queue the writes go
\* through, so they are all executed before OnPlayerLogin runs.
OnPlayerLogin(p) ==
  /\ ~online[p]
  /\ queue[p] = << >>
  /\ online' = [online EXCEPT ![p] = TRUE]
  /\ char' = [char EXCEPT ![p] = disk[p].char]
  /\ owned' = IF config.enable
                THEN [owned EXCEPT ![p] = disk[p].rows]
                ELSE owned
  /\ UNCHANGED <<world, disk, queue>>

SaveToDB(p) == Enqueue(p, [Settled(p) EXCEPT !.char = char[p]])

PeriodicSave(p) ==
  /\ online[p]
  /\ Settled(p).char # char[p]
  /\ SaveToDB(p)
  /\ UNCHANGED <<world, online, char, owned, disk>>

OnPlayerLogout(p) ==
  /\ online[p]
  /\ SaveToDB(p)
  /\ online' = [online EXCEPT ![p] = FALSE]
  /\ ForgetCached(p)
  /\ UNCHANGED <<world, char, disk>>

\* The asynchronous writer executes the oldest write.
WriteBack(p) ==
  /\ queue[p] # << >>
  /\ disk' = [disk EXCEPT ![p] = Head(queue[p])]
  /\ queue' = [queue EXCEPT ![p] = Tail(@)]
  /\ UNCHANGED <<world, online, char, owned>>

\* A trainer or a quest teaches a spell. One already in the book leaves no trace
\* of having been taught again: a spell bought first and trained later remains
\* the purchase's.
LearnElsewhere(p, s) ==
  /\ online[p]
  /\ char' = [char EXCEPT ![p].spells = @ \cup {s},
                          ![p].native = @ \cup ({s} \ char[p].spells)]
  /\ UNCHANGED <<world, online, owned, disk, queue>>

LevelUp(p) ==
  /\ online[p]
  /\ char[p].level < MaxLevel
  /\ char' = [char EXCEPT ![p].level = @ + 1]
  /\ UNCHANGED <<world, online, owned, disk, queue>>

\* The worldserver dies with its memory and the writes not yet executed, and
\* is started again on whatever the configuration file then says.
CrashAndRestart(c) ==
  /\ "crash" \in Disturbances
  /\ ConfigFile(c)
  /\ config' = c
  /\ nodes' = LoadTrees
  /\ online' = [p \in Player |-> FALSE]
  /\ char' = [p \in Player |-> disk[p].char]
  /\ owned' = [p \in Player |-> NoRows]
  /\ queue' = [p \in Player |-> << >>]
  /\ UNCHANGED <<nodeTable, treeTable, disk>>

-----------------------------------------------------------------------------
\* A realm just set up: trees published, new characters with some money and
\* the spells their class starts with, no purchase made.
Init ==
  /\ nodeTable \in [Node -> {r \in NodeRow : r.enabled}]
  /\ treeTable = [t \in Tree |-> TRUE]
  /\ nodes = LoadTrees
  /\ config \in Configs
  /\ online = [p \in Player |-> FALSE]
  /\ char \in [Player -> {c \in Character : c.spells = c.native /\ c.level = 1}]
  /\ owned = [p \in Player |-> NoRows]
  /\ disk = [p \in Player |-> [rows |-> NoRows, char |-> char[p]]]
  /\ queue = [p \in Player |-> << >>]

Operator ==
  \/ \E n \in Node, row \in NodeRow : EditNode(n, row)
  \/ \E t \in Tree, enabled \in BOOLEAN : EditTree(t, enabled)
  \/ Reload
  \/ \E c \in Configs : OnAfterConfigLoad(c)
  \/ \E c \in Configs : CrashAndRestart(c)

InWorld(p) ==
  \/ \E n \in Node : Learn(p, n)
  \/ BrokerRespec(p)
  \/ GmRespec(p)
  \/ OnPlayerLogin(p)
  \/ OnPlayerLogout(p)
  \/ PeriodicSave(p)
  \/ WriteBack(p)
  \/ \E s \in Spell : LearnElsewhere(p, s)
  \/ LevelUp(p)

Next == Operator \/ \E p \in Player : InWorld(p)

Spec == Init /\ [][Next]_vars

-----------------------------------------------------------------------------
(* Properties *)

\* Types. A respec never drives the purse below zero, whoever asks for it.
TypeOK ==
  /\ nodeTable \in [Node -> NodeRow]
  /\ treeTable \in [Tree -> BOOLEAN]
  /\ nodes \in UNION {[S -> NodeOffer] : S \in SUBSET Node}
  /\ config \in Configs
  /\ online \in [Player -> BOOLEAN]
  /\ char \in [Player -> Character]
  /\ owned \in [Player -> Rows]
  /\ disk \in [Player -> Disk]
  /\ queue \in [Player -> Seq(Disk)]

\* Whatever happens - crashes, the switch flipped on a live realm, re-tuning -
\* the cache never claims a purchase the database is not about to hold, at
\* the price the database is about to hold (Learn, Respec, LoadCharacter).
CacheBackedByDatabase ==
  \A p \in Player : \A n \in DOMAIN owned[p] :
    /\ n \in DOMAIN Settled(p).rows
    /\ owned[p][n] = Settled(p).rows[n]

Founded(rows) ==
  \A n \in DOMAIN rows : Requires[n] # NoNode => Requires[n] \in DOMAIN rows

\* No character is ever recorded, in memory, in the database or in any state
\* a crash may leave the database in, with an ability whose foundation it
\* does not own (the MissingPrerequisite refusal, over any history).
FoundationHeld ==
  \A p \in Player :
    /\ Founded(owned[p])
    /\ Founded(disk[p].rows)
    /\ \A i \in 1..Len(queue[p]) : Founded(queue[p][i].rows)

\* Without a crash the spellbook holds every recorded purchase, so that the two
\* never disagree the way `.classless status` prints in red, and every spell
\* something else taught while no purchase had: no respec takes one of these
\* (docs/PHASE2-BUDGET.md 2). A spell bought first and trained later is not among
\* them: the next respec takes it, the edge case that document lists as known.
BookComplete ==
  \A p \in Player : SpellsOf(Settled(p).rows) \cup char[p].native \subseteq char[p].spells

\* Without a crash nobody pays for one spell twice, through whichever nodes
\* grant it (CanLearn's AlreadyKnowsSpell).
ChargedOncePerSpell ==
  \A p \in Player : \A m, n \in DOMAIN Settled(p).rows :
    Settled(p).rows[m].spell = Settled(p).rows[n].spell => m = n

\* While neither a crash nor the switch interferes, every spell was taught
\* elsewhere first or is paid for: a respec that refunds points leaves nothing.
NothingForFree ==
  \A p \in Player :
    char[p].spells \subseteq char[p].native \cup SpellsOf(Settled(p).rows)

\* The promise the module makes, kept while neither a crash nor the switch
\* interferes: what has been sent to the database is the build, and every
\* step of the server is one of the ledger's, or none (Learn, Respec).
Ledger == INSTANCE ClasslessLedger WITH
  build     <- [p \in Player |->
                  [n \in DOMAIN Settled(p).rows |-> Settled(p).rows[n].cost]],
  known     <- [p \in Player |-> char[p].spells],
  elsewhere <- [p \in Player |-> char[p].native],
  points    <- [p \in Player |-> BudgetForLevel(config, char[p].level)],
  money     <- [p \in Player |-> char[p].money],
  Fees      <- {c.respecCost : c \in Configs} \cup {0}
ImplementsLedger == Ledger!LedgerSpec

\* The purchases of a character that are cached, on their way or written.
Held(p) == DOMAIN owned[p] \cup DOMAIN Settled(p).rows

\* Nothing but a respec undoes a purchase and nothing but a crash loses one: not a
\* logout, which empties the cache, and no save, edit or switch.
NothingForgotten ==
  [][\A p \in Player :
       \/ Held(p) \subseteq Held(p)'
       \/ BrokerRespec(p) \/ GmRespec(p)
       \/ \E c \in Configs : CrashAndRestart(c)]_vars

\* A purchase the player was told of is written to the database (Learn's INSERT),
\* unless a respec undoes it or a crash loses it before.
PurchaseReachesDatabase ==
  /\ NothingForgotten
  /\ \A p \in Player : \A n \in Node :
       n \in Held(p) ~> n \in DOMAIN disk[p].rows \/ n \notin Held(p)

-----------------------------------------------------------------------------
\* The writer never stops while the server lives.
FairSpec == Spec /\ \A p \in Player : WF_vars(WriteBack(p))

=============================================================================
