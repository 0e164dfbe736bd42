# Tomorrow's Ash, specified

TLA+ models of the parts of Tomorrow's Ash (an Azerothcore realm without classes, its web sites and its launcher) where the order of events decides whether the result is right, the TLC configurations that check them, and TLAPS proofs of what must hold for every configuration. Every definition is translated from the source; `PROJECT.json` gives the lines.

Run a model with `tlc -config <run>.cfg <module>`, a proof with `tlapm <module>.tla`.

## 1. The system

| Part | Where | State it keeps | Operations |
|---|---|---|---|
| Ability ledger | `modules/mod-classless/src` | `_trees`, `_nodes` (catalogue cache), `_owned` (purchases of the characters in the world), `classless_character_node` in the characters database, and through the core the spellbook, level and money of a `Player` | `Load`, `LoadCharacter`/`UnloadCharacter`, `CanLearn`, `Learn`, `Respec` |
| Configuration | `ClasslessConfig.*`, `mod_classless.conf` | the switch, the curve, the fee | `Load`, `BudgetForLevel` |
| Chassis and relics | `ClasslessChassis.cpp`, `ClasslessRelics.cpp` | none | two hooks |
| Admin panel | `web-admin/src` | admin database: sessions, second factors, staged item changes, audit; writes the world, characters and auth databases | server actions under `app/(panel)` |
| Public site | `web/src` | website database, rate-limit buckets, signed session cookies | server actions, read-only pages |
| Admin panel, process | `web-admin/src` | probes of tables kept for a minute; everything else is in databases | pages |
| Launcher core | `launcher/core/src` | settings file, hash cache, Wine prefix, the client's patches and `realmlist.wtf` with its backup | verify, provision, install, launch |
| Launcher shell | `launcher/src-tauri`, `launcher/ui` | one `App` behind a mutex; the UI's copy of the settings | commands; the UI asks for the state after each |
| Setup and generators | `tools/*.py`, `install.*` | files, services, SQL | one-shot scripts |

How they interact:

* The panel edits `classless_tree` and `classless_node` directly and asks the worldserver over SOAP to `.classless reload`. Until then the realm trades at the old price; the reload and a restart replace the catalogue under characters that own nodes of it.
* The worldserver sends every purchase row to an asynchronous database worker as it happens, and its spellbook, level and money only when the core saves the player. A login reads the database synchronously.
* Characters are in the worldserver's memory or in the characters database; the panel writes the database, and only for characters that are offline. What must reach a character in the world goes over SOAP, with a timeout.
* The public site's armory and rankings, and the panel's page of a character, sum the rows of `classless_character_node` each time anew; nobody stores a total.
* The panel's `refundPurchase` would delete purchase rows behind the worldserver's back; no page calls it yet.
* The launcher reads manifests published by the site, checks and patches a client directory against them, and starts the client.

### What makes each part correct, and hard

* **Ability ledger** - nobody pays twice, loses a spell they earned elsewhere, keeps a spell whose points were refunded, owns an ability above a foundation they lack, or spends more than the curve allows; the cache agrees with the database. Hard: asynchronous writes and saves at different times, crashes between them, the switch and the curve changed on a live realm, the catalogue replaced under its users.
* **Item staging** - a change that was decided is not taken up again, one that says it was promoted was applied, and no value nobody reviewed is overwritten. Hard: two operators, and a state read before the transaction that uses it.
* **Character, account, realm and tree edits** - an edit of an offline character is never discarded by a save; whatever took effect has its audit line, and a line that says ok stands for an effect; no chain of edits makes an owner. Hard: gate, target, statements, console and audit line are separate steps, and the console may answer late or never.
* **Sign-in, sessions, roles** - a code is used once, guesses are limited, a session that was revoked stays as it was. Hard: requests of several tabs that each read before they write, revocation and expiry in between.
* **Launcher** - the button reaches LAUNCH from any reachable state of the disk and starts under LAUNCH only a client that was verified and pointed at the realm, with its runtime there; an interrupted command can be pressed again; the player's own files survive; a cached hash is never that of another file. Hard: commands that stop part way, a label and a settings copy older than the state, files that change while they are read.
* **Public site, accounts** - the limiter holds in every window, a cookie is worth the present password, a reset link is over with the password it was asked for, whoever is welcomed has a whole account. Hard: statements of several requests interleave, tables may be missing, two drivers of one limiter, a console that creates accounts later.
* **Public site, pages** - what a page shows was charged at one moment, hidden characters are hidden, the page agrees with itself. Hard: a page is several reads of a changing realm; the rankings are kept.

## 2. The plan

| Order | Modules | What | State |
|---|---|---|---|
| 1 | `Classless`, `ClasslessLedger`, `ClasslessProofs`, `MCClassless` | the ability ledger with its database, saves, crashes, switch and re-tuning; the abstract ledger it implements | done (section 3) |
| 2 | `ItemStaging`, `ItemStagingProofs`, `MCItemStaging` | staged item changes by operators working at the same time | done (section 4) |
| 3 | `HashCache`, `HashCacheProofs`, `MCHashCache` | verification of a client and the cache behind it | done (section 5) |
| 4 | `Launcher`, `LauncherProofs`, `MCLauncher` | the button, its flows, and what they leave on the disk | done (section 6) |
| 5 | `StaffActions`, `StaffActionsProofs`, `MCStaffActions` | every server action of the panel on accounts, characters, the realm and the trees, beside a worldserver | done (section 7) |
| 6 | `SignIn`, `SignInProofs`, `MCSignIn` | signing in to the panel: password, authenticator, session | done (section 8) |
| 7 | `SiteProcess`, `SiteAccounts`, `SiteAccountsProofs`, `MCSiteAccounts` | the public site's limiter and caches, and composed with them its account forms | done (section 9) |
| 8 | `Armory`, `ArmoryProofs`, `MCArmory` | who reads the purchases: armory, rankings, the panel's page | done (section 10) |
| 9 | `OneButton` | an abstract button that `Launcher` implements: what is missing, in order, and each press removes it | open |
| 10 | pure functions | the archive's hash probing and the skill-point curve in 32 bits against reference definitions | open |

Every safety invariant and action property that a run checks is proved for all values of the constants, under the conditions its section names; so is the refinement of `ClasslessLedger`. Liveness stays with TLC (section 12). Proofs to add: the steps of `Launcher` as steps of `OneButton`.

Conventions. Modules that are proved about use no RECURSIVE operator; parameters are CONSTANTS with named assumptions. An operator named `Action_Something` beside `Action` is not used by the specification: it is `Action` with a plausible bug in it (a dropped check, a wrong order), and replacing the one by the other makes a property of the runs fail; `PROJECT.json` lists which.

## 3. The ability ledger

### State and code

| Variable | Code |
|---|---|
| `nodeTable`, `treeTable` | `classless_node`, `classless_tree` in the world database, reduced to price, level gate and `enabled` |
| `nodes` | `ClasslessMgr::_nodes` after `Load()`: enabled nodes of enabled trees |
| `config` | `ClasslessConfig`: `Enable`, the three parameters of the curve, `RespecCost` |
| `online`, `char` | the `Player` in the world: spells, level, money. `char.native` is a history variable: the spells something else taught before a purchase had put them in the book |
| `owned` | `ClasslessMgr::_owned`; an absent key and an empty vector read the same in every function, so both are `NoRows` |
| `disk` | what the characters database holds: the rows and the saved character |
| `queue` | writes in flight, as the sequence of states they will leave, oldest first |

`Settled(p)` is the state the database will be in when every write made so far has been executed. A write that reads and changes the database is thus an `Append` of a changed `Settled(p)`, and a crash simply forgets the queue.

Every action is a whole handler. `Learn` is what the broker (`MENU_LEARN`) and `.classless learn` do: look the node up again, `CanLearn`, teach, cache, send the row. Its refusals change nothing and are its guard; their order only picks a message. `Respec` removes what the *cache* says was granted, empties the cache and sends one `DELETE ... WHERE guid`; `BrokerRespec` adds the menu's condition, the fee check and the charge, `GmRespec` is `.classless respec`. `OnPlayerLogin` loads the rows only while enabled, `OnPlayerLogout` saves and forgets. `Reload` needs no `Enable`. `OnAfterConfigLoad` re-reads the configuration and the trees. The GM commands, SOAP commands and gossip run on the world thread one at a time, which is why each is one step.

External, modelled from how the module uses it: the database worker (`Enqueue`, `WriteBack`), `Player::SaveToDB` (`SaveToDB`, `PeriodicSave`), trainers (`LearnElsewhere`, which may also teach what was bought before), levels (`LevelUp`), `CrashAndRestart`. Two assumptions about the core are visible in the guards: writes of one character are executed in order, and a character's data is fetched behind its own pending writes, so a login finds an empty queue (`OnPlayerLogin`). Were the second false, a purchase could be missing from the cache after a quick relog; the repository does not decide it, and no property of this project judges it.

Not modelled: display order, names, menus, body types, the log; what `learnSpell` does for a second specialisation; removal of a character's rows when it is deleted (the module has no hook for it).

`ClasslessLedger` is the promise: a build that was paid for, a book, points, money; `Buy`, `Unlearn`, `Teach`, `Entitle`. It counts points without the saturation of `GetAvailablePoints`: a purchase that costs something must fit, with everything paid before, into the points earned now. The refinement mapping reads the build off `Settled(p).rows`, so every write and save is a stuttering step.

### Runs

Bounds: one character (characters share only the catalogue and the configuration, which no action of theirs writes; the proofs cover any number), two nodes of one tree, one price or two, one level or two, no money or one copper, at most `MaxQueue` writes in flight (2 where order between them matters: a row and a save, a row and a delete). A guard of the action that writes enforces `MaxQueue`; the server would not wait. `Disturbances` says which of crash, toggle and retune may happen; the configurations are `Toggled`, `Retuned` and `AnyConf` in `MCClassless`. Starting characters have any spells and any money within the bounds.

| Run | Realm | Shows |
|---|---|---|
| `anyhow` | two nodes, one founded on the other; everything may happen; fair writer | `FoundationHeld`, `CacheBackedByDatabase`, `PurchaseReachesDatabase` |
| `nocrash` | two nodes granting one spell, two levels, money; toggle and retune | `TypeOK`, `BookComplete`, `ChargedOncePerSpell` |
| `retuned` | two nodes, one founded on the other, two prices, money; retune between two points and one, so that more may be spent than is earned | `NothingForFree`, `ImplementsLedger` |

`anyhow` has one price; that the cache has the row's price too when prices change is proved.

`PurchaseReachesDatabase` has two halves. `NothingForgotten` says that a purchase is cached, on its way or written (`Held`) from then on, whatever happens but a respec and a crash: the logout that empties the cache does not count as an undoing. The other half says that what is held gets written, unless one of the two comes first.

`BookComplete` is about spells something else taught *before* a purchase had put them in the book. For one bought first and trained later, `LearnElsewhere` leaves no trace, as in the game, and the next respec takes it: the "Known edge case" of `docs/PHASE2-BUDGET.md` section 2, which the model reaches and the property does not promise away.

Each property is stated under the disturbances in which it holds, and it does fail under the next one: with a crash, `BookComplete` (the row is written, the book is not saved; or the book is saved without the bought spell, the trainer sells it, and the row still says granted); with the switch, `NothingForFree`. The first is the known limit of writing rows at once and books later; no document promises otherwise.

Fairness: `FairSpec` assumes only that the database worker keeps executing (`WF(WriteBack(p))`), which a running AzerothCore worker thread does. Nothing is assumed of players or operators.

### Proofs

`ClasslessProofs` proves, for every set of characters, trees, nodes, spells, prices, configurations and every bound:

* `TypeCorrect`: `Spec => []TypeOK`. Besides the types this says that no respec overdraws a purse, which needs the broker's check.
* `CacheBacked`: `Spec => []CacheBackedByDatabase`, crashes and switching included.
* `Foundations`: `Spec => []FoundationHeld`.
* `PurchasesStay`: `Spec => NothingForgotten`, the safety half of `PurchaseReachesDatabase`, with every disturbance.
* `BooksAreComplete`, `SpellsAreChargedOnce`: `Spec => []BookComplete` and `Spec => []ChargedOncePerSpell`, assuming `"crash" \notin Disturbances`.
* `NothingIsFree`, `RefinesLedger`: `Spec => []NothingForFree` and `Spec => ImplementsLedger`, assuming that neither `"crash"` nor `"toggle"` is in `Disturbances`.
* `PurchasesAreAfforded`: `Spec => NoPurchaseOverdraws`, assuming `"toggle" \notin Disturbances`: crashes and re-tunings included, a purchase that costs something leaves what the database is about to hold within the budget of that moment. A free ability may be bought by those whom a re-tuning left with more than they may spend.
* `NothingIsOverspent`: `Spec => []WithinBudget`, assuming `Disturbances = {}`: what is charged never exceeds what the level allows. Each disturbance breaks it: a curve re-tuned downwards; a crash, which takes back levels that were not saved and leaves the rows that were written; the switch, since a character that logs in while the module is off has an empty cache when it is switched on.

The argument: `CacheInv == TypeOK /\ CacheBackedByDatabase /\ FoundationHeld` is inductive; neither of its last two parts is alone. `Learn` checks the foundation in the cache, so that the *written* state is founded follows only because the cache is backed by the database; and the delete of a respec cannot strip a foundation from a state in flight because every state in flight is a whole, founded database state. The lemmas about the queue (`EnqueueSettles`, `WriteBackSettles`, `SettledFounded`, `FoundedQueue`) carry the facts from `Settled` to the states in flight and back; `WriteCacheInv` is the common step of every action that writes.

Without crashes, `BookInv` adds to it what holds of a character between its purchases, its lessons and its saves (`BookKept`): the book has every spell that was bought or first taught elsewhere, none of them both, none bought twice, and a character out of the world is the one saved. The last is what a crash breaks, and with it the rest at the next login. No part stands alone: that no spell is bought twice rests on `CanLearn` looking in the book, hence on the book holding what was bought.

With the switch left alone, `PaidInv` adds `PaidFor`: nothing else is in the book, every row granted its spell, and the cache of a character in the world is what the database is about to hold. A respec removes what the cache says was granted and deletes what the database holds; the two are the same only by this.

For the refinement, `Learn` is the ledger's `Buy`, `Respec` its `Unlearn`, `LearnElsewhere` its `Teach`; a level gained or a curve re-tuned is `Entitle`, and everything else - queues, saves, logins, edits of the catalogue - a stuttering step. The points spent are a sum that the provers need not unfold: by `PaidInv` the cache that `CanLearn` sums and the build that the ledger sums are one function (`SameSum` makes the two modules' operators one).

The two theorems about the budget are not properties of a run; they say what `CanLearn` is for. It compares the level with the points of the *cache*, so they need `InStepInv`, that the cache of a character in the world is what the database is about to hold. Unlike `PaidFor` this survives a crash, after which nobody is in the world and the next login reads the rows. Then the sums are opened (as in section 10): a purchase adds its price to what is spent (`PurchaseAddsItsPrice`), nothing is spent on no rows, and a level more never allows less (`BudgetGrows`), so that only purchases need the guard (`BudgetStep`). That a level gained is not lost between logout and login is `BookKept`.

From `ClasslessAssumption` and the named disturbances only. Model-checked only: that what is held gets written (the second half of `PurchaseReachesDatabase`).

## 4. Item staging

`ItemStaging` models `web-admin/src/lib/items.ts`. `item` is `item_template.AllowableClass` of every entry (or `Gone`), `changes` is `admin_item_change` in the order of its ids, `op` says for every operator what its server action has read and will do next, `audit` is what `performAudited` recorded of promotions, and `applied` is a history variable: the changes some promotion wrote to the item.

A server action is one request of a Node process whose awaits let others run, so one database call is one step: `StageRead` and `StageInsert` for `stageChange`; `PromoteRead`, then the transaction, then `Record` for a promotion; `Withdraw` is a single guarded UPDATE. The transaction of `promoteChange` locks the item's row with its first statement and writes through one connection, so it is one step with two outcomes: `PromoteCommit`, when the item still has the value the change was staged against, or `PromoteRollback`, which is also what any failing statement does. `Close` is `UPDATE ... WHERE id = ? AND state = 'staged'`, which may touch no row. `DataUpdate` changes or removes an item behind the panel's back; `PanelDies` forgets every action under way.

| Run | Instance | Shows |
|---|---|---|
| `items` | two operators, one item, three masks, two changes | `TypeOK`, `PromotedWasApplied`, `DecidedOnce`, `NothingUnreviewedOverwritten` |

Two operators on one item are every pair of actions that can collide; the third mask is a value nobody reviewed; two changes make one promotion's result the other's stale value, and back again (masks may return to an earlier value, which the comparison by value accepts, as `NothingUnreviewedOverwritten` states). No fairness: nothing in the panel must happen.

`DecidedOnce` says that the row of a decided change is final and that no promotion begins of it, from however old a page. It does not say that a withdrawn change is never applied: a promotion that read its row while it was staged may still write the item after the withdrawal, and report ok (section 11).

`ItemStagingProofs` proves all four properties of the passing run for any number of operators, items, masks and changes. `TypeOK` carries that an action refers to a row that exists; the strengthening adds that what an action under way has read is still what the row says of entry, old and new value (rows are only ever closed), and that an `ok` outcome not yet recorded is of a change in `applied`.

Left out: the audit lines of staging and withdrawing, permissions, and the reads for the pages.

## 5. Verification and its cache

`HashCache` models `launcher/core/src/verify.rs`: `verify_client` looks at each file's metadata (`Stat`), answers from the cache when path, size and modification time agree (`Remembers`), and otherwise reads the bytes (`HashFile`, `HashFails`). Files are checked by several threads, so the steps of different paths interleave. The new hashes are merged and saved when all are done (`FinishVerify`); saving is best effort, so the old cache or an empty one (a half-written file does not parse) may be what the next run finds. The cache is one file for every client. Around it programs write files, the player copies whole clients with their times (`CopyClient`), the site publishes other hashes (`RefreshManifest`), and the launcher is killed (`Quit`). A hash stands for its content: hashing is taken to be injective.

| Run | Instance | Shows |
|---|---|---|
| `cache` | two clients, three contents (two of one size), four changes, a clock that tells writes apart | `TypeOK`, `CacheHonest`, `VerdictsSettle` |

`MaxWrites` bounds the changes to files and manifest: with four, a file is verified, replaced, copied over and verified again. One path suffices because paths share nothing but the moment of saving.

Two things are outside what path, size and time can tell, and the history variable `happened` says whether they came about: a file written in the client under verification (`busy`), and a client copied with its old times (`copied`). `CacheHonest` holds until the first, copies or not; with it an entry may pair old metadata with new bytes. `VerdictsSettle` holds with either and excludes both together: then a copy with the old time matches that entry, for ever. The comment in `verify.rs` accepts this and points to a full re-hash. `CoarseClock` lets a file be written twice within one tick; with it a wrong verdict repeats as well, which is why the run has a fine one.

Fairness (`FairSpec`): a verification that was started goes on - threads run and reads return, one way or the other - and the player keeps asking for one. Nothing makes files or manifests change, or the launcher quit.

`HashCacheProofs` proves `HashCacheTypeCorrect` and `CacheIsHonest`, the latter for clocks that tell writes apart (`~CoarseClock`). Its inductive invariant `HashInv` says that a time identifies the content of a path across all clients (`TimesTell`: writes get fresh times, copies keep them), that a file seen but not yet hashed is still the one seen, that the hashes not yet saved are sound, and that every cached entry is sound (`Sound`: every file, now in any client, with its path, size and time has its hash, and no later write can get that time).

## 6. The launcher

`Launcher` models what the player sees: `App` (`launcher/core/src/app.rs`), the files it writes, and the window (`launcher/ui/src/main.ts`).

| Variable | Code |
|---|---|
| `saved` | `settings.json`; `Unreadable` when it does not parse |
| `prefix` | the Wine prefix: made by wineboot, version of the DXVK library in it, overrides written |
| `installed` | every client's patch files, by the version they hold |
| `realmlist`, `backup` | every client's `realmlist.wtf` and the launcher's copy of it; `Own` is the player's |
| `settings`, `manifest`, `client`, `report` | the fields of `App` |
| `shown`, `form` | the window's copies: `state.status.action` and `state.settings` |
| `busy`, `flow` | `state.busy`, and how far each press of the button has come |
| `published` | the manifest on the site |

`App` is behind a mutex, so a Tauri command is one step. What a press does is a sequence of awaited commands (`act` in `main.ts`): VERIFY is verify, apply_config, status; LAUNCH is apply_config, launch, status; the other two a command and status. Between two of them the settings view and the retry link still work, and whichever ends first clears `busy`. `Button` is `status().action`. In the settings the player picks a client (`ChooseClient(c, "settings")`), changes a field (`SaveSettings`), names another site (a save, then `RefreshRealm`) or signs in (`SignIn`, which also saves and makes the window read the settings again). A command that stops leaves what it had done: `ApplyConfigStops`, `Provision(f, done)` with fewer than three steps done, `InstallPatches(f, done)` with the first `done` patches correct. `Mishaps` names what may go wrong: the launcher killed (`crash`), a command failing (`stop`), settings that cannot be saved (`save`), files cut off half way (`cut`), the player in the settings while the button works (`meddle`), a new manifest (`republish`).

| Run | Instance | Shows |
|---|---|---|
| `launcher_states` | two flows, two clients; crash, save, cut, meddle | `TypeOK`, `ReportOfThisClient` |
| `launcher_button` | one flow, two clients of two builds, under Wine; three manifests (plain, with DXVK, with two patches), two addresses; crash, stop, republish, meddle; persistent player | `OriginalNotLost`, `LaunchedReady`, `ButtonReachesLaunch`, `PatchesArrive` |
| `launcher_install` | violation | the button still says INSTALL PATCH when every patch is in place |

`TypeOK` says little more than types: what is written to `realmlist.wtf` is an address, from the settings or the manifest. `ReportOfThisClient` also says that no report was made without a manifest. Two flows are enough for every pair to overlap; with one, the settings move while the button works only with `meddle`, which both runs have. Two patches give an installation a middle.

`LaunchedReady` is about what starts while the label is LAUNCH: the client was verified and is of the right build, its `realmlist.wtf` names a realm, and the files of the runtime are there, though client, address and site may be changed between the commands of the press. Two things it does not say. A client picked between apply_config and launch changes the label and is started all the same; and "there" is `runtime_ready`, which is presence: the comment above it asks for "provisioned, not merely present" (`app.rs:268`), and a prefix whose overrides were never written passes it (section 11).

Fairness (`Persistent`): the player does not give up. Weak fairness of trying the realm again and of choosing a client when asked; weak fairness of the launch command itself, which ends one way or the other; strong fairness of the presses and of the *successful* outcome of each command, since a command that fails now and then (network, disk, Wine) is allowed to fail any number of times but not for ever. Liveness is claimed from the moment the player only presses the button or, while there is no manifest, tries the realm again (`<>[][ButtonStep]_vars`), in whatever state interruptions, kills, republished manifests and settings left things. Two exits are stated in the property itself: a client of the wrong build, which is blocked by design, and a manifest with patches, which is the finding of `launcher_install`.

`LauncherProofs` proves, for any clients, manifests, addresses and number of flows: `LauncherTypeCorrect` (with every mishap), `ReportsFollowTheClient` (with every mishap; `TypeOK` makes it inductive, since a verification reads client and manifest in one step), and `OriginalSurvives`, that the player's `realmlist.wtf` is in its place or in the backup, assuming no copy is cut off in the middle. That holds because a backup is only made where there is none, before the file is overwritten.

`OnlyWhatIsReadyIsLaunched` proves `LaunchedReady`, assuming that settings can be saved and no file is cut off (`Saved`), and that presses do not overlap (`OneAtATime`): the settings view clears `busy`, so a second press may begin while the first waits, unless nobody is in the settings or there is room for one flow only. Settings used between the commands of one press are included; both assumptions are needed (section 11). `LaunchInv` says that flows do not overlap (`OneFlow`), that the label LAUNCH is only seen in a state that is ready, and that a flow about to launch has written the address of the client, unless another was chosen since, which then is unverified. A label alone is not inductive: it is a copy of `Button`, and what keeps it true is that every command that changes what it depends on also brings the window's copy up to date. Model-checked only: the liveness properties.

Left out: settings that only travel along (renderer, prefix path, arguments, account name), the wording and progress of the rows, Wine's own stub libraries, several `realmlist.wtf` files of one client (one is modelled), clients without a locale directory, a client directory that vanished before a restart, a manifest that lists one path twice (the assumption on `Manifests` excludes it).

## 7. Staff actions of the panel

`StaffActions` models what a member of staff does from the panel: `lib/authz.ts` (the gate and `performAudited`), `lib/roles.ts`, `lib/accounts.ts`, `lib/characters.ts`, `lib/realm.ts`, `lib/trees.ts`, `lib/soap.ts` and the server actions under `app/(panel)`.

| Variable | Code |
|---|---|
| `account` | `account`, `account_access`, `account_banned`: level, generation of the password, active bans, locked, muted |
| `session` | `admin_session`, one per account: live or not, and the password it was opened with |
| `row` | `characters`: which edits the row contains, `at_login`, `online` |
| `realm` | `realmlist.allowedSecurityLevel`, `motd`, and the edits `classless_tree`/`classless_node` contain |
| `world` | the worldserver: up or not, its copy of every character in it, its live MOTD and its trees |
| `late` | commands `executeCommand` gave up on that the console may still execute |
| `request` | every server action: what it is, who asked, at whom it is aimed, what it has read, the next statement of its work |
| `log` | `admin_audit`, the outcome in the request's line |
| `done`, `executed` | history: requests whose statement changed a database, whose command was executed |

`Actions` is the table of the server actions: the permission each needs, what it is aimed at and its statements in order. A request goes through the door (`NotFromThePanel`, `OutsideAllowlist`), the session row (`Admit`), the account's standing (`TurnAway`), the permission (`RequirePermission`), its target with the escalation guards (`LoadTarget`, `FindNode`, `FindTree`, `FormRejected`), its statements (`BanAccount` to `TeleportDestination`, `WorkFails`), the console (`ConsoleAnswers`, `ConsoleFails`, `ExecuteLate`) and its audit line (`Record`, `RecordFails`). Between two of these anything else may happen: another request, a login or logout, a crash of the worldserver, a level set on the game's console, the death of the panel. A kick makes the worldserver save the whole character from its copy (`Saved`); that, and the reading of the row at login, is what the online rule is about.

| Run | Instance | Shows |
|---|---|---|
| `staff` | an owner, a game master and a player with one character; one request that may be any action, another that may be a password reset, a change of level, a character edit or a node edit | `TypeOK`, `SaveDiscardsNothing`, `EffectsTraced`, `LoggedChangeWasMade`, `OwnersFromConsoleOnly` |

Two requests give every pair of an action with one of the four that write what others read. The levels are those that a chain of grants needs: an owner, one who is strictly between, one below; levels granted are none and owner. The password changes at most once, since a request compares only equal or not. No fairness: every property is about what may not happen. The run may stop, as each request runs once.

`LoggedChangeWasMade` names actions whose first statement is a write that cannot miss (`InDatabase`). The others are left out because the code does report them ok when nothing happened: see section 11.

`StaffActionsProofs` proves all five properties for any accounts, characters, levels, and number of requests, from `StaffAssumption` only: `StaffTypeCorrect`, `SavesDiscardNothing`, `OwnersAreMadeElsewhere`, `EffectsAreTraced`, `LogIsTrue`.

* `TypeInv` adds to the types that a request at work is at one of its statements (`Consistent`) and that a command given up on belongs to a request past its work. `WorkTable` is what all proofs use of the table of actions: the console comes last, each statement has the kind of target it writes, and an action of `InDatabase` begins with its write.
* `SaveDiscardsNothing` is inductive with the types: the row of a character in the world changes by a login or a save only, as an edit's UPDATE asks again whether it is online.
* For the owners, `GrantsSanctioned` says that a grant which passed the guards is neither of an owner's level nor to an owner. The guards read levels that may change before the statement runs, but, by the invariant itself, never into or out of an owner's.
* For the log, `Story` follows a request: no effect before it works, no line before it ends, an end with an effect has a line or was cut short, and past the first statement of an action of `InDatabase` without an error the change is made (`WriteComesFirst`).

External: accounts and characters as the game's servers keep them (`LogIn`, `LogOut`, `WorldCrashes`, `WorldStarts`, `ConsoleSetsLevel`). The console sets no owner level, as the core allows no level above the console's own to be given in the game.

## 8. Signing in to the panel

`SignIn` models `lib/login.ts`, `lib/mfa.ts`, `lib/session.ts` and the pages and actions under `app/login`, for one staff account. A browser has one cookie and several tabs; a tab has at most one request under way (`req[r]`), in steps of one statement. A request is a visit or a server action, and any of them may begin at any time (`Begins`), whatever page the tab shows: `actions.ts:15-18` says that actions re-run their checks for that reason, and the model has exactly the checks the code has. Which stages an action works at is `Needed`, from the early returns of each: `finishEnrolmentAction` has none and works at every stage.

Step one: `CheckThrottle`, `ReadCredentials`, `ReadMfaState`, `CreateSession` or `RecordFailure`. Whatever needs a session loads it (`LoadSession`): the row behind the cookie, then the account's standing, then the stage. Reading the row and the standing are one step, as the row's fingerprint never changes; the stage a request goes on with is the one it read. A session that is idle or no longer backed by the account is refused, and revoked by a statement of its own (`RevokeSession`, also the sign-out). Step two: `ReadTotp` judges a code, `SpendCode` is `UPDATE ... AND last_step < ?`, `CountFailure` writes the failure count back; `RedeemRecovery` and `ClearFailures`; `Promote` is `promoteSession`. Enrolment: `BeginEnrolment`, `IssueSecret`, `RestartEnrolment`, `ReadEnrolment`, `CommitEnrolment`. A redirect ends a request; the page it leads to is asked for anew.

The end of a session comes in three kinds. Revocation writes `revoked_at` (`Revoked`, `RevokeSessionsForAccount`), and `promoteSession` asks for it. Idling and expiry write nothing (`SessionIdles`, `SessionExpires`): the next load finds out, revokes the idle row and refuses the expired one, and until then `promoteSession` changes either, renewing the idle one. Outside: the password or the standing changes, time passes, locks and the throttle's window run out.

Codes are time steps: a code is right if the person's device has the row's secret and its step is within one of now (`InWindow`). The account may be enrolled already or not.

| Run | Instance | Shows |
|---|---|---|
| `signin` | two tabs (symmetric) of one browser, one session, two secrets, two time steps, two wrong codes to a lock, one failed sign-in per window | `TypeOK`, `GuessesLimited`, `CodeSpentOnce`, `RevokedStaysDead` |

Two tabs are two requests at any two statements, with one cookie, so that one may end the session the other works in; two secrets let an enrolment be restarted under another page; two steps and the drift of one make a code valid, spent and superseded. One session is opened, worked in by both tabs, and ends in one of the three ways; sessions share nothing but the account's row, and the proofs cover any number of them, and of browsers. No fairness. The run may stop when sessions, secrets and time are used up.

`RevokedStaysDead` promises of a revoked session that its row stays as it was, a promotion under way included, and of an expired one only that it never loads again: its stage may still be changed.

`GuessesLimited` states what the code gives: the throttle is read before the attempt is recorded, so the requests already past it may exceed it, one each. `CodeSpentOnce` is about codes of the secret that is in the row when the code is spent: a request whose code was judged by a secret replaced meanwhile is left aside, see section 11.

`SignInProofs` proves all four properties for any number of requests, browsers, sessions, secrets and time steps and any limits, from `SignInAssumption` only: `SignInTypeCorrect`, `RevokedIsDead`, `GuessesAreLimited`, `CodesAreSpentOnce`.

* `TypeInv` is the types in the parts that steps change together, with what they say of a request at work: which step has a session, a secret, a code at hand. That a revoked session is never changed needs no more.
* `GuessInv`: below the limit, the guesses compared are those recorded and those about to be; at it, nobody joins the requests past the throttle, and each may fail once more: `guesses + |Comparing| <= LoginAttempts + |Request| - 1`. The bound of the property alone says nothing about who is still going to guess.
* `CodesInv`: every accepted code of the row's secret is at or below `last_step`; a request's secret was issued; and an unused recovery code is of a batch nobody redeemed. `UPDATE ... AND last_step < ?` then accepts a code at most once.

## 9. The public site: process and accounts

`SiteProcess` is what a process keeps between requests: `lib/rate-limit.ts` with both its drivers, `tableExists` of `lib/db.ts`, and the cached answers of `lib/realm.ts` and `lib/launcher.ts`. `Consume` picks the driver; with MySQL the hit is one statement (`CountHit`) and reading it back another (`JudgeHits`); a failure of either falls back to memory (`FallBack`). An answer is assembled from its sources one by one (`Fetch`) and stored with the time its request came in (`StoreAnswer`).

`SiteAccounts` EXTENDS it with the forms, so that every request first passes the limiter that the other module models: `registerAccount` in both write modes (`Lookup`, `InsertAccount`, `InsertCounter`; `CreateByConsole`, `ConsoleCreates`, `FindCreated`, `SetMail`), `authenticate` and the cookie (`Authenticate`, `Respond`), `createPasswordReset` (`ResetTableReady`, `FindByMail`, `IssueLink`), `consumePasswordReset` and `changePassword` (`RedeemLink`, `CheckCurrent`, `WriteCredentials`, `InvalidateResetTokens`, `BurnLinks`). A verifier is computed with a fresh salt, so each write gives a new fingerprint. One account name: names share nothing but the limiter.

| Run | Instance | Shows |
|---|---|---|
| `site` | two visitors and two passwords (symmetric), one attempt per window, a window, a cached answer and a link that each last a tick, one tick, three events (requests, failures, changes), three verifiers, three links | `TypeOK`, `LimitHolds`, `ServedRecently`, `SessionKnowsPassword`, `OldLinksWriteNothing`, `WelcomedIsWhole` |

Every action that starts something counts as an event (`Happens`); three are two overlapping requests and something that goes wrong, or three requests of which two overlap. Besides the empty realm the run starts from one with an account, two reset links out and any visitors signed in, so that two uses of links, a login and a change meet within three events. No fairness. The run may stop when the events are used up.

`LimitHolds` counts per driver: the code's limit is one per driver, since falling back starts from an empty bucket. An attempt whose window turns between its INSERT and its SELECT is judged by the new window, and left aside. `OldLinksWriteNothing` is about requests that begin after a reset, or a change that burnt links, was answered.

`SiteAccountsProofs` proves all six properties for any visitors, forms, answers, sources, limit, window, times to live and bounds, from the assumptions on the constants only: `SiteTypeCorrect`, `TheLimitHolds`, `AnswersAreRecent`, `SessionsKnowThePassword`, `OldLinksAreOver`, `TheWelcomedAreWhole`. Its invariant is `SiteInv`, in three parts that are kept one by one; every step of the forms is a step or a stutter of the process (`ProcessNext`), so that the process is proved apart from them.

* `LimitInv`, for `TheLimitHolds`: in the window of the database's bucket, those admitted and those who counted a hit and have not read it back (`Judging`) are together no more than the hits. Whoever reads the bucket next thus reads a number that counts it in. Windows to come have admitted nobody.
* `ServedInv`, for `AnswersAreRecent`: whatever a request has read, and whatever is kept, was current when that request came in or later (`ReadSince`), and it is that time the cache keeps.
* `AccountInv`, for the rest: a fingerprint that is still the account's was earned with its password (`Earned`), in cookies and in what requests under way carry; all links issued before a completed change are used; a request that goes on to write holds a link that was not of those. What one request relies on, others only add to (`Grows`): fingerprints and links are numbered and never return.
* `WaitsOK`: a form waits for the limiter just as long as the limiter is at work for it.

## 10. The public site: pages about purchases

`Armory` models who sums `classless_character_node`: `web/src/lib/build.ts`, `armory.ts`, `leaderboards.ts`, `visibility.ts`, the title and the bar (`archetype.ts`, `BuildDisplay.tsx`), and the panel's page of a character (`web-admin/src/lib/trees.ts`). `past` keeps the purchases after each change of the realm, and a page remembers the position at which it was asked for, which lets `ShownAsCharged` say "of one moment since". The realm sells (`Buys`, at any price the worldserver may have in its copy), clears, levels, hides (deleted, or the account becomes staff), re-prices and switches off nodes, and is migrated. A probe of tables or columns that fails reads as no; a statement that fails leaves the page without that part (`StatementFails`).

| Run | Instance | Shows |
|---|---|---|
| `armory` | three trees of one node, two prices, one character that leads a guild and may have bought before, one page at a time, rankings kept for a tick, two ticks, two changes | `TypeOK`, `ShownAsCharged`, `HiddenElsewhere`, `PageAgreesWithItself` |

One page at a time: pages share only the rankings kept, whose next page finds them as the last one left them. Changes of the realm fall between any two statements of a page; they wait only while a finished page is sent, which they could not alter any more. Three trees are needed for the three shapes of a title, two prices for a depth that is not a count. Two changes are a purchase and a re-pricing, or a respec and another purchase, within one page. No fairness. The run may stop when time and changes are used up.

The page of the rankings has three statements, and `GuildBoard` names the leaders of guilds as the code does, without asking whether they are hidden. `visibility.ts:7` claims "everywhere", leaderboards included; of the model that is false, so `HiddenElsewhere` is stated for whatever is shown but those leaders (`led`). `ShownAsCharged` does not speak of pages whose columns could not be read. See section 11 for both. Shares of a title are percentages in whole numbers where the code has floats.

`ArmoryProofs` proves, for any trees, prices, characters and number of pages at a time, `ArmoryTypeCorrect`, `PagesShowWhatWasCharged` (`ShownAsCharged`), `TheHiddenAreHiddenElsewhere` (`HiddenElsewhere`) and `ThePageAgrees` (`PageAgreesWithItself`), from `ArmoryAssumption` only: nodes are finite in number, no tree is listed twice, and a missing curve is told from a number of points. What holds of an answer must hold of everything read before it, so the invariant is about pages under way (`Sound`): the purchases read are those of one moment since the page was asked for (`Charged`), so are the sums of a ranking (`Ranked`), and whoever is shown was not hidden before (`SeenSince`); the rankings kept are sound in the same sense from the time they carry, which is when the page that filled them was asked for. With the time they were ready instead, a character hidden between its statement and the answer would be shown for too long (`BoardsSince_WhenReady`). `Sound` depends on the realm only through the purchases of the past, the characters and the clock, and keeps when these go on (`Onward`); a page then changes only by its own steps. For these two a depth is the sum of rows, whatever that is.

`ThePageAgrees` opens the sums. It needs no invariant but the types: whatever rows, level and budget a page has read, what it draws from them agrees. The library's sums are recursive over sets, and its induction theorems take an operator; so induction is over the least set at which a formula fails (`BySmallerSets`, from well-foundedness of proper inclusion of finite sets), and a sum is shown to exist and be unique as the last of the sums over the subsets (`PartialSumsExist`, `PartialSumsAgree`). From there sums take their elements in any order (`SumTakesAny`), are additive over parts (`SumOfParts`) and keep under renumbering (`SumReordered`), by which the trees' points, the segments in the order shown, and the points spent are one number (`WeightsAddUp`, `SegmentsAddUp`). `Ordered` puts a tree at the place given by how many come before it (`Before`), which is what sorting by a strict order comes to, and says so without an algorithm: every place is taken by one tree (`EveryPlaceIsTaken`, `TheOrder`), the deeper before the less deep (`DeeperComesFirst`), so that no tree left out of the title is deeper than one in it.

## 11. Also seen while modelling

These follow from the definitions but have no run of their own; where one contradicts a comment or a document, the properties near it are stated without it and say so.

Ability ledger

* A spell bought first and trained later is taken by a respec (`ClasslessMgr.cpp:279`), as `docs/PHASE2-BUDGET.md:54` says.
* Switched on under a character: the login hook returns before `LoadCharacter` while the module is off (`ClasslessScripts.cpp:70`). After switching on, a respec deletes the rows but leaves the spells (`ClasslessMgr.h:129`), and the rows are not counted as spent (`ClasslessMgr.cpp:188`).
* `refundPurchase` would leave its spell for good, although its comment (`trees.ts:381`) says the spell goes on the next respec.

Item staging

* A withdrawal between `PromoteRead` and the transaction (`items.ts:297`, `items.ts:317`): the item is written from a change that is, and stays, withdrawn; the row count of the closing UPDATE is not looked at.

Launcher

* A client chosen with the button disappears from the settings file at the next change of a setting: the view sends back its whole, older copy (`main.ts:325`, `main.ts:507`).
* `provision_runtime` writes the DLL overrides only if this run installed a component (`app.rs:345`), and a component counts as installed as soon as its file is there. A run that stops in between is never completed, and the game is started without them, although the comment at `app.rs:268` says that ready means provisioned. (`Provision`: `overridden` needs `MissingDll`. `LaunchedReady` asks for the files only.)
* `PrefixState::installed` is documented as files that are present and match (`provision.rs:39`); only presence is tested (`provision.rs:62`), so a newer version is never installed.
* A client picked in the settings between apply_config and launch is started unchecked, of whatever build (`app.rs:428`); the label has changed by then, and `LaunchedReady` does not speak of it.
* `choose_client` takes the new client before it saves (`app.rs:176`, `app.rs:181`), and an error keeps the window's label (`main.ts:508`). If the settings cannot be saved while the label is LAUNCH, the next press starts the new client, unverified, although the comment above (`app.rs:178`) drops the report because leaving it "on screen would be a lie". TLC shows it with `Mishaps = {"save"}`; it is why `OnlyWhatIsReadyIsLaunched` excludes `save` and `cut`.
* Two presses that overlap start a client whose `realmlist.wtf` was not written: the first has written that of the client picked meanwhile, the player goes back to the other and presses VERIFY, and a change of a setting shows LAUNCH before the second press has written anything. TLC shows it with two flows and `meddle`; it is why `OnlyWhatIsReadyIsLaunched` assumes `OneAtATime`.
* The window says that the game can still be started when the realm is unreachable (`main.ts:226`), but the button leads to LAUNCH only through VERIFY, which needs the manifest (`app.rs:191`).
* For a client without `realmlist.wtf`, the second write backs up the launcher's own first one (`install.rs:156`). A backup cut off in the middle counts as the backup (`install.rs:165`).
* The comment on `HashCache` (`verify.rs:137`) relies on an explicit full re-hash in the UI; `App::verify` always loads the cache and nothing offers another way.

Staff actions

* An edit of a character that logged in between the check and the UPDATE matches no row and is audited ok (`characters.ts:236`). Kick, revive, teleport, announce and reload are audited ok when the console was not reached, because `trySoap` returns the failure as a message (`characters.ts:12`).
* The stored MOTD may be one operator's and the live one another's (`realm.ts:122`). A command that timed out may be executed later, after its operator has done something else (`soap.ts:125`).
* A rule of the allowlist that ends in its slash has prefix 0, as `Number("")` is 0, and matches every address of its family (`ip.ts:148`); the comment above says that a malformed rule never matches (`ip.ts:136`).
* A ban kicks only who was online when the target was read (`accounts/actions.ts:85`). A sign-in that read the account before the ban may insert its session after the revocation (`accounts.ts:257`); the next request of that session stands, since a ban is not part of the standing that is read anew.
* The comment on the ban join says `LIMIT 1`; the query has none (`accounts.ts:76`).
* The tree editor submits a whole form: a page loaded before another operator's edit puts the old values back (`TreeEditor.tsx:86`).

Signing in

* A session that idled or expired while its request was under way is promoted all the same, and an idle one renewed by it (`session.ts:184`); nothing says it should not be.
* `finishEnrolmentAction` checks no stage (`actions.ts:133`), unlike the other actions of enrolment; the model follows the code, and no property speaks of the stage a session is promoted from.
* After an authenticator is confirmed, the session is still pending enrolment until the button on the next page is pressed; a reload there bounces between the enrolment page (`enrol/page.tsx:22`) and the verification page (`verify/page.tsx:15`), and the recovery codes are gone from the screen.
* The count of wrong codes is read, incremented and written back (`mfa.ts:195`): two at once count as one. `IssueSecret` on a row that was confirmed meanwhile replaces its secret (`mfa.ts:88`). A second confirmation from another tab replaces the recovery codes.
* The comment on spending a code says that of several requests "exactly one of them updates a row" (`mfa.ts:208`). A request to enrol that passed its check before the enrolment was confirmed replaces the secret of the confirmed row and sets `last_step` to 0 (`mfa.ts:104`); of two requests that had both judged one code of the old secret, one may spend it before and one after, and both pass (`mfa.ts:211`). This needs a third request: it came up in the proof, where `CodesInv` could not be kept without asking that the secret is still the row's.

Public site

* One reset link submitted twice at once writes two passwords: the link is read, used and burnt in three statements (`accounts.ts:376`), while the page says the link works once (`actions.ts:145`).
* One address for one account (`.env.example:79`) is a check before the INSERT (`accounts.ts:147`). "The realm database refused the registration" is said even if the account exists by then (`accounts.ts:203`). A registration by console may find the account of another that came first (`accounts.ts:158`).
* "Does this table exist" is cached for a minute even when the probe failed (`accounts.ts:317`): a password changed in that minute burns no links.
* The profile passes over purchases of nodes that were switched off (`build.ts:273`), although `build.ts:315` calls the sum what the realm charged; the panel, the realm and the rankings count them.
* A failed probe of the columns is kept for a minute as a table without columns (`db.ts:165`): the profile then shows today's prices and nodes that are off, the ranking counts nodes. A failed statement makes the page say that the classless system is not live on this realm.
* The guild board names its leader without `visibleCharacter` (`leaderboards.ts:123`), against the rule of `visibility.ts:7`. (`GuildBoard`; `HiddenElsewhere` leaves `led` out.) With nothing spent of no points the bar says one unspent (`BuildDisplay.tsx:55`).
* A ranking statement that fails is kept as an empty board. Of two fills that overlap, the later answer stays, with its own, older time.

## 12. Not modelled

Stateless or sequential, with no history to check: chassis and relic hooks, the setup tool, generators and audits, process and network wrappers of the launcher, demo data and static pages, searches and lists. Arithmetic and formats that the models take as given: SRP6, TOTP, ciphers and fingerprints, MPQ and DBC bytes, `Config.wtf`, addresses (how one is read from headers and compared with the allowlist), parsing of manifests, mail. Called by nothing: `refundPurchase`, `resetEnrolment`, `summonCharacter`. Memory buckets and caches lost at a restart of the site, several processes of the site, and the web site's own audit table. `PROJECT.json` lists every part with its status.

Out of the provers' reach and left to TLC: liveness under fairness (the second half of `PurchaseReachesDatabase`, `VerdictsSettle`, `ButtonReachesLaunch`, `PatchesArrive`) and ENABLED.
