---------------------------- MODULE StaffActions ----------------------------
(***************************************************************************)
(* Staff actions of the admin panel (web-admin): accounts, characters and  *)
(* the realm are changed in the game's own databases, beside a worldserver *)
(* that keeps a copy of every character in the world and is told things    *)
(* over its console (SOAP) only.                                           *)
(*                                                                         *)
(* A request is one server action. It passes the gate (the session row,    *)
(* then the account's standing), reads its target, does its work statement *)
(* by statement, and writes its audit line last; between two awaits        *)
(* anything may happen, the death of the panel's process included.         *)
(***************************************************************************)
EXTENDS Naturals, Sequences

CONSTANTS
  Account,
  Character,
  OwnerOf,        \* character -> account
  InitialLevel,   \* account -> gmlevel when the panel is set up
  Request,        \* server actions that may run, each once
  MayRun,         \* request -> the actions it may be
  GrantLevels,    \* gmlevels an owner may ask for
  ConsoleLevels,  \* gmlevels the game's own console gives and takes
  MaxCred,        \* bound: times an account's password changes
  Nobody

-----------------------------------------------------------------------------
(* Roles and permissions *)

Level == 0..4
Owner == 4                 \* SEC_CONSOLE
MinimumPanelLevel == 1     \* SEC_MODERATOR

\* The lowest gmlevel whose role carries a permission.
PERMISSIONS ==
  [ban |-> 2, unban |-> 2, mute |-> 2, password_reset |-> 2,
   edit |-> 2, teleport |-> 2, revive |-> 2, kick |-> 2,
   motd |-> 3, maintenance |-> 3, announce |-> 3,
   tree_edit |-> 3, tree_reload |-> 3,
   set_gmlevel |-> Owner]

Can(level, permission) == level >= PERMISSIONS[permission]

-----------------------------------------------------------------------------
(* The server actions: what each needs, what it is aimed at, its work *)

Handler(needs, on, work) == [needs |-> needs, on |-> on, work |-> work]

BanAction           == Handler("ban", "account", <<"ban", "revoke", "kickAccount">>)
UnbanAction         == Handler("unban", "account", <<"unban">>)
ResetPasswordAction == Handler("password_reset", "account", <<"password", "revoke">>)
SetGmLevelAction    == Handler("set_gmlevel", "account", <<"gmlevel", "revoke">>)
MuteAction          == Handler("mute", "account", <<"mute">>)
LockAction          == Handler("ban", "account", <<"lock">>)
EditCharacterAction == Handler("edit", "character", <<"assertOffline", "edit">>)
KickAction          == Handler("kick", "character", <<"kick">>)
ReviveAction        == Handler("revive", "character", <<"revive">>)
TeleportAction      == Handler("teleport", "character", <<"destination", "teleport">>)
QueueAtLoginAction  == Handler("edit", "character", <<"atLogin">>)
MotdAction          == Handler("motd", "realm", <<"motd", "motdLive">>)
MaintenanceAction   == Handler("maintenance", "realm", <<"maintenance">>)
AnnounceAction      == Handler("announce", "realm", <<"announce">>)
EditNodeAction      == Handler("tree_edit", "realm", <<"editNode">>)
EditTreeAction      == Handler("tree_edit", "realm", <<"editTree">>)
ReloadAction        == Handler("tree_reload", "realm", <<"reloadTrees">>)

Actions ==
  [ban |-> BanAction, unban |-> UnbanAction, password |-> ResetPasswordAction,
   gmlevel |-> SetGmLevelAction, mute |-> MuteAction, lock |-> LockAction,
   edit |-> EditCharacterAction, kick |-> KickAction, revive |-> ReviveAction,
   teleport |-> TeleportAction, atLogin |-> QueueAtLoginAction,
   motd |-> MotdAction, maintenance |-> MaintenanceAction, announce |-> AnnounceAction,
   editNode |-> EditNodeAction, editTree |-> EditTreeAction, reload |-> ReloadAction]

ConsoleCommands ==
  {"kickAccount", "kick", "revive", "teleport", "motdLive", "announce", "reloadTrees"}
\* Actions whose first effect is in a database, and cannot be missed by it.
InDatabase == {"ban", "unban", "password", "gmlevel", "mute", "lock", "atLogin",
               "motd", "maintenance", "editNode", "editTree"}

Targets(action) ==
  CASE Actions[action].on = "account"   -> Account
    [] Actions[action].on = "character" -> Character
    [] OTHER                            -> {Nobody}

ASSUME StaffAssumption ==
  /\ OwnerOf \in [Character -> Account]
  /\ InitialLevel \in [Account -> Level]
  /\ MayRun \in [Request -> SUBSET DOMAIN Actions]
  /\ GrantLevels \subseteq Level
  /\ ConsoleLevels \subseteq Level \ {Owner}
  /\ MaxCred \in Nat
  /\ Nobody \notin Account \cup Character \cup Request

-----------------------------------------------------------------------------
VARIABLES
  account,  \* account, account_access, account_banned: level, password, active bans
  session,  \* admin_session: the panel session of an account
  row,      \* characters: the edits a row contains, its flags, its online column
  realm,    \* realmlist, motd, classless_tree and classless_node: the admitted level, the
            \* request that wrote the MOTD, the edits the trees contain
  world,    \* the worldserver: whether it runs, its copies, its live MOTD and trees
  late,     \* commands the console was given up on and may still execute
  request,  \* server actions under way
  log,      \* admin_audit: the outcome in a request's line
  done,     \* requests whose database statement took effect
  executed  \* requests whose console command the worldserver executed

vars == <<account, session, row, realm, world, late, request, log, done, executed>>
database == <<account, row, realm>>
records == <<log, done, executed>>

Stages == {"new", "admitted", "authorised", "working", "recording", "ended"}
RequestState ==
  [step : Stages, action : DOMAIN Actions \cup {"none"}, by : Account \cup {Nobody},
   target : Account \cup Character \cup {Nobody}, grant : Level,
   cred : 0..MaxCred, level : Level, online : BOOLEAN, pc : 1..4, outcome : {"ok", "error", "lost"}]
Unused == [step |-> "new", action |-> "none", by |-> Nobody, target |-> Nobody,
           grant |-> 0, cred |-> 0, level |-> 0, online |-> FALSE, pc |-> 1, outcome |-> "ok"]

\* The account a request is aimed at, if any.
Against(r) == IF Actions[request[r].action].on = "character"
                THEN OwnerOf[request[r].target] ELSE request[r].target

InWorld(c) == world.up /\ row[c].online
AccountOnline(a) == \E c \in Character : OwnerOf[c] = a /\ row[c].online
UnderWay(r) == request[r].step \notin {"new", "ended"}

\* What is still known of a request that is over.
Over(r, outcome) ==
  [Unused EXCEPT !.step = "ended", !.action = request[r].action,
                 !.target = request[r].target, !.outcome = outcome]
End(r, outcome) == request' = [request EXCEPT ![r] = Over(r, outcome)]

-----------------------------------------------------------------------------
(* The gate *)

\* loadSession reads the session row: live, neither expired nor idle. It carries
\* the password the session was opened with.
Admit(r, a, action, target, grant) ==
  /\ request[r].step = "new"
  /\ session[a].live
  /\ request' = [request EXCEPT ![r] =
       [Unused EXCEPT !.step = "admitted", !.action = action, !.by = a,
                      !.target = target, !.grant = grant, !.cred = session[a].cred]]
  /\ UNCHANGED <<database, session, world, late, records>>

\* readAccountStanding: does the account still back the session?
Standing(r) ==
  LET a == request[r].by
  IN account[a].cred = request[r].cred /\ account[a].level >= MinimumPanelLevel

\* A session its account no longer backs is ended, though not one opened since,
\* and the visitor sent to sign in.
TurnAway(r) ==
  /\ request[r].step = "admitted" /\ ~Standing(r)
  /\ session' = [session EXCEPT ![request[r].by].live = @ /\ session[request[r].by].cred # request[r].cred]
  /\ End(r, "ok")
  /\ UNCHANGED <<database, world, late, records>>

\* enforce and requirePermission write the refusal down, and throw.
Deny(r) ==
  /\ End(r, "ok")
  /\ log' = [log EXCEPT ![r] = "denied"]
  /\ UNCHANGED <<database, session, world, late, done, executed>>

\* auditQuietly: a refusal stands when its line cannot be written.
DenyUnrecorded(r) == End(r, "ok") /\ UNCHANGED <<database, session, world, late, records>>

Refuse(r) == Deny(r) \/ DenyUnrecorded(r)

\* The door. A panel that is not configured, or a form that was not sent by its own
\* pages, is an error before anything is read (assertConfigured, assertSameOrigin).
NotFromThePanel(r) ==
  /\ request[r].step = "new"
  /\ End(r, "ok")
  /\ UNCHANGED <<database, session, world, late, records>>

\* An address that is not on the allowlist is refused, whoever is signed in there.
OutsideAllowlist(r) == request[r].step = "new" /\ Refuse(r)

\* requirePermission, with the level read just now.
RequirePermission(r) ==
  LET level == account[request[r].by].level
  IN /\ request[r].step = "admitted" /\ Standing(r)
     /\ IF Can(level, Actions[request[r].action].needs)
          THEN /\ request' = [request EXCEPT ![r].step = "authorised", ![r].level = level]
               /\ UNCHANGED <<database, session, world, late, records>>
          ELSE Refuse(r)

\* Strictly below the actor, and never oneself.
CanActOnAccount(r) ==
  /\ Against(r) # request[r].by
  /\ account[Against(r)].level < request[r].level

CanGrantLevel_AtOwn(r) ==
  request[r].action = "gmlevel" => request[r].grant <= request[r].level
CanGrantLevel(r) ==
  request[r].action = "gmlevel" => request[r].grant < request[r].level

Permitted(r) ==
  Actions[request[r].action].on # "realm" => CanActOnAccount(r) /\ CanGrantLevel(r)

\* The target is read inside the action and the escalation guards applied to
\* it; for a character, to the account that owns it.
LoadTarget(r) ==
  /\ request[r].step = "authorised" /\ request[r].action \notin {"editNode", "editTree"}
  /\ IF ~Permitted(r)
       THEN Refuse(r)
       ELSE /\ request[r].action = "kick" => row[request[r].target].online
            /\ request' = [request EXCEPT ![r].step = "working",
                                          ![r].online = AccountOnline(Against(r))]
            /\ UNCHANGED <<database, session, world, late, records>>

\* The node or the tree a form names is read, and the form compared with it:
\* only what differs will be written.
Find(r, action) ==
  /\ request[r].step = "authorised" /\ request[r].action = action
  /\ request' = [request EXCEPT ![r].step = "working"]
  /\ UNCHANGED <<database, session, world, late, records>>

FindNode(r) == Find(r, "editNode")
FindTree(r) == Find(r, "editTree")

\* A form that changes nothing, lacks its reason, holds a number out of range or
\* names what is not there (a kick of somebody who is not online): an error
\* message and no line.
FormRejected(r) ==
  /\ request[r].step = "authorised" /\ Permitted(r)
  /\ End(r, "ok")
  /\ UNCHANGED <<database, session, world, late, records>>

-----------------------------------------------------------------------------
(* The work *)

Work(r) == Actions[request[r].action].work
At(r, statement) == request[r].step = "working" /\ Work(r)[request[r].pc] = statement

Finish(r, outcome) ==
  request' = [request EXCEPT ![r].step = "recording", ![r].outcome = outcome]
Advance(r) ==
  IF request[r].pc = Len(Work(r)) THEN Finish(r, "ok")
  ELSE request' = [request EXCEPT ![r].pc = @ + 1]

\* A statement took effect.
Written(r) ==
  /\ done' = done \cup {r}
  /\ Advance(r)
  /\ UNCHANGED <<session, world, late, log, executed>>

\* The database refuses a statement, or a name is none the console could be given
\* (accountName, characterName); what is sent to the console throws nothing.
MayThrow(r) ==
  /\ request[r].step = "working" /\ Work(r)[request[r].pc] \notin {"motdLive", "announce", "reloadTrees"}
  /\ At(r, "kickAccount") => request[r].online

WorkFails_NotNoticed(r) ==
  /\ MayThrow(r)
  /\ Finish(r, "ok")
  /\ UNCHANGED <<database, session, world, late, records>>

\* A statement of the work throws: the audit line will say so.
WorkFails(r) ==
  /\ MayThrow(r)
  /\ Finish(r, "error")
  /\ UNCHANGED <<database, session, world, late, records>>

\* One active row per ban; a second ban adds a second one.
BanAccount(r) ==
  /\ At(r, "ban")
  /\ account' = [account EXCEPT ![request[r].target].bans = @ \cup {r}]
  /\ UNCHANGED <<row, realm>> /\ Written(r)

\* Every active row is cleared.
UnbanAccount(r) ==
  /\ At(r, "unban")
  /\ account' = [account EXCEPT ![request[r].target].bans = {}]
  /\ UNCHANGED <<row, realm>> /\ Written(r)

SetPassword(r) ==
  /\ At(r, "password") /\ account[request[r].target].cred < MaxCred
  /\ account' = [account EXCEPT ![request[r].target].cred = @ + 1]
  /\ UNCHANGED <<row, realm>> /\ Written(r)

\* The old rows are deleted and the new one inserted in one transaction.
SetGmLevel(r) ==
  /\ At(r, "gmlevel")
  /\ account' = [account EXCEPT ![request[r].target].level = request[r].grant]
  /\ UNCHANGED <<row, realm>> /\ Written(r)

\* mutetime and locked: read by the servers at the next login only.
SetMute(r) ==
  /\ At(r, "mute")
  /\ \E on \in BOOLEAN : account' = [account EXCEPT ![request[r].target].muted = on]
  /\ UNCHANGED <<row, realm>> /\ Written(r)

SetLocked(r) ==
  /\ At(r, "lock")
  /\ \E on \in BOOLEAN : account' = [account EXCEPT ![request[r].target].locked = on]
  /\ UNCHANGED <<row, realm>> /\ Written(r)

\* Every live panel session of the account.
RevokeSessions(r) ==
  /\ At(r, "revoke")
  /\ session' = [session EXCEPT ![request[r].target].live = FALSE]
  /\ Advance(r)
  /\ UNCHANGED <<database, world, late, records>>

\* editCharacter first makes sure the character is offline ...
AssertOffline(r) ==
  /\ At(r, "assertOffline")
  /\ IF row[request[r].target].online THEN Finish(r, "error") ELSE Advance(r)
  /\ UNCHANGED <<database, session, world, late, records>>

EditMatches_AnyRow(c) == TRUE
EditMatches(c) == ~row[c].online

\* ... then updates it "AND online = 0", whatever that matches.
EditCharacter(r) ==
  LET c == request[r].target
  IN /\ At(r, "edit")
     /\ IF EditMatches(c)
          THEN /\ row' = [row EXCEPT ![c].edits = @ \cup {r}]
               /\ done' = done \cup {r}
          ELSE UNCHANGED <<row, done>>
     /\ Advance(r)
     /\ UNCHANGED <<account, session, realm, world, late, log, executed>>

\* The flag is read when the character next logs in.
QueueAtLogin(r) ==
  /\ At(r, "atLogin")
  /\ row' = [row EXCEPT ![request[r].target].atLogin = TRUE]
  /\ UNCHANGED <<account, realm>> /\ Written(r)

\* setMotd writes the row, the half that cannot fail for want of a console.
StoreMotd(r) ==
  /\ At(r, "motd")
  /\ realm' = [realm EXCEPT !.motd = r]
  /\ UNCHANGED <<account, row>> /\ Written(r)

\* Nobody below the level is admitted from the next login on.
SetMaintenance(r) ==
  /\ At(r, "maintenance")
  /\ \E level \in {0, 2} : realm' = [realm EXCEPT !.allowed = level]
  /\ UNCHANGED <<account, row>> /\ Written(r)

\* One UPDATE of the columns that differed from the row read before.
EditNode(r) ==
  /\ At(r, "editNode")
  /\ realm' = [realm EXCEPT !.trees = @ \cup {r}]
  /\ UNCHANGED <<account, row>> /\ Written(r)

EditTree(r) ==
  /\ At(r, "editTree")
  /\ realm' = [realm EXCEPT !.trees = @ \cup {r}]
  /\ UNCHANGED <<account, row>> /\ Written(r)

\* The destination is looked up; an unknown one is an attempt that failed.
TeleportDestination(r) ==
  /\ At(r, "destination")
  /\ Advance(r) \/ Finish(r, "ok")
  /\ UNCHANGED <<database, session, world, late, records>>

-----------------------------------------------------------------------------
(* The console *)

AtConsole(r) == request[r].step = "working" /\ Work(r)[request[r].pc] \in ConsoleCommands

\* The kick that follows a ban is for those who were online when it looked.
NobodyToKick(r) ==
  /\ At(r, "kickAccount") /\ ~request[r].online
  /\ Advance(r)
  /\ UNCHANGED <<database, session, world, late, records>>

Kicked(r, c) ==
  \/ request[r].action = "ban"  /\ OwnerOf[c] = request[r].target
  \/ request[r].action = "kick" /\ c = request[r].target

\* A save of the whole character from the copy, at its logout.
Saved(c) == [row[c] EXCEPT !.edits = world.copy[c], !.online = FALSE]

\* The module reads its trees anew.
ReloadTrees == [world EXCEPT !.trees = realm.trees]

Execute(r) ==
  /\ world.up
  /\ executed' = executed \cup {r}
  /\ row' = [c \in Character |-> IF Kicked(r, c) /\ row[c].online THEN Saved(c) ELSE row[c]]
  /\ world' = CASE request[r].action = "motd"   -> [world EXCEPT !.motd = r]
                [] request[r].action = "reload" -> ReloadTrees
                [] OTHER                        -> world

\* executeCommand gets its answer in time.
ConsoleAnswers(r) ==
  /\ AtConsole(r) /\ (At(r, "kickAccount") => request[r].online)
  /\ Execute(r)
  /\ Advance(r)
  /\ UNCHANGED <<account, session, realm, late, log, done>>

ConsoleFails_Retries(r, sent) ==
  /\ AtConsole(r) /\ (At(r, "kickAccount") => request[r].online)
  /\ sent => world.up
  /\ late' = IF sent THEN late \cup {r} ELSE late
  /\ UNCHANGED <<database, session, world, request, records>>

\* It is aborted, refused or not configured: trySoap reports that to the
\* operator and throws nothing. What was sent may still be executed.
ConsoleFails(r, sent) ==
  /\ AtConsole(r) /\ (At(r, "kickAccount") => request[r].online)
  /\ sent => world.up
  /\ late' = IF sent THEN late \cup {r} ELSE late
  /\ Advance(r)
  /\ UNCHANGED <<database, session, world, records>>

ExecuteLate(r) ==
  /\ r \in late
  /\ Execute(r)
  /\ late' = late \ {r}
  /\ UNCHANGED <<account, session, realm, request, log, done>>

-----------------------------------------------------------------------------
(* The audit line *)

LineOf_OnlySuccesses(r) == IF request[r].outcome = "ok" THEN "ok" ELSE "none"
LineOf(r) == request[r].outcome

\* performAudited writes the line after the work, whether it threw or not.
Record(r) ==
  /\ request[r].step = "recording"
  /\ log' = [log EXCEPT ![r] = LineOf(r)]
  /\ End(r, request[r].outcome)
  /\ UNCHANGED <<database, session, world, late, done, executed>>

\* The insert fails: the operator is told the action is untraceable.
RecordFails(r) ==
  /\ request[r].step = "recording"
  /\ End(r, "lost")
  /\ UNCHANGED <<database, session, world, late, records>>

PanelDies ==
  /\ \E r \in Request : UnderWay(r)
  /\ request' = [r \in Request |-> IF UnderWay(r) THEN Over(r, "lost") ELSE request[r]]
  /\ UNCHANGED <<database, session, world, late, records>>

-----------------------------------------------------------------------------
(* Everybody else *)

\* Somebody signs in anew.
SignIn(a) ==
  /\ ~session[a].live
  /\ account[a].level >= MinimumPanelLevel
  /\ account[a].bans = {} /\ ~account[a].locked
  /\ session' = [session EXCEPT ![a] = [live |-> TRUE, cred |-> account[a].cred]]
  /\ UNCHANGED <<database, world, late, request, records>>

\* `.account set gmlevel` typed in the game, for anyone but an owner.
ConsoleSetsLevel(a, level) ==
  /\ account[a].level \notin {Owner, level}
  /\ account' = [account EXCEPT ![a].level = level]
  /\ UNCHANGED <<session, row, realm, world, late, request, records>>

\* The worldserver reads the row, keeps a copy, and writes it back.
LogIn(c) ==
  /\ world.up /\ ~row[c].online
  /\ account[OwnerOf[c]].bans = {} /\ account[OwnerOf[c]].level >= realm.allowed
  /\ row' = [row EXCEPT ![c].online = TRUE, ![c].atLogin = FALSE]
  /\ world' = [world EXCEPT !.copy[c] = row[c].edits]
  /\ UNCHANGED <<account, session, realm, late, request, records>>

LogOut(c) ==
  /\ InWorld(c)
  /\ row' = [row EXCEPT ![c] = Saved(c)]
  /\ UNCHANGED <<account, session, realm, world, late, request, records>>

\* A crash leaves the online columns as they are until the next start.
WorldCrashes ==
  /\ world.up
  /\ world' = [world EXCEPT !.up = FALSE]
  /\ late' = {}
  /\ UNCHANGED <<database, session, request, records>>

WorldStarts ==
  /\ ~world.up
  /\ world' = [ReloadTrees EXCEPT !.up = TRUE, !.motd = realm.motd]
  /\ row' = [c \in Character |-> [row[c] EXCEPT !.online = FALSE]]
  /\ UNCHANGED <<account, session, realm, late, request, records>>

-----------------------------------------------------------------------------
Init ==
  /\ account = [a \in Account |-> [level |-> InitialLevel[a], cred |-> 0,
                                   bans |-> {}, locked |-> FALSE, muted |-> FALSE]]
  /\ session = [a \in Account |->
       [live |-> InitialLevel[a] >= MinimumPanelLevel, cred |-> 0]]
  /\ row = [c \in Character |-> [edits |-> {}, atLogin |-> FALSE, online |-> FALSE]]
  /\ realm = [allowed |-> 0, motd |-> Nobody, trees |-> {}]
  /\ world = [up |-> TRUE, copy |-> [c \in Character |-> {}], motd |-> Nobody, trees |-> {}]
  /\ late = {}
  /\ request = [r \in Request |-> Unused]
  /\ log = [r \in Request |-> "none"]
  /\ done = {} /\ executed = {}

Gate(r) ==
  \/ \E a \in Account, action \in MayRun[r], grant \in GrantLevels :
       \E target \in Targets(action) :
         /\ action # "gmlevel" => grant = 0
         /\ Admit(r, a, action, target, grant)
  \/ NotFromThePanel(r) \/ OutsideAllowlist(r)
  \/ TurnAway(r) \/ RequirePermission(r) \/ LoadTarget(r) \/ FindNode(r) \/ FindTree(r)
  \/ FormRejected(r)

Statement(r) ==
  \/ BanAccount(r) \/ UnbanAccount(r) \/ SetPassword(r) \/ SetGmLevel(r)
  \/ SetMute(r) \/ SetLocked(r) \/ RevokeSessions(r)
  \/ AssertOffline(r) \/ EditCharacter(r) \/ QueueAtLogin(r)
  \/ StoreMotd(r) \/ SetMaintenance(r) \/ EditNode(r) \/ EditTree(r) \/ TeleportDestination(r)
  \/ WorkFails(r)

Console(r) ==
  \/ NobodyToKick(r) \/ ConsoleAnswers(r) \/ ExecuteLate(r)
  \/ \E sent \in BOOLEAN : ConsoleFails(r, sent)

Audit(r) == Record(r) \/ RecordFails(r)

Others ==
  \/ \E a \in Account : SignIn(a)
  \/ \E a \in Account, level \in ConsoleLevels : ConsoleSetsLevel(a, level)
  \/ \E c \in Character : LogIn(c) \/ LogOut(c)
  \/ WorldCrashes \/ WorldStarts \/ PanelDies

Next ==
  \/ \E r \in Request : Gate(r) \/ Statement(r) \/ Console(r) \/ Audit(r)
  \/ Others

Spec == Init /\ [][Next]_vars

-----------------------------------------------------------------------------
(* Properties *)

\* Types. A request under way has an actor and a target of its action's kind,
\* and the panel is through with the console when it gives up on a command.
TypeOK ==
  /\ account \in [Account -> [level : Level, cred : 0..MaxCred,
                              bans : SUBSET Request, locked : BOOLEAN, muted : BOOLEAN]]
  /\ session \in [Account -> [live : BOOLEAN, cred : 0..MaxCred]]
  /\ row \in [Character -> [edits : SUBSET Request, atLogin : BOOLEAN, online : BOOLEAN]]
  /\ realm \in [allowed : Level, motd : Request \cup {Nobody}, trees : SUBSET Request]
  /\ world \in [up : BOOLEAN, copy : [Character -> SUBSET Request],
                motd : Request \cup {Nobody}, trees : SUBSET realm.trees]
  /\ request \in [Request -> RequestState]
  /\ \A r \in Request : UnderWay(r) =>
       request[r].by \in Account /\ request[r].target \in Targets(request[r].action)
  /\ late \subseteq {r \in Request : ~AtConsole(r)}
  /\ log \in [Request -> {"none", "denied", "ok", "error"}]
  /\ done \subseteq Request /\ executed \subseteq Request

\* The online rule (characters.ts): the copy the worldserver will write back
\* contains every edit the row contains, so no save ever discards one.
SaveDiscardsNothing ==
  \A c \in Character : InWorld(c) => world.copy[c] = row[c].edits

\* An untraceable staff action is worse than a refused one (audit.ts): what
\* took effect, in the database or in the world, has a line, is about to get
\* one, or belongs to a request cut short.
EffectsTraced ==
  \A r \in done \cup executed :
    \/ log[r] \in {"ok", "error"}
    \/ UnderWay(r) \/ request[r].outcome = "lost"

\* A line that says ok of a change of the database stands for a change that
\* was made, whatever failed, died or interleaved (performAudited).
LoggedChangeWasMade ==
  \A r \in Request :
    log[r] = "ok" /\ request[r].action \in InDatabase => r \in done

\* No sequence of staff actions makes or unmakes an owner: that is done on
\* the game's console only (canGrantLevel, canActOnAccount).
OwnersFromConsoleOnly ==
  \A a \in Account : account[a].level = Owner <=> InitialLevel[a] = Owner

=============================================================================
