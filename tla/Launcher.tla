------------------------------ MODULE Launcher ------------------------------
(***************************************************************************)
(* The launcher: its state machine (launcher/core/src/app.rs), what it     *)
(* keeps on disk, and the window in front of it (launcher/ui/src/main.ts), *)
(* which shows one button whose label is the state.                        *)
(*                                                                         *)
(* The shell holds one App behind a mutex, so a command is one step. What  *)
(* a press of the button does is a sequence of commands, a flow, and the   *)
(* window keeps its own copy of two things: the label (state.status) and   *)
(* the settings (state.settings). A command can stop part way, files can   *)
(* be cut off in the middle of a write, and the launcher can be killed     *)
(* between any two steps: nothing but the disk is left then.               *)
(***************************************************************************)
EXTENDS Naturals, Sequences

CONSTANTS
  Clients,     \* client directories
  BuildOf,     \* the build each client reports, or Unreadable
  Fresh,       \* clients that came without a realmlist.wtf
  Addresses,   \* realm addresses
  Versions,    \* versions of patches and of DXVK
  Manifests,   \* what the site may publish
  Platform,    \* "windows", "wine" (Linux with a runtime) or "bare" (without)
  Flows,       \* bound: presses of the button under way at a time
  Mishaps,     \* what may go wrong, a subset of MishapNames
  NoClient, NoAddress, NoManifest, NoReport, Absent, Unreadable, Own, Torn

MishapNames == {
  "crash",      \* the launcher is killed
  "stop",       \* a command fails part way: the network, the disk, Wine
  "save",       \* the settings file cannot be written
  "cut",        \* a file is left half written
  "meddle",     \* the player uses the settings while the button is at work
  "republish" } \* the site publishes something else

Patch == [path : STRING, version : Versions]

ASSUME LauncherAssumption ==
  /\ NoClient \notin Clients /\ NoReport \notin Clients
  /\ NoAddress \notin Addresses
  /\ NoManifest \notin Manifests
  /\ Absent \notin Versions
  /\ {Own, Torn, Absent} \cap Addresses = {}
  /\ Own # Torn /\ Own # Absent
  /\ Platform \in {"windows", "wine", "bare"}
  /\ Mishaps \subseteq MishapNames
  /\ \A m \in Manifests :
       /\ m.address \in Addresses
       /\ m.runtime \in Versions \cup {Absent}
       /\ m.patches \in Seq(Patch)
       /\ \A i, j \in DOMAIN m.patches : m.patches[i].path = m.patches[j].path => i = j

Paths == UNION {{m.patches[i].path : i \in DOMAIN m.patches} : m \in Manifests}

\* The two settings the button depends on; the others travel with them.
Settings == [client : Clients \cup {NoClient}, address : Addresses \cup {NoAddress}]
Defaults == [client |-> NoClient, address |-> NoAddress]

Prefix == [made : BOOLEAN, dll : Versions \cup {Absent}, overridden : BOOLEAN]

VARIABLES
  published,                            \* the manifest on the site
  saved,                                \* settings.json
  prefix,                               \* the Wine prefix
  installed,                            \* every client's patch files, by version
  realmlist, backup,                    \* realmlist.wtf and its copy, per client
  settings, manifest, client, report,   \* App
  shown, form, busy, flow               \* the window

site == published
disk == <<saved, prefix, installed, realmlist, backup>>
app == <<settings, manifest, client, report>>
window == <<shown, form, busy, flow>>
vars == <<site, disk, app, window>>

----------------------------------------------------------------------------
(* What the launcher concludes from its state.                              *)

RealmAddress ==
  IF settings.address # NoAddress THEN settings.address
  ELSE IF manifest # NoManifest THEN manifest.address
  ELSE NoAddress

WrongBuild ==
  /\ client # NoClient /\ manifest # NoManifest
  /\ BuildOf[client] \notin {Unreadable, manifest.build}

Blocked == client = NoClient \/ WrongBuild \/ RealmAddress = NoAddress \/ Platform = "bare"

\* A component counts as there when its file is.
RuntimeReady_AlwaysDxvk ==
  \/ Platform # "wine"
  \/ prefix.made /\ (manifest = NoManifest \/ prefix.dll # Absent)

RuntimeReady ==
  \/ Platform # "wine"
  \/ /\ prefix.made
     /\ \/ manifest = NoManifest
        \/ manifest.runtime = Absent
        \/ prefix.dll # Absent

Labels == {"SELECT CLIENT", "BLOCKED", "VERIFY", "SET UP RUNTIME", "INSTALL PATCH", "LAUNCH"}

\* status().action: the first thing that is missing names the button.
Button ==
  IF client = NoClient THEN "SELECT CLIENT"
  ELSE IF Blocked THEN "BLOCKED"
  ELSE IF report = NoReport THEN "VERIFY"
  ELSE IF ~RuntimeReady THEN "SET UP RUNTIME"
  ELSE IF manifest # NoManifest /\ manifest.patches # <<>> THEN "INSTALL PATCH"
  ELSE "LAUNCH"

\* The patches whose files are not what the manifest says.
Outstanding ==
  {i \in DOMAIN manifest.patches :
     installed[client][manifest.patches[i].path] # manifest.patches[i].version}

----------------------------------------------------------------------------
(* The window.                                                              *)

Idle(f) == flow[f] = "idle"

\* The bar is disabled while the window is busy.
Press(f, label) ==
  /\ shown = label
  /\ ~busy
  /\ Idle(f)

Goto(f, step) ==
  /\ flow' = [flow EXCEPT ![f] = step]
  /\ busy' = (step # "idle")

\* The settings and the retry link stay enabled; whoever finishes last clears
\* the busy flag of everybody.
Settle == busy' = FALSE
MayUseSettings ==
  \/ ~busy /\ \A f \in Flows : Idle(f)
  \/ "meddle" \in Mishaps

\* save_settings writes the file in place.
SaveOk == saved' = settings'
SaveFails ==
  \/ ("save" \in Mishaps /\ saved' = saved)
  \/ ("cut" \in Mishaps /\ saved' = Unreadable)

\* choose_client; the path resolves to a client or nothing happens. The button
\* leaves the window's copy of the settings as it was, the settings view reads
\* them again. When saving fails the window learns nothing.
ChooseClient_KeepReport(c, view) ==
  /\ IF view = "button" THEN shown = "SELECT CLIENT" /\ ~busy ELSE MayUseSettings
  /\ settings' = [settings EXCEPT !.client = c]
  /\ client' = c
  /\ UNCHANGED <<site, prefix, installed, realmlist, backup, manifest, report, flow>>
  /\ SaveOk /\ shown' = Button' /\ UNCHANGED form
  /\ Settle

ChooseClient(c, view) ==
  /\ IF view = "button"
       THEN shown = "SELECT CLIENT" /\ ~busy
       ELSE MayUseSettings
  /\ settings' = [settings EXCEPT !.client = c]
  /\ client' = c
  /\ report' = NoReport
  /\ UNCHANGED <<site, prefix, installed, realmlist, backup, manifest, flow>>
  /\ \/ SaveOk /\ shown' = Button' /\ form' = IF view = "button" THEN form ELSE settings'
     \/ SaveFails /\ UNCHANGED <<shown, form>>
  /\ Settle

\* save_settings: the window's copy, with one field changed, replaces the App's.
SaveSettings(a) ==
  /\ MayUseSettings
  /\ form' = [form EXCEPT !.address = a]
  /\ settings' = form'
  /\ UNCHANGED <<site, prefix, installed, realmlist, backup, client, manifest, report, flow>>
  /\ \/ SaveOk /\ shown' = Button'
     \/ SaveFails /\ UNCHANGED shown
  /\ Settle

\* A successful sign-in saves the App's settings and makes the window read them
\* again; a refused one changes nothing.
SignIn ==
  /\ MayUseSettings
  /\ UNCHANGED <<site, prefix, installed, realmlist, backup, app, flow>>
  /\ \/ SaveOk /\ form' = settings /\ shown' = Button
     \/ (SaveFails \/ saved' = saved) /\ UNCHANGED <<shown, form>>
  /\ Settle

\* refreshRealm: at startup, when the player names another site in the settings,
\* and, as long as it failed, when the player tries again.
RefreshRealm ==
  /\ MayUseSettings
  /\ manifest' = published
  /\ UNCHANGED <<disk, settings, client, report>>
  /\ shown' = Button'
  /\ Settle
  /\ UNCHANGED <<site, form, flow>>

RefreshRealmFails ==
  /\ MayUseSettings
  /\ "stop" \in Mishaps
  /\ shown' = Button
  /\ Settle
  /\ UNCHANGED <<site, disk, app, form, flow>>

----------------------------------------------------------------------------
(* The flows of the button.                                                 *)

\* VERIFY: verify, then apply_config, then status. Without a manifest the first
\* command is an error and nothing changes.
PressVerify(f) ==
  /\ Press(f, "VERIFY")
  /\ client # NoClient /\ manifest # NoManifest
  /\ report' = client
  /\ Goto(f, "apply_then_status")
  /\ UNCHANGED <<site, disk, settings, manifest, client, shown, form>>

\* LAUNCH: apply_config, then launch, then status.
PressLaunch_Directly(f) ==
  /\ Press(f, "LAUNCH")
  /\ Goto(f, "launch")
  /\ UNCHANGED <<site, disk, app, shown, form>>

PressLaunch(f) ==
  /\ Press(f, "LAUNCH")
  /\ Goto(f, "apply_then_launch")
  /\ UNCHANGED <<site, disk, app, shown, form>>

\* back_up_once: a copy of the file as it is, the first time there is one.
BackedUp_EveryTime(c) ==
  IF realmlist[c] # Absent THEN [backup EXCEPT ![c] = realmlist[c]] ELSE backup

BackedUp(c) ==
  IF backup[c] = Absent /\ realmlist[c] # Absent
    THEN [backup EXCEPT ![c] = realmlist[c]]
    ELSE backup

\* Both were there when the flow began, and nothing takes them away.
Applying(f) ==
  /\ flow[f] \in {"apply_then_status", "apply_then_launch"}
  /\ client # NoClient
  /\ RealmAddress # NoAddress

\* apply_config: back up and write realmlist.wtf.
ApplyConfig_OverrideOnly(f) ==
  /\ Applying(f)
  /\ backup' = BackedUp(client)
  /\ realmlist' = [realmlist EXCEPT ![client] = settings.address]
  /\ Goto(f, IF flow[f] = "apply_then_launch" THEN "launch" ELSE "status")
  /\ UNCHANGED <<site, saved, prefix, installed, app, shown, form>>

ApplyConfig(f) ==
  /\ Applying(f)
  /\ backup' = BackedUp(client)
  /\ realmlist' = [realmlist EXCEPT ![client] = RealmAddress]
  /\ Goto(f, IF flow[f] = "apply_then_launch" THEN "launch" ELSE "status")
  /\ UNCHANGED <<site, saved, prefix, installed, app, shown, form>>

\* It stops before it wrote anything, after the backup, or in the middle of one
\* of the two files.
ApplyConfigStops(f) ==
  /\ Applying(f)
  /\ \/ /\ "stop" \in Mishaps
        /\ backup' \in {backup, BackedUp(client)}
        /\ UNCHANGED realmlist
     \/ /\ "cut" \in Mishaps
        /\ BackedUp(client) # backup
        /\ backup' = [backup EXCEPT ![client] = Torn]
        /\ UNCHANGED realmlist
     \/ /\ "cut" \in Mishaps
        /\ backup' = BackedUp(client)
        /\ realmlist' = [realmlist EXCEPT ![client] = Torn]
  /\ Goto(f, "idle")
  /\ UNCHANGED <<site, saved, prefix, installed, app, shown, form>>

\* launch starts the client the App has now.
LaunchGame(f) ==
  /\ flow[f] = "launch"
  /\ client # NoClient /\ Platform # "bare"
  /\ Goto(f, "status")
  /\ UNCHANGED <<site, disk, app, shown, form>>

\* The process cannot be started.
LaunchFails(f) ==
  /\ flow[f] = "launch"
  /\ "stop" \in Mishaps
  /\ Goto(f, "idle")
  /\ UNCHANGED <<site, disk, app, shown, form>>

\* SET UP RUNTIME: wineboot, the components that are not there, and, if one was
\* installed, the overrides. "done" is how many of the three were finished; a
\* command cut short may have made the prefix, or put the library in it.
MissingDll == manifest.runtime # Absent /\ prefix.dll = Absent

Provision(f, done) ==
  /\ Press(f, "SET UP RUNTIME")
  /\ manifest # NoManifest
  /\ prefix' = [made |-> prefix.made \/ done >= 1,
                dll |-> IF MissingDll /\ done >= 2 THEN manifest.runtime ELSE prefix.dll,
                overridden |-> prefix.overridden \/ (MissingDll /\ done >= 3)]
  /\ done < 3 => "stop" \in Mishaps
  /\ Goto(f, IF done = 3 THEN "status" ELSE "idle")
  /\ UNCHANGED <<site, saved, installed, realmlist, backup, app, shown, form>>

\* INSTALL PATCH: the manifest's patches in turn, those that are correct already
\* left alone, each other one put beside its target and renamed over it, until one
\* fails; the first "done" of them are correct then.
FirstPatches_OneShort(done) == {manifest.patches[i] : i \in 1..done - 1}
FirstPatches(done) == {manifest.patches[i] : i \in 1..done}

InstallPatches(f, done) ==
  /\ Press(f, "INSTALL PATCH")
  /\ client # NoClient /\ manifest # NoManifest
  /\ done <= Len(manifest.patches)
  /\ done < Len(manifest.patches) => "stop" \in Mishaps
  /\ installed' = [installed EXCEPT ![client] =
       [path \in Paths |->
          IF \E patch \in FirstPatches(done) : patch.path = path
            THEN (CHOOSE patch \in FirstPatches(done) : patch.path = path).version
            ELSE installed[client][path]]]
  /\ Goto(f, IF done = Len(manifest.patches) THEN "status" ELSE "idle")
  /\ UNCHANGED <<site, saved, prefix, realmlist, backup, app, shown, form>>

\* The last command of every flow.
ReadStatus(f) ==
  /\ flow[f] = "status"
  /\ shown' = Button
  /\ Goto(f, "idle")
  /\ UNCHANGED <<site, disk, app, form>>

----------------------------------------------------------------------------
(* Around the launcher.                                                     *)

Publish(m) ==
  /\ "republish" \in Mishaps
  /\ published' = m
  /\ UNCHANGED <<disk, app, window>>

\* App::new and the first half of start(). A settings file that does not parse
\* is a settings file with nothing in it.
Start(s) ==
  /\ settings' = s
  /\ client' = s.client
  /\ manifest' = NoManifest
  /\ report' = NoReport
  /\ form' = s
  /\ busy' = FALSE
  /\ flow' = [f \in Flows |-> "idle"]

Restart ==
  /\ "crash" \in Mishaps
  /\ Start(IF saved = Unreadable THEN Defaults ELSE saved)
  /\ UNCHANGED <<site, disk>>
  /\ shown' = Button'

Init ==
  /\ published \in Manifests
  /\ saved = Defaults
  /\ prefix = [made |-> FALSE, dll |-> Absent, overridden |-> FALSE]
  /\ installed = [c \in Clients |-> [p \in Paths |-> Absent]]
  /\ realmlist = [c \in Clients |-> IF c \in Fresh THEN Absent ELSE Own]
  /\ backup = [c \in Clients |-> Absent]
  /\ settings = Defaults /\ client = NoClient
  /\ manifest = NoManifest /\ report = NoReport
  /\ form = Defaults /\ busy = FALSE
  /\ flow = [f \in Flows |-> "idle"]
  /\ shown = Button

PatchSteps == UNION {0..Len(m.patches) : m \in Manifests}

\* The link beside the button, shown as long as there was no answer.
RetryRealm == manifest = NoManifest /\ (RefreshRealm \/ RefreshRealmFails)

\* The button and its flows, the client it asks for and the realm it reads.
ButtonStep ==
  \/ \E c \in Clients : ChooseClient(c, "button")
  \/ RetryRealm
  \/ \E f \in Flows :
       \/ PressVerify(f)
       \/ PressLaunch(f)
       \/ ApplyConfig(f)
       \/ ApplyConfigStops(f)
       \/ LaunchGame(f)
       \/ LaunchFails(f)
       \/ \E done \in 0..3 : Provision(f, done)
       \/ \E done \in PatchSteps : InstallPatches(f, done)
       \/ ReadStatus(f)

Next ==
  \/ ButtonStep
  \/ \E c \in Clients : ChooseClient(c, "settings")
  \/ \E a \in Addresses \cup {NoAddress} : SaveSettings(a)
  \/ SignIn
  \/ RefreshRealm
  \/ RefreshRealmFails
  \/ \E m \in Manifests : Publish(m)
  \/ Restart

Spec == Init /\ [][Next]_vars

\* A player who does not give up: chooses a client when asked to, tries the realm
\* again, presses what the button says. A command that fails now and then also
\* succeeds now and then; starting the game ends one way or the other.
Persistent ==
  /\ WF_vars(manifest = NoManifest /\ RefreshRealm)
  /\ WF_vars(\E c \in Clients : ChooseClient(c, "button"))
  /\ \A f \in Flows :
       /\ SF_vars(PressVerify(f))
       /\ SF_vars(ApplyConfig(f))
       /\ SF_vars(Provision(f, 3))
       /\ SF_vars(\E done \in PatchSteps : InstallPatches(f, done) /\ flow'[f] = "status")
       /\ SF_vars(ReadStatus(f))
       /\ WF_vars(LaunchGame(f) \/ LaunchFails(f))

FairSpec == Spec /\ Persistent

----------------------------------------------------------------------------
(* Properties *)

Steps == {"idle", "apply_then_status", "apply_then_launch", "launch", "status"}

\* Disk, App and window have the shape the code gives them; a realmlist.wtf names
\* a realm whatever the settings and the manifest say.
TypeOK ==
  /\ published \in Manifests
  /\ saved \in Settings \cup {Unreadable}
  /\ prefix \in Prefix
  /\ installed \in [Clients -> [Paths -> Versions \cup {Absent}]]
  /\ realmlist \in [Clients -> Addresses \cup {Own, Torn, Absent}]
  /\ backup \in [Clients -> Addresses \cup {Own, Torn, Absent}]
  /\ settings \in Settings /\ form \in Settings
  /\ client \in Clients \cup {NoClient}
  /\ manifest \in Manifests \cup {NoManifest}
  /\ report \in Clients \cup {NoReport}
  /\ shown \in Labels
  /\ busy \in BOOLEAN
  /\ flow \in [Flows -> Steps]

\* A report is about the client the launcher points at, and there is none before
\* the realm's manifest was read, however the flows and the settings mix.
ReportOfThisClient ==
  report # NoReport => report = client /\ manifest # NoManifest

\* What starts under the label LAUNCH deserves it: a client of the right build that
\* was verified, its realmlist.wtf naming a realm, the files of the runtime there;
\* though the player changes client, address or site between the commands of the
\* button, and every command may stop part way. A label that changed before the
\* command is no longer claimed to be about it, and a label that could not follow
\* (a settings file that is not written) may be wrong: see the README. "There" is
\* what runtime_ready tests. Its comment asks for more, "provisioned, not merely
\* present" (app.rs:268-269), which the overrides of a run that stopped before its
\* last step do not satisfy: such a prefix is started all the same.
LaunchedReady ==
  [][\A f \in Flows : LaunchGame(f) /\ shown = "LAUNCH" =>
       /\ ~Blocked /\ RuntimeReady
       /\ report = client
       /\ realmlist[client] \in Addresses]_vars

\* The player's own realmlist.wtf is in its place or in the backup, whatever
\* stops between the two.
OriginalNotLost ==
  \A c \in Clients \ Fresh : Own \in {realmlist[c], backup[c]}

\* Wherever interruptions, deaths of the launcher, new manifests and changed
\* settings have left the disk and the window: once the player only presses the
\* button, it gets to LAUNCH again and again, though commands go on failing now
\* and then. A client of the wrong build is a dead end by design; a manifest with
\* patches is one by mistake (InstallMeansOutstanding).
ButtonReachesLaunch ==
  <>[][ButtonStep]_vars =>
    \/ []<>(shown = "LAUNCH")
    \/ <>[]WrongBuild
    \/ <>[](manifest # NoManifest /\ manifest.patches # <<>>)

\* Likewise, if the button comes to rest on offering patches, they all arrive and
\* stay, wherever an earlier installation stopped.
PatchesArrive ==
  <>[][ButtonStep]_vars =>
    (<>[](shown = "INSTALL PATCH") =>
       <>[](client # NoClient /\ manifest # NoManifest /\ Outstanding = {}))

----------------------------------------------------------------------------
(* What a document says and the code does not do.                            *)

\* "The button's label is the state. Never a PLAY button that is a lie. It reads
\* SELECT CLIENT, VERIFY, INSTALL PATCH, LAUNCH" (LAUNCHER-DESIGN): it asks for
\* patches when there are patches to install.
InstallMeansOutstanding ==
  shown = "INSTALL PATCH" /\ (\A f \in Flows : Idle(f)) /\ client # NoClient
    /\ manifest # NoManifest => Outstanding # {}
============================================================================
