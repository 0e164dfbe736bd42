--------------------------- MODULE LauncherProofs ---------------------------
(***************************************************************************)
(* Proofs about Launcher, for any clients, manifests, addresses and number *)
(* of flows, and whatever goes wrong: its types, that a report is always   *)
(* one of the chosen client, that the player's realmlist.wtf survives as   *)
(* long as no file is cut off while it is copied, and that only a client   *)
(* that is ready is started as long as settings are saved and left alone   *)
(* while the button is at work.                                            *)
(***************************************************************************)
EXTENDS Launcher, TLAPS

\* The parts of TypeOK that steps change together.
DiskOK ==
  /\ prefix \in Prefix
  /\ installed \in [Clients -> [Paths -> Versions \cup {Absent}]]
  /\ realmlist \in [Clients -> Addresses \cup {Own, Torn, Absent}]
  /\ backup \in [Clients -> Addresses \cup {Own, Torn, Absent}]

AppOK ==
  /\ saved \in Settings \cup {Unreadable}
  /\ settings \in Settings /\ form \in Settings
  /\ client \in Clients \cup {NoClient}
  /\ manifest \in Manifests \cup {NoManifest}
  /\ report \in Clients \cup {NoReport}

WindowOK ==
  /\ shown \in Labels
  /\ busy \in BOOLEAN
  /\ flow \in [Flows -> Steps]

SiteOK == published \in Manifests

LEMMA TypeParts == TypeOK <=> SiteOK /\ DiskOK /\ AppOK /\ WindowOK
BY DEF TypeOK, SiteOK, DiskOK, AppOK, WindowOK

LEMMA TypePartsNext == TypeOK' <=> SiteOK' /\ DiskOK' /\ AppOK' /\ WindowOK'
BY DEF TypeOK, SiteOK, DiskOK, AppOK, WindowOK

\* What the button says is one of the labels, before and after a step.
LEMMA ButtonIsALabel == Button \in Labels /\ Button' \in Labels
BY DEF Button, Labels

\* A flow goes on with a step.
LEMMA GotoTyped ==
  ASSUME WindowOK, NEW f, NEW step \in Steps, Goto(f, step), shown' \in Labels
  PROVE  WindowOK'
BY DEF WindowOK, Goto

\* A step that only moves flows and busy flags, and sets no label, keeps the
\* App's part; one that leaves the files alone keeps the disk's.
LEMMA AppUntouched ==
  ASSUME AppOK, UNCHANGED <<saved, app, form>>
  PROVE  AppOK'
BY DEF AppOK, app

LEMMA DiskUntouched ==
  ASSUME DiskOK, UNCHANGED <<prefix, installed, realmlist, backup>>
  PROVE  DiskOK'
BY DEF DiskOK

\* back_up_once copies a file to a place for files.
LEMMA BackedUpTyped ==
  ASSUME DiskOK, NEW c \in Clients
  PROVE  BackedUp(c) \in [Clients -> Addresses \cup {Own, Torn, Absent}]
BY DEF DiskOK, BackedUp

----------------------------------------------------------------------------
(* Types                                                                    *)

LEMMA ChooseClientTyped ==
  ASSUME TypeOK, NEW c \in Clients, NEW view, ChooseClient(c, view)
  PROVE  TypeOK'
<1>1. settings' \in Settings /\ client' \in Clients
  BY DEF ChooseClient, TypeOK, Settings
<1>2. saved' \in Settings \cup {Unreadable}
  BY <1>1 DEF ChooseClient, SaveOk, SaveFails, TypeOK
<1>3. shown' \in Labels /\ form' \in Settings
  BY <1>1, ButtonIsALabel DEF ChooseClient, TypeOK
<1>4. AppOK'
  BY <1>1, <1>2, <1>3, TypeParts DEF ChooseClient, AppOK
<1>5. WindowOK'
  BY <1>3, TypeParts DEF ChooseClient, Settle, WindowOK
<1>6. SiteOK' /\ DiskOK'
  BY DiskUntouched, TypeParts DEF ChooseClient, SiteOK, site
<1> QED
  BY <1>4, <1>5, <1>6, TypePartsNext

LEMMA SaveSettingsTyped ==
  ASSUME TypeOK, NEW a \in Addresses \cup {NoAddress}, SaveSettings(a)
  PROVE  TypeOK'
<1>1. form' \in Settings /\ settings' \in Settings
  BY DEF SaveSettings, TypeOK, Settings
<1>2. saved' \in Settings \cup {Unreadable}
  BY <1>1 DEF SaveSettings, SaveOk, SaveFails, TypeOK
<1>3. AppOK'
  BY <1>1, <1>2, TypeParts DEF SaveSettings, AppOK
<1>4. WindowOK'
  BY ButtonIsALabel, TypeParts DEF SaveSettings, Settle, WindowOK
<1>5. SiteOK' /\ DiskOK'
  BY DiskUntouched, TypeParts DEF SaveSettings, SiteOK, site
<1> QED
  BY <1>3, <1>4, <1>5, TypePartsNext

LEMMA SignInTyped ==
  ASSUME TypeOK, SignIn
  PROVE  TypeOK'
<1>1. AppOK'
  BY TypeParts DEF SignIn, SaveOk, SaveFails, AppOK, app
<1>2. WindowOK'
  BY ButtonIsALabel, TypeParts DEF SignIn, Settle, WindowOK
<1>3. SiteOK' /\ DiskOK'
  BY DiskUntouched, TypeParts DEF SignIn, SiteOK, site
<1> QED
  BY <1>1, <1>2, <1>3, TypePartsNext

LEMMA RefreshTyped ==
  ASSUME TypeOK, RefreshRealm \/ RefreshRealmFails
  PROVE  TypeOK'
<1>1. AppOK'
  BY TypeParts DEF RefreshRealm, RefreshRealmFails, AppOK, SiteOK, app, disk
<1>2. WindowOK'
  BY ButtonIsALabel, TypeParts DEF RefreshRealm, RefreshRealmFails, Settle, WindowOK
<1>3. SiteOK' /\ DiskOK'
  BY DiskUntouched, TypeParts DEF RefreshRealm, RefreshRealmFails, SiteOK, site, disk
<1> QED
  BY <1>1, <1>2, <1>3, TypePartsNext

LEMMA PressVerifyTyped ==
  ASSUME TypeOK, NEW f \in Flows, PressVerify(f)
  PROVE  TypeOK'
<1>1. AppOK'
  BY TypeParts DEF PressVerify, AppOK, disk
<1>2. WindowOK'
  <2>1. shown' \in Labels /\ Goto(f, "apply_then_status")
    BY TypeParts DEF PressVerify, WindowOK
  <2> QED
    BY <2>1, GotoTyped, TypeParts DEF Steps
<1>3. SiteOK' /\ DiskOK'
  BY DiskUntouched, TypeParts DEF PressVerify, SiteOK, site, disk
<1> QED
  BY <1>1, <1>2, <1>3, TypePartsNext

\* The steps of a flow that leave disk and App alone.
LEMMA QuietStepTyped ==
  ASSUME TypeOK, NEW f \in Flows,
         PressLaunch(f) \/ LaunchGame(f) \/ LaunchFails(f) \/ ReadStatus(f)
  PROVE  TypeOK'
<1>1. PICK step \in Steps : Goto(f, step)
  BY DEF PressLaunch, LaunchGame, LaunchFails, ReadStatus, Steps
<1>2. shown' \in Labels
  BY ButtonIsALabel, TypeParts DEF PressLaunch, LaunchGame, LaunchFails, ReadStatus, WindowOK
<1>3. UNCHANGED <<site, disk, app, form>>
  BY DEF PressLaunch, LaunchGame, LaunchFails, ReadStatus
<1>4. SiteOK' /\ DiskOK' /\ AppOK'
  BY <1>3, AppUntouched, DiskUntouched, TypeParts DEF site, disk, SiteOK
<1> QED
  BY <1>1, <1>2, <1>4, GotoTyped, TypeParts, TypePartsNext

\* apply_config, finished or stopped.
LEMMA ApplyTyped ==
  ASSUME TypeOK, NEW f \in Flows, ApplyConfig(f) \/ ApplyConfigStops(f), LauncherAssumption
  PROVE  TypeOK'
<1>1. client \in Clients /\ RealmAddress \in Addresses
  <2>1. client # NoClient /\ RealmAddress # NoAddress
    BY DEF ApplyConfig, ApplyConfigStops, Applying
  <2>2. RealmAddress \in Addresses \cup {NoAddress}
    BY DEF RealmAddress, TypeOK, Settings, LauncherAssumption
  <2> QED
    BY <2>1, <2>2 DEF TypeOK
<1>2. BackedUp(client) \in [Clients -> Addresses \cup {Own, Torn, Absent}]
  BY <1>1, BackedUpTyped, TypeParts
<1>3. DiskOK'
  <2>1. UNCHANGED <<prefix, installed>>
    BY DEF ApplyConfig, ApplyConfigStops
  <2>2. realmlist' \in [Clients -> Addresses \cup {Own, Torn, Absent}]
    BY <1>1 DEF ApplyConfig, ApplyConfigStops, TypeOK
  <2>3. backup' \in [Clients -> Addresses \cup {Own, Torn, Absent}]
    BY <1>1, <1>2 DEF ApplyConfig, ApplyConfigStops, TypeOK
  <2> QED
    BY <2>1, <2>2, <2>3, TypeParts DEF DiskOK
<1>4. SiteOK' /\ AppOK'
  BY AppUntouched, TypeParts DEF ApplyConfig, ApplyConfigStops, SiteOK, site
<1>5. PICK step \in Steps : Goto(f, step)
  BY DEF ApplyConfig, ApplyConfigStops, Steps
<1>6. shown' \in Labels
  BY TypeParts DEF ApplyConfig, ApplyConfigStops, WindowOK
<1> QED
  BY <1>3, <1>4, <1>5, <1>6, GotoTyped, TypeParts, TypePartsNext

LEMMA ProvisionTyped ==
  ASSUME TypeOK, NEW f \in Flows, NEW done \in 0..3, Provision(f, done), LauncherAssumption
  PROVE  TypeOK'
<1>1. prefix' \in Prefix
  BY DEF Provision, MissingDll, TypeOK, Prefix, LauncherAssumption
<1>2. DiskOK'
  BY <1>1, TypeParts DEF Provision, DiskOK
<1>3. SiteOK' /\ AppOK'
  BY AppUntouched, TypeParts DEF Provision, SiteOK, site
<1>4. PICK step \in Steps : Goto(f, step)
  BY DEF Provision, Steps
<1>5. shown' \in Labels
  BY TypeParts DEF Provision, WindowOK
<1> QED
  BY <1>2, <1>3, <1>4, <1>5, GotoTyped, TypeParts, TypePartsNext

LEMMA InstallPatchesTyped ==
  ASSUME TypeOK, NEW f \in Flows, NEW done \in Nat, InstallPatches(f, done), LauncherAssumption
  PROVE  TypeOK'
<1>1. manifest.patches \in Seq(Patch) /\ done <= Len(manifest.patches)
  BY DEF InstallPatches, TypeOK, LauncherAssumption
<1>2. FirstPatches(done) \subseteq Patch
  BY <1>1 DEF FirstPatches
<1>3. \A path \in Paths :
        (\E patch \in FirstPatches(done) : patch.path = path)
          => (CHOOSE patch \in FirstPatches(done) : patch.path = path).version \in Versions
  BY <1>2 DEF Patch
<1>4. installed' \in [Clients -> [Paths -> Versions \cup {Absent}]]
  <2>1. client \in Clients
    BY DEF InstallPatches, TypeOK
  <2>2. DEFINE now == [path \in Paths |->
                 IF \E patch \in FirstPatches(done) : patch.path = path
                   THEN (CHOOSE patch \in FirstPatches(done) : patch.path = path).version
                   ELSE installed[client][path]]
  <2>3. now \in [Paths -> Versions \cup {Absent}]
    BY <1>3, <2>1 DEF TypeOK
  <2>4. installed' = [installed EXCEPT ![client] = now]
    BY DEF InstallPatches
  <2> HIDE DEF now
  <2> QED
    BY <2>1, <2>3, <2>4 DEF TypeOK
<1>5. DiskOK'
  BY <1>4, TypeParts DEF InstallPatches, DiskOK
<1>6. SiteOK' /\ AppOK'
  BY AppUntouched, TypeParts DEF InstallPatches, SiteOK, site
<1>7. PICK step \in Steps : Goto(f, step)
  BY DEF InstallPatches, Steps
<1>8. shown' \in Labels
  BY TypeParts DEF InstallPatches, WindowOK
<1> QED
  BY <1>5, <1>6, <1>7, <1>8, GotoTyped, TypeParts, TypePartsNext

LEMMA RestartTyped ==
  ASSUME TypeOK, Restart
  PROVE  TypeOK'
<1>1. PICK s \in Settings : Start(s)
  BY DEF Restart, TypeOK, Settings, Defaults
<1>2. AppOK'
  BY <1>1, TypeParts DEF Restart, Start, AppOK, Settings, disk
<1>3. WindowOK'
  BY <1>1, ButtonIsALabel DEF Restart, Start, WindowOK, Steps
<1>4. SiteOK' /\ DiskOK'
  BY DiskUntouched, TypeParts DEF Restart, SiteOK, site, disk
<1> QED
  BY <1>2, <1>3, <1>4, TypePartsNext

LEMMA PatchStepsAreNumbers ==
  ASSUME LauncherAssumption PROVE PatchSteps \subseteq Nat
BY DEF PatchSteps, LauncherAssumption

LEMMA TypeKept ==
  ASSUME TypeOK, LauncherAssumption, [Next]_vars
  PROVE  TypeOK'
<1>1. ASSUME ButtonStep PROVE TypeOK'
  <2>1. CASE \E c \in Clients : ChooseClient(c, "button")
    BY <2>1, ChooseClientTyped
  <2>2. CASE RetryRealm
    BY <2>2, RefreshTyped DEF RetryRealm
  <2>3. ASSUME NEW f \in Flows, PressVerify(f) PROVE TypeOK'
    BY <2>3, PressVerifyTyped
  <2>4. ASSUME NEW f \in Flows,
               PressLaunch(f) \/ LaunchGame(f) \/ LaunchFails(f) \/ ReadStatus(f)
        PROVE TypeOK'
    BY <2>4, QuietStepTyped
  <2>5. ASSUME NEW f \in Flows, ApplyConfig(f) \/ ApplyConfigStops(f) PROVE TypeOK'
    BY <2>5, ApplyTyped
  <2>6. ASSUME NEW f \in Flows, NEW done \in 0..3, Provision(f, done) PROVE TypeOK'
    BY <2>6, ProvisionTyped
  <2>7. ASSUME NEW f \in Flows, NEW done \in PatchSteps, InstallPatches(f, done) PROVE TypeOK'
    BY <2>7, InstallPatchesTyped, PatchStepsAreNumbers
  <2> QED
    BY <1>1, <2>1, <2>2, <2>3, <2>4, <2>5, <2>6, <2>7 DEF ButtonStep
<1>2. ASSUME NEW c \in Clients, ChooseClient(c, "settings") PROVE TypeOK'
  BY <1>2, ChooseClientTyped
<1>3. ASSUME NEW a \in Addresses \cup {NoAddress}, SaveSettings(a) PROVE TypeOK'
  BY <1>3, SaveSettingsTyped
<1>4. ASSUME NEW m \in Manifests, Publish(m) PROVE TypeOK'
  BY <1>4 DEF Publish, TypeOK, disk, app, window
<1>5. CASE Restart
  BY <1>5, RestartTyped
<1>6. CASE UNCHANGED vars
  BY <1>6 DEF vars, site, disk, app, window, TypeOK
<1>7. CASE SignIn
  BY <1>7, SignInTyped
<1>8. CASE RefreshRealm \/ RefreshRealmFails
  BY <1>8, RefreshTyped
<1> QED
  BY <1>1, <1>2, <1>3, <1>4, <1>5, <1>6, <1>7, <1>8 DEF Next

LEMMA TypeInit ==
  ASSUME Init, LauncherAssumption PROVE TypeOK
BY ButtonIsALabel DEF Init, TypeOK, Settings, Defaults, Prefix, Steps

\* Disk, App and window always have the shape the code gives them.
THEOREM LauncherTypeCorrect == Spec => []TypeOK
<1>1. Init => TypeOK
  BY TypeInit, LauncherAssumption
<1>2. TypeOK /\ [Next]_vars => TypeOK'
  BY TypeKept, LauncherAssumption
<1> QED
  BY <1>1, <1>2, PTL DEF Spec

----------------------------------------------------------------------------
(* Reports                                                                  *)

LEMMA ReportKept ==
  ASSUME TypeOK, ReportOfThisClient, LauncherAssumption, [Next]_vars
  PROVE  ReportOfThisClient'
<1>1. ASSUME UNCHANGED <<client, report>>, manifest # NoManifest => manifest' # NoManifest
      PROVE ReportOfThisClient'
  BY <1>1 DEF ReportOfThisClient
<1>2. ASSUME report' = NoReport PROVE ReportOfThisClient'
  BY <1>2 DEF ReportOfThisClient
<1>3. CASE RefreshRealm
  BY <1>1, <1>3 DEF RefreshRealm, TypeOK, LauncherAssumption
<1>4. CASE RefreshRealmFails
  BY <1>1, <1>4 DEF RefreshRealmFails, app
<1>5. CASE SignIn
  BY <1>1, <1>5 DEF SignIn, app
<1>6. ASSUME ButtonStep PROVE ReportOfThisClient'
  <2>1. ASSUME NEW c \in Clients, ChooseClient(c, "button") PROVE report' = NoReport
    BY <2>1 DEF ChooseClient
  <2>2. CASE RetryRealm
    BY <1>3, <1>4, <2>2 DEF RetryRealm
  <2>3. ASSUME NEW f \in Flows, PressVerify(f) PROVE ReportOfThisClient'
    BY <2>3 DEF PressVerify, ReportOfThisClient
  <2>4. ASSUME NEW f \in Flows,
               \/ PressLaunch(f) \/ LaunchGame(f) \/ LaunchFails(f) \/ ReadStatus(f)
               \/ ApplyConfig(f) \/ ApplyConfigStops(f)
        PROVE UNCHANGED app
    BY <2>4 DEF PressLaunch, LaunchGame, LaunchFails, ReadStatus, ApplyConfig, ApplyConfigStops
  <2>5. ASSUME NEW f \in Flows, NEW done, Provision(f, done) \/ InstallPatches(f, done)
        PROVE UNCHANGED app
    BY <2>5 DEF Provision, InstallPatches
  <2>6. UNCHANGED app => ReportOfThisClient'
    BY <1>1 DEF app
  <2> QED
    BY <1>2, <1>6, <2>1, <2>2, <2>3, <2>4, <2>5, <2>6 DEF ButtonStep
<1>7. ASSUME NEW c \in Clients, ChooseClient(c, "settings") PROVE ReportOfThisClient'
  BY <1>2, <1>7 DEF ChooseClient
<1>8. ASSUME NEW a \in Addresses \cup {NoAddress}, SaveSettings(a) PROVE ReportOfThisClient'
  BY <1>1, <1>8 DEF SaveSettings
<1>9. ASSUME NEW m \in Manifests, Publish(m) PROVE ReportOfThisClient'
  BY <1>1, <1>9 DEF Publish, app
<1>10. CASE Restart
  BY <1>2, <1>10 DEF Restart, Start
<1>11. CASE UNCHANGED vars
  BY <1>1, <1>11 DEF vars, app
<1> QED
  BY <1>3, <1>4, <1>5, <1>6, <1>7, <1>8, <1>9, <1>10, <1>11 DEF Next

\* However flows and settings mix, a report is one of the chosen client, made
\* against a manifest.
THEOREM ReportsFollowTheClient == Spec => []ReportOfThisClient
<1>1. Init => TypeOK /\ ReportOfThisClient
  BY TypeInit, LauncherAssumption DEF Init, ReportOfThisClient
<1>2. TypeOK /\ ReportOfThisClient /\ [Next]_vars => (TypeOK /\ ReportOfThisClient)'
  BY TypeKept, ReportKept, LauncherAssumption
<1> QED
  BY <1>1, <1>2, PTL DEF Spec

----------------------------------------------------------------------------
(* The player's realmlist.wtf                                               *)

\* Either nothing was touched yet or the backup is the player's file: the
\* backup is made before the first write and never again.
Untouched(c) == backup[c] = Absent /\ realmlist[c] = Own
Kept(c) == backup[c] = Own
OriginalInv == \A c \in Clients \ Fresh : Untouched(c) \/ Kept(c)

LEMMA OriginalKeptByBackup ==
  ASSUME TypeOK, OriginalInv, LauncherAssumption, client \in Clients,
         backup' \in {backup, BackedUp(client)},
         realmlist' # realmlist => backup' = BackedUp(client),
         \A c \in Clients \ {client} : realmlist'[c] = realmlist[c]
  PROVE  OriginalInv'
<1> SUFFICES ASSUME NEW c \in Clients \ Fresh PROVE (Untouched(c) \/ Kept(c))'
  BY DEF OriginalInv
<1>1. Untouched(c) \/ Kept(c)
  BY DEF OriginalInv
<1>2. CASE Kept(c)
  <2>1. BackedUp(client)[c] = Own
    BY <1>2 DEF Kept, BackedUp, TypeOK, LauncherAssumption
  <2> QED
    BY <1>2, <2>1 DEF Kept
<1>3. CASE Untouched(c) /\ c # client
  <2>1. BackedUp(client)[c] = backup[c]
    BY <1>3 DEF BackedUp, TypeOK
  <2> QED
    BY <1>3, <2>1 DEF Untouched
<1>4. CASE Untouched(c) /\ c = client
  <2>1. BackedUp(client)[c] = Own
    BY <1>4 DEF Untouched, BackedUp, TypeOK, LauncherAssumption
  <2> QED
    BY <1>4, <2>1 DEF Untouched, Kept
<1> QED
  BY <1>1, <1>2, <1>3, <1>4

LEMMA OriginalKept ==
  ASSUME TypeOK, OriginalInv, LauncherAssumption, "cut" \notin Mishaps, [Next]_vars
  PROVE  OriginalInv'
<1>1. ASSUME UNCHANGED <<realmlist, backup>> PROVE OriginalInv'
  BY <1>1 DEF OriginalInv, Untouched, Kept
<1>2. ASSUME NEW f \in Flows, ApplyConfig(f) \/ ApplyConfigStops(f) PROVE OriginalInv'
  <2>1. client \in Clients
    BY <1>2 DEF ApplyConfig, ApplyConfigStops, Applying, TypeOK
  <2>2. backup' \in {backup, BackedUp(client)} /\ (realmlist' # realmlist => backup' = BackedUp(client))
    BY <1>2 DEF ApplyConfig, ApplyConfigStops
  <2>3. \A c \in Clients \ {client} : realmlist'[c] = realmlist[c]
    BY <1>2 DEF ApplyConfig, ApplyConfigStops, TypeOK
  <2> QED
    BY <2>1, <2>2, <2>3, OriginalKeptByBackup
<1>3. ASSUME ButtonStep, \A f \in Flows : ~(ApplyConfig(f) \/ ApplyConfigStops(f))
      PROVE UNCHANGED <<realmlist, backup>>
  <2>1. ASSUME NEW c \in Clients, ChooseClient(c, "button") PROVE UNCHANGED <<realmlist, backup>>
    BY <2>1 DEF ChooseClient
  <2>2. ASSUME RetryRealm PROVE UNCHANGED <<realmlist, backup>>
    BY <2>2 DEF RetryRealm, RefreshRealm, RefreshRealmFails, disk
  <2>3. ASSUME NEW f \in Flows,
               PressVerify(f) \/ PressLaunch(f) \/ LaunchGame(f) \/ LaunchFails(f) \/ ReadStatus(f)
        PROVE UNCHANGED <<realmlist, backup>>
    BY <2>3 DEF PressVerify, PressLaunch, LaunchGame, LaunchFails, ReadStatus, disk
  <2>4. ASSUME NEW f \in Flows, NEW done, Provision(f, done) \/ InstallPatches(f, done)
        PROVE UNCHANGED <<realmlist, backup>>
    BY <2>4 DEF Provision, InstallPatches
  <2> QED
    BY <1>3, <2>1, <2>2, <2>3, <2>4 DEF ButtonStep
<1>4. ASSUME NEW c \in Clients, ChooseClient(c, "settings") PROVE OriginalInv'
  BY <1>4, <1>1 DEF ChooseClient
<1>5. ASSUME NEW a \in Addresses \cup {NoAddress}, SaveSettings(a) PROVE OriginalInv'
  BY <1>5, <1>1 DEF SaveSettings
<1>6. ASSUME (\E m \in Manifests : Publish(m)) \/ Restart PROVE OriginalInv'
  BY <1>6, <1>1 DEF Publish, Restart, disk
<1>7. CASE UNCHANGED vars
  BY <1>7, <1>1 DEF vars, disk
<1>8. ASSUME SignIn \/ RefreshRealm \/ RefreshRealmFails PROVE OriginalInv'
  BY <1>8, <1>1 DEF SignIn, RefreshRealm, RefreshRealmFails, disk
<1> QED
  BY <1>1, <1>2, <1>3, <1>4, <1>5, <1>6, <1>7, <1>8 DEF Next

\* As long as no file is cut off in the middle, the realmlist.wtf the player had
\* is in its place or in the backup, wherever the launcher is killed.
THEOREM OriginalSurvives ==
  ASSUME "cut" \notin Mishaps
  PROVE  Spec => []OriginalNotLost
<1>1. Init => TypeOK /\ OriginalInv
  <2>1. Init => OriginalInv
    BY DEF Init, OriginalInv, Untouched
  <2> QED
    BY <2>1, TypeInit, LauncherAssumption
<1>2. TypeOK /\ OriginalInv /\ [Next]_vars => (TypeOK /\ OriginalInv)'
  BY TypeKept, OriginalKept, LauncherAssumption
<1>3. OriginalInv => OriginalNotLost
  BY DEF OriginalInv, Untouched, Kept, OriginalNotLost
<1> QED
  BY <1>1, <1>2, <1>3, PTL DEF Spec
----------------------------------------------------------------------------
(* What is launched                                                         *)

\* What LaunchedReady asks of the state, but for the realmlist.wtf.
Ready == ~Blocked /\ RuntimeReady /\ report = client

\* Settings are saved, so the window's label follows the App.
Saved == {"save", "cut"} \cap Mishaps = {}

\* One press is at work at a time: because there is room for no other, or because
\* the window is busy with it and nobody clears its flag.
OneAtATime == "meddle" \notin Mishaps \/ \A f, g \in Flows : f = g

OneFlow ==
  /\ \A f, g \in Flows : flow[f] # "idle" /\ flow[g] # "idle" => f = g
  /\ "meddle" \notin Mishaps => \A f \in Flows : flow[f] # "idle" => busy

\* The label LAUNCH is only seen in a state that is ready; a flow that is about to
\* launch has written the realmlist.wtf of the client, unless another one was
\* chosen since, which then is unverified.
LaunchInv ==
  /\ OneFlow
  /\ shown = "LAUNCH" => Ready
  /\ \A f \in Flows : flow[f] = "launch" /\ report # NoReport => realmlist[client] \in Addresses

\* What the button reads when it reads LAUNCH, before and after a step.
LEMMA LaunchMeansReady == ReportOfThisClient /\ Button = "LAUNCH" => Ready
BY DEF ReportOfThisClient, Button, Ready, Blocked

LEMMA LaunchMeansReadyNext == ReportOfThisClient' /\ Button' = "LAUNCH" => Ready'
BY DEF ReportOfThisClient, Button, Ready, Blocked

LEMMA ReadyKept ==
  ASSUME Ready, UNCHANGED <<app, prefix>> PROVE Ready'
BY DEF Ready, Blocked, WrongBuild, RealmAddress, RuntimeReady, app

\* The settings, the realm and the client leave the flows and the realmlist.wtf
\* alone and read the button anew; they clear the busy flag, which only somebody
\* who meddles finds set.
LEMMA SettingsKeepLaunch ==
  ASSUME LaunchInv, ReportOfThisClient', Saved,
         \/ \E c \in Clients, view \in {"button", "settings"} : ChooseClient(c, view)
         \/ \E a \in Addresses \cup {NoAddress} : SaveSettings(a)
         \/ SignIn \/ RefreshRealm \/ RefreshRealmFails
  PROVE  LaunchInv'
<1>1. ~SaveFails
  BY DEF SaveFails, Saved
<1>2. /\ flow' = flow /\ realmlist' = realmlist
      /\ MayUseSettings \/ ~busy
      /\ shown' = Button' \/ (shown' = shown /\ UNCHANGED <<app, prefix>>)
      /\ (client' = client /\ report' = report) \/ report' = NoReport
  <2>1. CASE \E c \in Clients, view \in {"button", "settings"} : ChooseClient(c, view)
    BY <1>1, <2>1 DEF ChooseClient
  <2>2. CASE \E a \in Addresses \cup {NoAddress} : SaveSettings(a)
    BY <1>1, <2>2 DEF SaveSettings
  <2>3. CASE SignIn
    <3>1. UNCHANGED <<app, prefix>>
      BY <2>3 DEF SignIn
    <3>2. Button' = Button
      BY <3>1, <2>3 DEF SignIn, app, Button, Blocked, WrongBuild, RealmAddress, RuntimeReady
    <3> QED
      BY <3>1, <3>2, <2>3 DEF SignIn, app
  <2>4. CASE RefreshRealm
    BY <2>4 DEF RefreshRealm, disk
  <2>5. CASE RefreshRealmFails
    <3>1. Button' = Button
      BY <2>5 DEF RefreshRealmFails, app, disk, Button, Blocked, WrongBuild, RealmAddress,
                 RuntimeReady
    <3> QED
      BY <3>1, <2>5 DEF RefreshRealmFails, app, disk
  <2> QED
    BY <2>1, <2>2, <2>3, <2>4, <2>5
<1>3. OneFlow'
  BY <1>2 DEF LaunchInv, OneFlow, MayUseSettings, Idle
<1>4. shown' = "LAUNCH" => Ready'
  BY <1>2, LaunchMeansReadyNext, ReadyKept DEF LaunchInv
<1> QED
  BY <1>2, <1>3, <1>4 DEF LaunchInv

\* A press finds the other flows idle, a flow that goes on has them idle already.
LEMMA FlowGoesOn ==
  ASSUME LaunchInv, TypeOK, OneAtATime, NEW f \in Flows, NEW step \in Steps, Goto(f, step),
         flow[f] # "idle" \/ (~busy /\ Idle(f))
  PROVE  /\ OneFlow' /\ flow'[f] = step
         /\ \A g \in Flows \ {f} : flow[g] = "idle" /\ flow'[g] = "idle"
<1>1. flow' = [flow EXCEPT ![f] = step] /\ busy' = (step # "idle") /\ flow \in [Flows -> Steps]
  BY DEF Goto, TypeOK
<1>2. \A g \in Flows \ {f} : flow[g] = "idle"
  <2>1. CASE flow[f] # "idle"
    BY <2>1 DEF LaunchInv, OneFlow
  <2>2. CASE ~busy /\ "meddle" \notin Mishaps
    BY <2>2 DEF LaunchInv, OneFlow
  <2>3. CASE \A h, g \in Flows : h = g
    BY <2>3
  <2> QED
    BY <2>1, <2>2, <2>3 DEF OneAtATime
<1>3. flow'[f] = step /\ \A g \in Flows \ {f} : flow'[g] = "idle"
  BY <1>1, <1>2
<1>4. \A g, h \in Flows : flow'[g] # "idle" /\ flow'[h] # "idle" => g = h
  BY <1>3
<1>5. \A g \in Flows : flow'[g] # "idle" => busy'
  BY <1>1, <1>3
<1> QED
  BY <1>2, <1>3, <1>4, <1>5 DEF OneFlow

LEMMA FlowKeepsLaunch ==
  ASSUME LaunchInv, TypeOK, OneAtATime, NEW f \in Flows, NEW step \in Steps, Goto(f, step),
         flow[f] # "idle" \/ (~busy /\ Idle(f)),
         step = "launch" => realmlist'[client'] \in Addresses,
         shown' = "LAUNCH" => Ready'
  PROVE  LaunchInv'
<1>1. /\ OneFlow' /\ flow'[f] = step
      /\ \A g \in Flows \ {f} : flow'[g] = "idle"
  BY FlowGoesOn
<1>2. \A g \in Flows : flow'[g] = "launch" => (realmlist[client] \in Addresses)'
  BY <1>1
<1> QED
  BY <1>1, <1>2 DEF LaunchInv

LEMMA ButtonKeepsLaunch ==
  ASSUME LaunchInv, TypeOK, ReportOfThisClient, OneAtATime, NEW f \in Flows,
         \/ PressVerify(f) \/ PressLaunch(f) \/ ApplyConfig(f) \/ ApplyConfigStops(f)
         \/ LaunchGame(f) \/ LaunchFails(f) \/ ReadStatus(f)
         \/ \E done \in 0..3 : Provision(f, done)
         \/ \E done \in PatchSteps : InstallPatches(f, done)
  PROVE  LaunchInv'
<1>1. "idle" \in Steps /\ "status" \in Steps /\ "launch" \in Steps
      /\ "apply_then_status" \in Steps /\ "apply_then_launch" \in Steps
  BY DEF Steps
<1>2. shown = "LAUNCH" => Ready
  BY DEF LaunchInv
<1>3. CASE PressVerify(f)
  <2>1. Goto(f, "apply_then_status") /\ ~busy /\ Idle(f) /\ shown' # "LAUNCH"
    BY <1>3 DEF PressVerify, Press
  <2> QED
    BY <1>1, <2>1, FlowKeepsLaunch
<1>4. CASE PressLaunch(f)
  <2>1. /\ Goto(f, "apply_then_launch") /\ ~busy /\ Idle(f) /\ shown = "LAUNCH"
        /\ UNCHANGED <<app, prefix>>
    BY <1>4 DEF PressLaunch, Press, disk
  <2>2. Ready'
    BY <1>2, <2>1, ReadyKept
  <2> QED
    BY <1>1, <2>1, <2>2, FlowKeepsLaunch
<1>5. CASE ApplyConfig(f)
  <2>1. /\ flow[f] # "idle" /\ shown' = shown /\ UNCHANGED <<app, prefix>> /\ client \in Clients
        /\ (Goto(f, "launch") \/ Goto(f, "status"))
    BY <1>5 DEF ApplyConfig, Applying, TypeOK
  <2>2. RealmAddress \in Addresses
    BY <1>5, LauncherAssumption DEF ApplyConfig, Applying, RealmAddress, TypeOK, Settings
  <2>3. realmlist'[client'] \in Addresses
    BY <1>5, <2>1, <2>2 DEF ApplyConfig, app, TypeOK
  <2>4. shown' = "LAUNCH" => Ready'
    BY <1>2, <2>1, ReadyKept
  <2> QED
    BY <1>1, <2>1, <2>3, <2>4, FlowKeepsLaunch
<1>6. CASE \/ ApplyConfigStops(f) \/ LaunchGame(f) \/ LaunchFails(f)
  <2>1. flow[f] # "idle" /\ (Goto(f, "idle") \/ Goto(f, "status")) /\ shown' = shown
        /\ UNCHANGED <<app, prefix>>
    BY <1>6 DEF ApplyConfigStops, Applying, LaunchGame, LaunchFails, disk
  <2>2. shown' = "LAUNCH" => Ready'
    BY <1>2, <2>1, ReadyKept
  <2> QED
    BY <1>1, <2>1, <2>2, FlowKeepsLaunch
<1>7. CASE ReadStatus(f)
  <2>1. flow[f] # "idle" /\ Goto(f, "idle") /\ shown' = Button /\ UNCHANGED <<app, prefix>>
    BY <1>7 DEF ReadStatus, disk
  <2>2. shown' = "LAUNCH" => Ready'
    BY <2>1, LaunchMeansReady, ReadyKept
  <2> QED
    BY <1>1, <2>1, <2>2, FlowKeepsLaunch
<1>8. CASE \E done \in 0..3 : Provision(f, done)
  <2>1. ~busy /\ Idle(f) /\ (Goto(f, "idle") \/ Goto(f, "status")) /\ shown' # "LAUNCH"
    BY <1>8 DEF Provision, Press
  <2> QED
    BY <1>1, <2>1, FlowKeepsLaunch
<1>9. CASE \E done \in PatchSteps : InstallPatches(f, done)
  <2>1. ~busy /\ Idle(f) /\ (Goto(f, "idle") \/ Goto(f, "status")) /\ shown' # "LAUNCH"
    BY <1>9 DEF InstallPatches, Press
  <2> QED
    BY <1>1, <2>1, FlowKeepsLaunch
<1> QED
  BY <1>3, <1>4, <1>5, <1>6, <1>7, <1>8, <1>9

LEMMA LaunchKept ==
  ASSUME LaunchInv, TypeOK, ReportOfThisClient, ReportOfThisClient', Saved, OneAtATime,
         [Next]_vars
  PROVE  LaunchInv'
<1>1. CASE \/ \E c \in Clients, view \in {"button", "settings"} : ChooseClient(c, view)
           \/ \E a \in Addresses \cup {NoAddress} : SaveSettings(a)
           \/ SignIn \/ RefreshRealm \/ RefreshRealmFails
  BY <1>1, SettingsKeepLaunch
<1>2. ASSUME ButtonStep PROVE LaunchInv'
  <2>1. CASE \E c \in Clients : ChooseClient(c, "button")
    BY <1>1, <2>1
  <2>2. CASE RetryRealm
    BY <1>1, <2>2 DEF RetryRealm
  <2>3. ASSUME NEW f \in Flows,
               \/ PressVerify(f) \/ PressLaunch(f) \/ ApplyConfig(f) \/ ApplyConfigStops(f)
               \/ LaunchGame(f) \/ LaunchFails(f) \/ ReadStatus(f)
               \/ \E done \in 0..3 : Provision(f, done)
               \/ \E done \in PatchSteps : InstallPatches(f, done)
        PROVE LaunchInv'
    BY <2>3, ButtonKeepsLaunch
  <2> QED
    BY <1>2, <2>1, <2>2, <2>3 DEF ButtonStep
<1>3. ASSUME NEW m \in Manifests, Publish(m) PROVE LaunchInv'
  BY <1>3 DEF Publish, disk, app, window, LaunchInv, OneFlow, Ready, Blocked,
             WrongBuild, RealmAddress, RuntimeReady
<1>4. CASE Restart
  <2>1. shown' = Button' /\ \A f \in Flows : flow'[f] = "idle"
    BY <1>4 DEF Restart, Start
  <2>2. Ready' \/ shown' # "LAUNCH"
    BY <2>1, LaunchMeansReadyNext
  <2> QED
    BY <2>1, <2>2 DEF LaunchInv, OneFlow
<1>5. CASE UNCHANGED vars
  BY <1>5 DEF vars, disk, app, window, LaunchInv, OneFlow, Ready, Blocked,
             WrongBuild, RealmAddress, RuntimeReady
<1> QED
  BY <1>1, <1>2, <1>3, <1>4, <1>5 DEF Next

\* Whatever the launcher dies of, fails at or is published meanwhile: as long as
\* settings are saved and presses do not overlap, what starts under the label
\* LAUNCH is a verified client of the right build whose realmlist.wtf names a
\* realm, with the files of its runtime in place, though the player uses the
\* settings while the button is at work. Whether the overrides of that runtime
\* were ever written it does not say (app.rs:345).
THEOREM OnlyWhatIsReadyIsLaunched ==
  ASSUME Saved, OneAtATime
  PROVE  Spec => LaunchedReady
<1> DEFINE Inv == TypeOK /\ ReportOfThisClient /\ LaunchInv
<1>1. Init => Inv
  <2>1. ASSUME Init PROVE LaunchInv
    BY <2>1 DEF Init, Defaults, Button, LaunchInv, OneFlow
  <2> QED
    BY <2>1, TypeInit, LauncherAssumption DEF Init, ReportOfThisClient
<1>2. Inv /\ [Next]_vars => Inv'
  BY TypeKept, ReportKept, LaunchKept, LauncherAssumption
<1>3. Inv => \A f \in Flows : LaunchGame(f) /\ shown = "LAUNCH" =>
               /\ ~Blocked /\ RuntimeReady
               /\ report = client
               /\ realmlist[client] \in Addresses
  BY LauncherAssumption DEF LaunchInv, Ready, LaunchGame, TypeOK
<1> QED
  BY <1>1, <1>2, <1>3, PTL DEF Spec, LaunchedReady
=============================================================================
