------------------------- MODULE StaffActionsProofs -------------------------
(***************************************************************************)
(* Proofs about StaffActions, for any accounts, characters, levels and     *)
(* number of requests.                                                     *)
(***************************************************************************)
EXTENDS StaffActions, TLAPS

WorkOf(action) == Actions[action].work

\* What the table of actions says of the statements of an action: how many there
\* are, that the console comes last, what kind of thing each statement writes,
\* and that an action counted as one of a database begins with its write.
Writes == {"ban", "unban", "password", "gmlevel", "mute", "lock", "atLogin", "motd",
           "maintenance", "editNode", "editTree"}
OnAccounts == {"ban", "unban", "password", "gmlevel", "mute", "lock", "revoke"}
OnCharacters == {"assertOffline", "edit", "atLogin"}

LEMMA WorkTable ==
  ASSUME NEW a \in DOMAIN Actions, NEW i \in 1..Len(WorkOf(a))
  PROVE  /\ Len(WorkOf(a)) \in 1..3
         /\ WorkOf(a)[i] \in ConsoleCommands => i = Len(WorkOf(a))
         /\ WorkOf(a)[i] \in OnAccounts => Actions[a].on = "account"
         /\ WorkOf(a)[i] \in OnCharacters => Actions[a].on = "character"
         /\ WorkOf(a)[i] = "gmlevel" => a = "gmlevel"
         /\ a \in InDatabase => (WorkOf(a)[i] \in Writes <=> i = 1)
<1> USE DEF Writes, OnAccounts, OnCharacters, InDatabase, ConsoleCommands
<1>1. CASE a = "ban"
  <2>1. WorkOf(a) = <<"ban", "revoke", "kickAccount">> /\ Actions[a].on = "account"
    BY <1>1 DEF Actions, WorkOf, Handler, BanAction
  <2>2. Len(WorkOf(a)) = 3 /\ i \in {1, 2, 3} /\ Actions[a].on = "account"
    BY <2>1
  <2>3. WorkOf(a)[1] = "ban" /\ WorkOf(a)[2] = "revoke" /\ WorkOf(a)[3] = "kickAccount"
    BY <2>1
  <2> QED
    BY <1>1, <2>2, <2>3
<1>2. CASE a = "unban" BY <1>2 DEF Actions, WorkOf, Handler, UnbanAction
<1>3. CASE a = "password" BY <1>3 DEF Actions, WorkOf, Handler, ResetPasswordAction
<1>4. CASE a = "gmlevel" BY <1>4 DEF Actions, WorkOf, Handler, SetGmLevelAction
<1>5. CASE a = "mute" BY <1>5 DEF Actions, WorkOf, Handler, MuteAction
<1>6. CASE a = "lock" BY <1>6 DEF Actions, WorkOf, Handler, LockAction
<1>7. CASE a = "edit" BY <1>7 DEF Actions, WorkOf, Handler, EditCharacterAction
<1>8. CASE a = "kick"
  <2>1. WorkOf(a) = <<"kick">> /\ Actions[a].on = "character"
    BY <1>8 DEF Actions, WorkOf, Handler, KickAction
  <2>2. Len(WorkOf(a)) = 1 /\ i \in {1} /\ Actions[a].on = "character"
    BY <2>1
  <2>3. WorkOf(a)[1] = "kick"
    BY <2>1
  <2> QED
    BY <1>8, <2>2, <2>3
<1>9. CASE a = "revive" BY <1>9 DEF Actions, WorkOf, Handler, ReviveAction
<1>10. CASE a = "teleport"
  <2>1. WorkOf(a) = <<"destination", "teleport">> /\ Actions[a].on = "character"
    BY <1>10 DEF Actions, WorkOf, Handler, TeleportAction
  <2>2. Len(WorkOf(a)) = 2 /\ i \in {1, 2} /\ Actions[a].on = "character"
    BY <2>1
  <2>3. WorkOf(a)[1] = "destination" /\ WorkOf(a)[2] = "teleport"
    BY <2>1
  <2> QED
    BY <1>10, <2>2, <2>3
<1>11. CASE a = "atLogin" BY <1>11 DEF Actions, WorkOf, Handler, QueueAtLoginAction
<1>12. CASE a = "motd"
  <2>1. WorkOf(a) = <<"motd", "motdLive">> /\ Actions[a].on = "realm"
    BY <1>12 DEF Actions, WorkOf, Handler, MotdAction
  <2>2. Len(WorkOf(a)) = 2 /\ i \in {1, 2} /\ Actions[a].on = "realm"
    BY <2>1
  <2>3. WorkOf(a)[1] = "motd" /\ WorkOf(a)[2] = "motdLive"
    BY <2>1
  <2>4. CASE i = 1 BY <1>12, <2>2, <2>3, <2>4
  <2>5. CASE i = 2 BY <1>12, <2>2, <2>3, <2>5
  <2> QED
    BY <2>2, <2>4, <2>5
<1>13. CASE a = "maintenance" BY <1>13 DEF Actions, WorkOf, Handler, MaintenanceAction
<1>14. CASE a = "announce"
  <2>1. WorkOf(a) = <<"announce">> /\ Actions[a].on = "realm"
    BY <1>14 DEF Actions, WorkOf, Handler, AnnounceAction
  <2>2. Len(WorkOf(a)) = 1 /\ i \in {1} /\ Actions[a].on = "realm"
    BY <2>1
  <2>3. WorkOf(a)[1] = "announce"
    BY <2>1
  <2> QED
    BY <1>14, <2>2, <2>3
<1>15. CASE a = "editNode" BY <1>15 DEF Actions, WorkOf, Handler, EditNodeAction
<1>16. CASE a = "editTree" BY <1>16 DEF Actions, WorkOf, Handler, EditTreeAction
<1>17. CASE a = "reload"
  <2>1. WorkOf(a) = <<"reloadTrees">> /\ Actions[a].on = "realm"
    BY <1>17 DEF Actions, WorkOf, Handler, ReloadAction
  <2>2. Len(WorkOf(a)) = 1 /\ i \in {1} /\ Actions[a].on = "realm"
    BY <2>1
  <2>3. WorkOf(a)[1] = "reloadTrees"
    BY <2>1
  <2> QED
    BY <1>17, <2>2, <2>3
<1> QED
  BY <1>1, <1>2, <1>3, <1>4, <1>5, <1>6, <1>7, <1>8, <1>9, <1>10, <1>11, <1>12, <1>13, <1>14, <1>15, <1>16, <1>17 DEF Actions

LEMMA WorkLength ==
  ASSUME NEW a \in DOMAIN Actions
  PROVE  Len(WorkOf(a)) \in 1..3
BY DEF Actions, WorkOf, Handler, BanAction, UnbanAction, ResetPasswordAction, SetGmLevelAction,
  MuteAction, LockAction, EditCharacterAction, KickAction, ReviveAction, TeleportAction,
  QueueAtLoginAction, MotdAction, MaintenanceAction, AnnounceAction, EditNodeAction,
  EditTreeAction, ReloadAction

-----------------------------------------------------------------------------
(* Types *)

\* A request under way is one of the panel's actions, has an actor and a target,
\* and is at one of its statements while it works.
Consistent(q) ==
  q.step \notin {"new", "ended"} =>
    /\ q.action \in DOMAIN Actions
    /\ q.by \in Account /\ q.target \in Targets(q.action)
    /\ q.outcome # "lost"
    /\ q.step \in {"admitted", "authorised"} => q.pc = 1
    /\ q.step = "working" => q.pc \in 1..Len(WorkOf(q.action))

AccountOK ==
  account \in [Account -> [level : Level, cred : 0..MaxCred,
                           bans : SUBSET Request, locked : BOOLEAN, muted : BOOLEAN]]
SessionOK == session \in [Account -> [live : BOOLEAN, cred : 0..MaxCred]]
RowOK == row \in [Character -> [edits : SUBSET Request, atLogin : BOOLEAN, online : BOOLEAN]]
RealmOK ==
  /\ realm \in [allowed : Level, motd : Request \cup {Nobody}, trees : SUBSET Request]
  /\ world \in [up : BOOLEAN, copy : [Character -> SUBSET Request],
                motd : Request \cup {Nobody}, trees : SUBSET realm.trees]
RequestOK ==
  /\ request \in [Request -> RequestState]
  /\ \A r \in Request : Consistent(request[r])
\* A command the panel is through with belongs to a request past its work.
LateOK == late \subseteq {r \in Request : request[r].step \in {"recording", "ended"}}
RecordsOK ==
  /\ log \in [Request -> {"none", "denied", "ok", "error"}]
  /\ done \subseteq Request /\ executed \subseteq Request

TypeInv == AccountOK /\ SessionOK /\ RowOK /\ RealmOK /\ RequestOK /\ LateOK /\ RecordsOK

LEMMA TypeInvImplies == TypeInv => TypeOK
BY DEF TypeInv, TypeOK, AccountOK, SessionOK, RowOK, RealmOK, RequestOK, LateOK, RecordsOK,
  Consistent, UnderWay, AtConsole

\* A request's place in the function, whatever it becomes.
LEMMA RequestGoes ==
  ASSUME RequestOK, NEW r \in Request, NEW q \in RequestState, Consistent(q),
         request' = [request EXCEPT ![r] = q]
  PROVE  /\ RequestOK'
         /\ request'[r] = q
         /\ \A x \in Request : x # r => request'[x] = request[x]
BY DEF RequestOK, Consistent

LEMMA EndTyped ==
  ASSUME TypeInv, StaffAssumption, NEW r \in Request,
         NEW outcome \in {"ok", "error", "lost"}, End(r, outcome)
  PROVE  /\ RequestOK' /\ request'[r] = Over(r, outcome)
         /\ \A x \in Request : x # r => request'[x] = request[x]
<1>1. request[r] \in RequestState
  BY DEF TypeInv, RequestOK
<1>2. Over(r, outcome) \in RequestState
  <2>1. Unused \in RequestState
    BY StaffAssumption DEF Unused, RequestState, Stages, Level
  <2> QED
    BY <1>1, <2>1 DEF Over, RequestState, Stages
<1>3. Consistent(Over(r, outcome))
  BY DEF Consistent, Over, Unused
<1>4. RequestOK /\ request' = [request EXCEPT ![r] = Over(r, outcome)]
  BY DEF End, TypeInv
<1> QED
  BY <1>2, <1>3, <1>4, RequestGoes

LEMMA FinishTyped ==
  ASSUME TypeInv, NEW r \in Request, request[r].step = "working",
         NEW outcome \in {"ok", "error"}, Finish(r, outcome)
  PROVE  /\ RequestOK'
         /\ request'[r] = [request[r] EXCEPT !.step = "recording", !.outcome = outcome]
         /\ \A x \in Request : x # r => request'[x] = request[x]
<1> DEFINE q == [request[r] EXCEPT !.step = "recording", !.outcome = outcome]
<1>1. request[r] \in RequestState /\ Consistent(request[r])
  BY DEF TypeInv, RequestOK
<1>2. q \in RequestState /\ Consistent(q)
  BY <1>1 DEF RequestState, Stages, Consistent
<1>3. request' = [request EXCEPT ![r] = q]
  BY DEF Finish, TypeInv, RequestOK
<1> QED
  BY <1>2, <1>3, RequestGoes DEF TypeInv

\* The next statement, or the end of the work; after the console it is the end.
LEMMA AdvanceTyped ==
  ASSUME TypeInv, NEW r \in Request, request[r].step = "working", Advance(r)
  PROVE  /\ RequestOK'
         /\ \/ request'[r] = [request[r] EXCEPT !.step = "recording", !.outcome = "ok"]
            \/ /\ request'[r] = [request[r] EXCEPT !.pc = @ + 1]
               /\ ~AtConsole(r)
         /\ \A x \in Request : x # r => request'[x] = request[x]
<1>1. /\ request[r] \in RequestState /\ Consistent(request[r])
      /\ request[r].action \in DOMAIN Actions
      /\ request[r].pc \in 1..Len(WorkOf(request[r].action))
  BY DEF TypeInv, RequestOK, Consistent
<1>2. /\ Len(WorkOf(request[r].action)) \in 1..3
      /\ Work(r)[request[r].pc] \in ConsoleCommands => request[r].pc = Len(Work(r))
  BY <1>1, WorkTable DEF Work, WorkOf
<1>3. CASE request[r].pc = Len(Work(r))
  <2>1. Finish(r, "ok")
    BY <1>3 DEF Advance
  <2> QED
    BY <2>1, FinishTyped
<1>4. CASE request[r].pc # Len(Work(r))
  <2> DEFINE q == [request[r] EXCEPT !.pc = @ + 1]
  <2>1. q \in RequestState /\ Consistent(q)
    BY <1>1, <1>2, <1>4 DEF RequestState, Consistent, Work, WorkOf
  <2>2. request' = [request EXCEPT ![r] = q]
    BY <1>4 DEF Advance, TypeInv, RequestOK
  <2> QED
    BY <1>2, <1>4, <2>1, <2>2, RequestGoes DEF TypeInv, AtConsole
<1> QED
  BY <1>3, <1>4

LEMMA LateMoves ==
  ASSUME TypeInv, NEW r \in Request, late' \subseteq late \cup {r},
         \A x \in Request : x # r => request'[x] = request[x],
         \/ request'[r].step \in {"recording", "ended"}
         \/ request[r].step \notin {"recording", "ended"} /\ late' \subseteq late
  PROVE  LateOK'
BY DEF TypeInv, LateOK

\* What the end of a request, and the end of a statement, leave in order.
LEMMA Ended ==
  ASSUME TypeInv, StaffAssumption, NEW r \in Request,
         NEW outcome \in {"ok", "error", "lost"}, End(r, outcome), late' = late
  PROVE  RequestOK' /\ LateOK'
<1>1. /\ RequestOK' /\ request'[r] = Over(r, outcome)
      /\ \A x \in Request : x # r => request'[x] = request[x]
  BY EndTyped
<1>2. Over(r, outcome).step = "ended"
  BY DEF Over, Unused
<1> QED
  BY <1>1, <1>2, LateMoves

LEMMA Progress ==
  ASSUME TypeInv, NEW r \in Request, request[r].step = "working", late' \subseteq late,
         \/ Advance(r)
         \/ \E outcome \in {"ok", "error"} : Finish(r, outcome)
  PROVE  RequestOK' /\ LateOK'
<1>1. RequestOK' /\ \A x \in Request : x # r => request'[x] = request[x]
  BY AdvanceTyped, FinishTyped
<1> QED
  BY <1>1, LateMoves

\* A statement of the work changes one kind of table.
LEMMA WrittenTyped ==
  ASSUME TypeInv, NEW r \in Request, request[r].step = "working", Written(r)
  PROVE  /\ RequestOK' /\ LateOK' /\ RecordsOK' /\ SessionOK'
         /\ UNCHANGED <<session, world>>
<1>1. RequestOK' /\ LateOK'
  BY Progress DEF Written
<1>2. RecordsOK' /\ SessionOK'
  BY DEF Written, TypeInv, RecordsOK, SessionOK
<1> QED
  BY <1>1, <1>2 DEF Written

\* The target of the statement a request is at.
LEMMA StatementTarget ==
  ASSUME TypeInv, NEW r \in Request, NEW statement, At(r, statement)
  PROVE  /\ request[r].step = "working" /\ request[r].action \in DOMAIN Actions
         /\ request[r].pc \in 1..Len(WorkOf(request[r].action))
         /\ WorkOf(request[r].action)[request[r].pc] = statement
         /\ statement \in OnAccounts => request[r].target \in Account
         /\ statement \in OnCharacters => request[r].target \in Character
         /\ statement = "gmlevel" => request[r].action = "gmlevel"
<1>1. /\ request[r].step = "working" /\ request[r].action \in DOMAIN Actions
      /\ request[r].pc \in 1..Len(WorkOf(request[r].action))
      /\ request[r].target \in Targets(request[r].action)
      /\ WorkOf(request[r].action)[request[r].pc] = statement
  BY DEF TypeInv, RequestOK, Consistent, At, Work, WorkOf
<1>2. /\ statement \in OnAccounts => Actions[request[r].action].on = "account"
      /\ statement \in OnCharacters => Actions[request[r].action].on = "character"
      /\ statement = "gmlevel" => request[r].action = "gmlevel"
  BY <1>1, WorkTable
<1> QED
  BY <1>1, <1>2 DEF Targets

LEMMA GateTyped ==
  ASSUME TypeInv, StaffAssumption, NEW r \in Request, Gate(r)
  PROVE  TypeInv'
<1>1. ASSUME NEW q \in RequestState, Consistent(q), q.step \notin {"recording", "ended"},
             request[r].step \notin {"recording", "ended"},
             request' = [request EXCEPT ![r] = q],
             UNCHANGED <<database, session, world, late, records>>
      PROVE  TypeInv'
  <2>1. RequestOK' /\ \A x \in Request : x # r => request'[x] = request[x]
    BY <1>1, RequestGoes DEF TypeInv
  <2>2. LateOK'
    BY <1>1, <2>1, LateMoves
  <2> QED
    BY <1>1, <2>1, <2>2
    DEF TypeInv, AccountOK, SessionOK, RowOK, RealmOK, RecordsOK, database, records
<1>2. ASSUME NEW outcome \in {"ok", "error", "lost"}, End(r, outcome), late' = late,
             RecordsOK', SessionOK', UNCHANGED <<database, world>>
      PROVE  TypeInv'
  BY <1>2, Ended DEF TypeInv, AccountOK, RowOK, RealmOK, database
<1>3. ASSUME Refuse(r) PROVE TypeInv'
  <2>1. End(r, "ok") /\ UNCHANGED <<database, session, world, late>>
    BY <1>3 DEF Refuse, Deny, DenyUnrecorded
  <2>2. RecordsOK' /\ SessionOK'
    BY <1>3 DEF Refuse, Deny, DenyUnrecorded, TypeInv, RecordsOK, SessionOK, records
  <2> QED
    BY <1>2, <2>1, <2>2
<1>4. ASSUME NEW a \in Account, NEW action \in MayRun[r], NEW grant \in GrantLevels,
             NEW target \in Targets(action), Admit(r, a, action, target, grant)
      PROVE  TypeInv'
  <2> DEFINE q == [Unused EXCEPT !.step = "admitted", !.action = action, !.by = a,
                                 !.target = target, !.grant = grant, !.cred = session[a].cred]
  <2>1. Unused \in RequestState
    BY StaffAssumption DEF Unused, RequestState, Stages, Level
  <2>2. action \in DOMAIN Actions /\ grant \in Level
    BY StaffAssumption
  <2>3. session[a].cred \in 0..MaxCred
    BY DEF TypeInv, SessionOK
  <2>4. target \in Account \cup Character \cup {Nobody}
    BY DEF Targets
  <2>5. q \in RequestState
    BY <2>1, <2>2, <2>3, <2>4 DEF RequestState, Stages
  <2>6. Consistent(q)
    BY <2>2 DEF Consistent, Unused
  <2>7. request' = [request EXCEPT ![r] = q] /\ request[r].step = "new"
    BY <1>4 DEF Admit
  <2>8. q.step = "admitted" /\ UNCHANGED <<database, session, world, late, records>>
    BY <1>4 DEF Admit, Unused
  <2> QED
    BY <1>1, <2>5, <2>6, <2>7, <2>8
<1>5. /\ request[r] \in RequestState /\ Consistent(request[r])
      /\ account \in [Account -> [level : Level, cred : 0..MaxCred,
                                  bans : SUBSET Request, locked : BOOLEAN, muted : BOOLEAN]]
  BY DEF TypeInv, RequestOK, AccountOK
<1>6. request[r].step = "authorised" => Len(WorkOf(request[r].action)) \in 1..3
  BY <1>5, WorkLength DEF Consistent
<1>7. ASSUME RequirePermission(r) PROVE TypeInv'
  <2>1. CASE Can(account[request[r].by].level, Actions[request[r].action].needs)
    <3> DEFINE level == account[request[r].by].level
               q == [request[r] EXCEPT !.step = "authorised", !.level = level]
    <3>1. level \in Level
      BY <1>5, <1>7 DEF RequirePermission, Consistent
    <3>2. q \in RequestState /\ Consistent(q) /\ q.step = "authorised"
      BY <1>5, <1>7, <3>1 DEF RequirePermission, RequestState, Stages, Consistent
    <3>3. request' = [request EXCEPT ![r] = q]
      BY <1>7, <2>1 DEF RequirePermission, TypeInv, RequestOK
    <3> QED
      BY <1>1, <1>7, <2>1, <3>2, <3>3 DEF RequirePermission
  <2>2. CASE ~Can(account[request[r].by].level, Actions[request[r].action].needs)
    BY <1>3, <1>7, <2>2 DEF RequirePermission
  <2> QED
    BY <2>1, <2>2
<1>8. ASSUME NEW online \in BOOLEAN, request[r].step = "authorised",
             request' = [request EXCEPT ![r].step = "working", ![r].online = online],
             UNCHANGED <<database, session, world, late, records>>
      PROVE  TypeInv'
  <2> DEFINE q == [request[r] EXCEPT !.step = "working", !.online = online]
  <2>0. /\ q \in RequestState /\ q.step = "working" /\ q.action = request[r].action
        /\ q.by = request[r].by /\ q.target = request[r].target
        /\ q.outcome = request[r].outcome /\ q.pc = request[r].pc
    BY <1>5 DEF RequestState, Stages
  <2>1. Consistent(q)
    <3>1. /\ request[r].action \in DOMAIN Actions
          /\ request[r].by \in Account /\ request[r].target \in Targets(request[r].action)
          /\ request[r].outcome # "lost" /\ request[r].pc = 1
      BY <1>5, <1>8 DEF Consistent
    <3>2. 1 \in 1..Len(WorkOf(request[r].action))
      BY <1>6, <1>8
    <3> HIDE DEF q
    <3> QED
      BY <2>0, <3>1, <3>2 DEF Consistent
  <2>2. request' = [request EXCEPT ![r] = q]
    BY <1>8 DEF TypeInv, RequestOK
  <2> QED
    BY <1>1, <1>8, <2>0, <2>1, <2>2
<1>9. ASSUME LoadTarget(r) PROVE TypeInv'
  <2>1. AccountOnline(Against(r)) \in BOOLEAN
    BY DEF AccountOnline
  <2> QED
    BY <1>3, <1>8, <1>9, <2>1 DEF LoadTarget
<1>10. ASSUME FindNode(r) \/ FindTree(r) PROVE TypeInv'
  <2>1. request[r].step = "authorised" /\ UNCHANGED <<database, session, world, late, records>>
    BY <1>10 DEF FindNode, FindTree, Find
  <2>2. request' = [request EXCEPT ![r].step = "working", ![r].online = request[r].online]
    BY <1>5, <1>10 DEF FindNode, FindTree, Find, RequestState, TypeInv, RequestOK
  <2>3. request[r].online \in BOOLEAN
    BY <1>5 DEF RequestState
  <2> QED
    BY <1>8, <2>1, <2>2, <2>3
<1>11. ASSUME NotFromThePanel(r) \/ TurnAway(r) \/ FormRejected(r) PROVE TypeInv'
  <2>1. SessionOK'
    <3>1. CASE TurnAway(r)
      <4> DEFINE a == request[r].by
                 stays == session[a].live /\ session[a].cred # request[r].cred
      <4>1. a \in Account /\ stays \in BOOLEAN
        BY <1>5, <3>1 DEF TurnAway, Consistent
      <4>2. session' = [session EXCEPT ![a].live = stays]
        BY <3>1, Zenon DEF TurnAway
      <4> HIDE DEF stays
      <4> QED
        BY <4>1, <4>2 DEF TypeInv, SessionOK
    <3> QED
      BY <1>11, <3>1 DEF NotFromThePanel, FormRejected, TypeInv, SessionOK
  <2>2. RecordsOK'
    BY <1>11 DEF NotFromThePanel, TurnAway, FormRejected, TypeInv, RecordsOK, records
  <2> QED
    BY <1>2, <1>11, <2>1, <2>2 DEF NotFromThePanel, TurnAway, FormRejected
<1> QED
  BY <1>3, <1>4, <1>7, <1>9, <1>10, <1>11 DEF Gate, OutsideAllowlist

\* A statement that only changes accounts, characters or the realm.
LEMMA StatementTyped ==
  ASSUME TypeInv, StaffAssumption, NEW r \in Request, Statement(r)
  PROVE  TypeInv'
<1>1. ASSUME request[r].step = "working", Written(r), AccountOK', UNCHANGED <<row, realm>>
      PROVE  TypeInv'
  BY <1>1, WrittenTyped DEF TypeInv, RowOK, RealmOK
<1>2. ASSUME request[r].step = "working", Written(r), RowOK', UNCHANGED <<account, realm>>
      PROVE  TypeInv'
  BY <1>2, WrittenTyped DEF TypeInv, AccountOK, RealmOK
<1>3. ASSUME request[r].step = "working", Written(r), RealmOK', UNCHANGED <<account, row>>
      PROVE  TypeInv'
  BY <1>3, WrittenTyped DEF TypeInv, AccountOK, RowOK
<1>4. ASSUME request[r].step = "working",
             \/ Advance(r)
             \/ \E outcome \in {"ok", "error"} : Finish(r, outcome),
             UNCHANGED <<account, realm, world, late>>, SessionOK', RowOK', RecordsOK'
      PROVE  TypeInv'
  BY <1>4, Progress DEF TypeInv, AccountOK, RealmOK
<1>5. ASSUME BanAccount(r) PROVE TypeInv'
  <2>0. request[r].target \in Account
    BY <1>5, StatementTarget DEF BanAccount, OnAccounts
  <2>1. AccountOK'
    BY <1>5, <2>0 DEF BanAccount, TypeInv, AccountOK
  <2> QED
    BY <1>1, <1>5, <2>1 DEF BanAccount, At
<1>6. ASSUME UnbanAccount(r) PROVE TypeInv'
  <2>0. request[r].target \in Account
    BY <1>6, StatementTarget DEF UnbanAccount, OnAccounts
  <2>1. AccountOK'
    BY <1>6, <2>0 DEF UnbanAccount, TypeInv, AccountOK
  <2> QED
    BY <1>1, <1>6, <2>1 DEF UnbanAccount, At
<1>7. ASSUME SetPassword(r) PROVE TypeInv'
  <2>0. request[r].target \in Account
    BY <1>7, StatementTarget DEF SetPassword, OnAccounts
  <2>1. AccountOK'
    BY <1>7, <2>0, StaffAssumption DEF SetPassword, TypeInv, AccountOK
  <2> QED
    BY <1>1, <1>7, <2>1 DEF SetPassword, At
<1>8. ASSUME SetGmLevel(r) PROVE TypeInv'
  <2>0. request[r].target \in Account
    BY <1>8, StatementTarget DEF SetGmLevel, OnAccounts
  <2>1. request[r].grant \in Level
    BY DEF TypeInv, RequestOK, RequestState
  <2>2. AccountOK'
    BY <1>8, <2>1, <2>0 DEF SetGmLevel, TypeInv, AccountOK
  <2> QED
    BY <1>1, <1>8, <2>2 DEF SetGmLevel, At
<1>9. ASSUME SetMute(r) PROVE TypeInv'
  <2>0. request[r].target \in Account
    BY <1>9, StatementTarget DEF SetMute, OnAccounts
  <2>1. PICK on \in BOOLEAN : account' = [account EXCEPT ![request[r].target].muted = on]
    BY <1>9 DEF SetMute
  <2>2. AccountOK'
    BY <2>0, <2>1 DEF TypeInv, AccountOK
  <2> QED
    BY <1>1, <1>9, <2>2 DEF SetMute, At
<1>10. ASSUME SetLocked(r) PROVE TypeInv'
  <2>0. request[r].target \in Account
    BY <1>10, StatementTarget DEF SetLocked, OnAccounts
  <2>1. PICK on \in BOOLEAN : account' = [account EXCEPT ![request[r].target].locked = on]
    BY <1>10 DEF SetLocked
  <2>2. AccountOK'
    BY <2>0, <2>1 DEF TypeInv, AccountOK
  <2> QED
    BY <1>1, <1>10, <2>2 DEF SetLocked, At
<1>11. ASSUME RevokeSessions(r) PROVE TypeInv'
  <2>0. request[r].target \in Account
    BY <1>11, StatementTarget DEF RevokeSessions, OnAccounts
  <2>1. SessionOK' /\ RowOK' /\ RecordsOK'
    BY <1>11, <2>0
    DEF RevokeSessions, TypeInv, SessionOK, RowOK, RecordsOK, database, records
  <2> QED
    BY <1>4, <1>11, <2>1 DEF RevokeSessions, At, database
<1>12. ASSUME AssertOffline(r) \/ TeleportDestination(r) PROVE TypeInv'
  <2>1. SessionOK' /\ RowOK' /\ RecordsOK'
    BY <1>12 DEF AssertOffline, TeleportDestination, TypeInv, SessionOK, RowOK, RecordsOK,
      database, records
  <2> QED
    BY <1>4, <1>12, <2>1 DEF AssertOffline, TeleportDestination, At, database
<1>13. ASSUME EditCharacter(r) PROVE TypeInv'
  <2>0. request[r].target \in Character
    BY <1>13, StatementTarget DEF EditCharacter, OnCharacters
  <2>1. RowOK'
    BY <1>13, <2>0 DEF EditCharacter, TypeInv, RowOK
  <2>2. SessionOK' /\ RecordsOK'
    BY <1>13 DEF EditCharacter, TypeInv, SessionOK, RecordsOK
  <2> QED
    BY <1>4, <1>13, <2>1, <2>2 DEF EditCharacter, At
<1>14. ASSUME QueueAtLogin(r) PROVE TypeInv'
  <2>0. request[r].target \in Character
    BY <1>14, StatementTarget DEF QueueAtLogin, OnCharacters
  <2>1. RowOK'
    BY <1>14, <2>0 DEF QueueAtLogin, TypeInv, RowOK
  <2> QED
    BY <1>2, <1>14, <2>1 DEF QueueAtLogin, At
<1>15. ASSUME StoreMotd(r) \/ SetMaintenance(r) \/ EditNode(r) \/ EditTree(r) PROVE TypeInv'
  <2>1. RealmOK'
    BY <1>15 DEF StoreMotd, SetMaintenance, EditNode, EditTree, Written, Level, TypeInv, RealmOK
  <2> QED
    BY <1>3, <1>15, <2>1 DEF StoreMotd, SetMaintenance, EditNode, EditTree, At
<1>16. ASSUME WorkFails(r) PROVE TypeInv'
  <2>1. SessionOK' /\ RowOK' /\ RecordsOK'
    BY <1>16 DEF WorkFails, TypeInv, SessionOK, RowOK, RecordsOK, database, records
  <2> QED
    BY <1>4, <1>16, <2>1 DEF WorkFails, MayThrow, database
<1> QED
  BY <1>5, <1>6, <1>7, <1>8, <1>9, <1>10, <1>11, <1>12, <1>13, <1>14, <1>15, <1>16 DEF Statement

\* What the worldserver does with a command.
LEMMA ExecuteTyped ==
  ASSUME TypeInv, NEW r \in Request, Execute(r), UNCHANGED realm
  PROVE  RowOK' /\ RealmOK' /\ executed' = executed \cup {r}
<1>1. \A c \in Character :
        Saved(c) \in [edits : SUBSET Request, atLogin : BOOLEAN, online : BOOLEAN]
  BY DEF Saved, TypeInv, RowOK, RealmOK
<1>2. RowOK'
  BY <1>1 DEF Execute, TypeInv, RowOK
<1>3. world' \in {world, [world EXCEPT !.motd = r], [world EXCEPT !.trees = realm.trees]}
  BY DEF Execute, ReloadTrees
<1>4. RealmOK'
  BY <1>3 DEF TypeInv, RealmOK
<1> QED
  BY <1>2, <1>4 DEF Execute

LEMMA ConsoleTyped ==
  ASSUME TypeInv, NEW r \in Request, Console(r)
  PROVE  TypeInv'
<1>1. ASSUME NobodyToKick(r) PROVE TypeInv'
  BY <1>1, Progress
  DEF NobodyToKick, At, TypeInv, AccountOK, SessionOK, RowOK, RealmOK, RecordsOK, database, records
<1>2. ASSUME ConsoleAnswers(r) PROVE TypeInv'
  <2>1. RowOK' /\ RealmOK' /\ RecordsOK'
    BY <1>2, ExecuteTyped DEF ConsoleAnswers, TypeInv, RecordsOK
  <2>2. RequestOK' /\ LateOK'
    BY <1>2, Progress DEF ConsoleAnswers, AtConsole
  <2> QED
    BY <1>2, <2>1, <2>2 DEF ConsoleAnswers, TypeInv, AccountOK, SessionOK
<1>3. ASSUME NEW sent \in BOOLEAN, ConsoleFails(r, sent) PROVE TypeInv'
  <2>1. /\ RequestOK' /\ request'[r].step = "recording"
        /\ \A x \in Request : x # r => request'[x] = request[x]
    <3>1. request[r] \in RequestState /\ request[r].step = "working" /\ AtConsole(r) /\ Advance(r)
      BY <1>3 DEF ConsoleFails, AtConsole, TypeInv, RequestOK
    <3> QED
      BY <3>1, AdvanceTyped DEF RequestState
  <2>2. LateOK'
    BY <1>3, <2>1, LateMoves DEF ConsoleFails
  <2> QED
    BY <1>3, <2>1, <2>2
    DEF ConsoleFails, TypeInv, AccountOK, SessionOK, RowOK, RealmOK, RecordsOK, database, records
<1>4. ASSUME ExecuteLate(r) PROVE TypeInv'
  <2>1. RowOK' /\ RealmOK' /\ RecordsOK'
    BY <1>4, ExecuteTyped DEF ExecuteLate, TypeInv, RecordsOK
  <2> QED
    BY <1>4, <2>1 DEF ExecuteLate, TypeInv, AccountOK, SessionOK, RequestOK, LateOK
<1> QED
  BY <1>1, <1>2, <1>3, <1>4 DEF Console

LEMMA AuditTyped ==
  ASSUME TypeInv, StaffAssumption, NEW r \in Request, Audit(r)
  PROVE  TypeInv'
<1>1. request[r].step = "recording" /\ request[r].outcome \in {"ok", "error"}
  BY DEF Audit, Record, RecordFails, TypeInv, RequestOK, RequestState, Consistent
<1>2. RequestOK' /\ LateOK'
  BY <1>1, Ended DEF Audit, Record, RecordFails
<1>3. RecordsOK'
  BY <1>1 DEF Audit, Record, RecordFails, LineOf, TypeInv, RecordsOK, records
<1> QED
  BY <1>2, <1>3
  DEF Audit, Record, RecordFails, TypeInv, AccountOK, SessionOK, RowOK, RealmOK, database

LEMMA OthersTyped ==
  ASSUME TypeInv, StaffAssumption, Others
  PROVE  TypeInv'
<1>1. ASSUME NEW a \in Account, SignIn(a) PROVE TypeInv'
  <2>1. SessionOK'
    BY <1>1 DEF SignIn, TypeInv, AccountOK, SessionOK
  <2> QED
    BY <1>1, <2>1 DEF SignIn, TypeInv, AccountOK, RowOK, RealmOK, RequestOK, LateOK, RecordsOK,
      database, records
<1>2. ASSUME NEW a \in Account, NEW level \in ConsoleLevels, ConsoleSetsLevel(a, level)
      PROVE  TypeInv'
  <2>1. AccountOK'
    BY <1>2, StaffAssumption DEF ConsoleSetsLevel, TypeInv, AccountOK
  <2> QED
    BY <1>2, <2>1 DEF ConsoleSetsLevel, TypeInv, SessionOK, RowOK, RealmOK, RequestOK, LateOK,
      RecordsOK, records
<1>3. ASSUME NEW c \in Character, LogIn(c) \/ LogOut(c) PROVE TypeInv'
  <2>1. row[c].edits \in SUBSET Request /\ world.copy[c] \in SUBSET Request
    BY DEF TypeInv, RowOK, RealmOK
  <2>2. RowOK'
    <3>1. CASE LogIn(c)
      BY <3>1 DEF LogIn, TypeInv, RowOK
    <3>2. CASE LogOut(c)
      BY <2>1, <3>2 DEF LogOut, Saved, TypeInv, RowOK
    <3> QED
      BY <1>3, <3>1, <3>2
  <2>3. RealmOK'
    <3>1. CASE LogIn(c)
      <4>1. [world.copy EXCEPT ![c] = row[c].edits] \in [Character -> SUBSET Request]
        BY <2>1 DEF TypeInv, RealmOK
      <4>2. world' = [world EXCEPT !.copy = [world.copy EXCEPT ![c] = row[c].edits]]
        BY <3>1 DEF LogIn, TypeInv, RealmOK
      <4> QED
        BY <3>1, <4>1, <4>2 DEF LogIn, TypeInv, RealmOK
    <3> QED
      BY <1>3, <3>1 DEF LogOut, TypeInv, RealmOK
  <2> QED
    BY <1>3, <2>2, <2>3 DEF LogIn, LogOut, TypeInv, AccountOK, SessionOK, RequestOK, LateOK, RecordsOK,
      records
<1>4. ASSUME WorldCrashes \/ WorldStarts PROVE TypeInv'
  <2>1. RowOK'
    <3>1. CASE WorldCrashes
      BY <3>1 DEF WorldCrashes, TypeInv, RowOK, database
    <3>2. CASE WorldStarts
      BY <3>2 DEF WorldStarts, TypeInv, RowOK
    <3> QED
      BY <1>4, <3>1, <3>2
  <2>2. RealmOK'
    <3>1. CASE WorldCrashes
      BY <3>1 DEF WorldCrashes, TypeInv, RealmOK, database
    <3>2. CASE WorldStarts
      <4>1. world' = [world EXCEPT !.trees = realm.trees, !.up = TRUE, !.motd = realm.motd]
        BY <3>2 DEF WorldStarts, ReloadTrees
      <4> QED
        BY <3>2, <4>1 DEF WorldStarts, TypeInv, RealmOK
    <3> QED
      BY <1>4, <3>1, <3>2
  <2> QED
    BY <1>4, <2>1, <2>2 DEF WorldCrashes, WorldStarts, TypeInv, AccountOK, SessionOK, RequestOK, LateOK,
      RecordsOK, database, records
<1>5. ASSUME PanelDies PROVE TypeInv'
  <2>1. Unused \in RequestState
    BY StaffAssumption DEF Unused, RequestState, Stages, Level
  <2>2. \A r \in Request : Over(r, "lost") \in RequestState /\ Consistent(Over(r, "lost"))
    BY <2>1 DEF Over, Unused, RequestState, Stages, Consistent, TypeInv, RequestOK
  <2>3. RequestOK'
    BY <1>5, <2>2 DEF PanelDies, TypeInv, RequestOK, Consistent
  <2>4. LateOK'
    BY <1>5 DEF PanelDies, Over, Unused, TypeInv, LateOK
  <2> QED
    BY <1>5, <2>3, <2>4 DEF PanelDies, TypeInv, AccountOK, SessionOK, RowOK, RealmOK, RecordsOK,
      database, records
<1> QED
  BY <1>1, <1>2, <1>3, <1>4, <1>5 DEF Others

LEMMA TypeInit ==
  ASSUME StaffAssumption, Init
  PROVE  TypeInv
<1>1. AccountOK /\ SessionOK
  BY StaffAssumption DEF Init, AccountOK, SessionOK, Level
<1>2. RowOK /\ RealmOK
  BY DEF Init, RowOK, RealmOK, Level
<1>3. Unused \in RequestState
  BY StaffAssumption DEF Unused, RequestState, Stages, Level
<1>4. RequestOK /\ LateOK /\ RecordsOK
  BY <1>3 DEF Init, RequestOK, LateOK, RecordsOK, Consistent, Unused
<1> QED
  BY <1>1, <1>2, <1>4 DEF TypeInv

LEMMA TypeKept ==
  ASSUME TypeInv, StaffAssumption, [Next]_vars
  PROVE  TypeInv'
<1>1. CASE UNCHANGED vars
  BY <1>1 DEF vars, TypeInv, AccountOK, SessionOK, RowOK, RealmOK, RequestOK, LateOK, RecordsOK
<1> QED
  BY <1>1, GateTyped, StatementTyped, ConsoleTyped, AuditTyped, OthersTyped DEF Next

\* Accounts, requests and the worldserver's copies are what their types say.
THEOREM StaffTypeCorrect == Spec => []TypeOK
<1>1. Init => TypeInv
  BY TypeInit, StaffAssumption
<1>2. TypeInv /\ [Next]_vars => TypeInv'
  BY TypeKept, StaffAssumption
<1> QED
  BY <1>1, <1>2, TypeInvImplies, PTL DEF Spec

-----------------------------------------------------------------------------
(* The online rule *)

\* The steps that write a character's row or the worldserver's memory.
LEMMA RowOrWorld ==
  ASSUME Next
  PROVE  \/ UNCHANGED <<row, world>>
         \/ \E r \in Request : EditCharacter(r) \/ QueueAtLogin(r) \/ (Execute(r) /\ realm' = realm)
         \/ \E c \in Character : LogIn(c) \/ LogOut(c)
         \/ WorldCrashes \/ WorldStarts
<1>1. \A r \in Request : Gate(r) => UNCHANGED <<row, world>>
  BY DEF Gate, Admit, NotFromThePanel, OutsideAllowlist, TurnAway, RequirePermission, LoadTarget,
    FindNode, FindTree, Find, FormRejected, Refuse, Deny, DenyUnrecorded, database
<1>2. \A r \in Request :
        Statement(r) => UNCHANGED <<row, world>> \/ EditCharacter(r) \/ QueueAtLogin(r)
  BY DEF Statement, BanAccount, UnbanAccount, SetPassword, SetGmLevel, SetMute, SetLocked,
    RevokeSessions, AssertOffline, StoreMotd, SetMaintenance, EditNode, EditTree,
    TeleportDestination, WorkFails, Written, database
<1>3. \A r \in Request :
        Console(r) \/ Audit(r) => UNCHANGED <<row, world>> \/ (Execute(r) /\ realm' = realm)
  BY DEF Console, NobodyToKick, ConsoleAnswers, ConsoleFails, ExecuteLate, Audit, Record,
    RecordFails, database
<1>4. Others => \/ UNCHANGED <<row, world>>
                \/ \E c \in Character : LogIn(c) \/ LogOut(c)
                \/ WorldCrashes \/ WorldStarts
  BY DEF Others, SignIn, ConsoleSetsLevel, PanelDies, database
<1> QED
  BY <1>1, <1>2, <1>3, <1>4 DEF Next

LEMMA SaveKept ==
  ASSUME TypeInv, SaveDiscardsNothing, [Next]_vars
  PROVE  SaveDiscardsNothing'
<1>1. ASSUME UNCHANGED <<row, world>> PROVE SaveDiscardsNothing'
  BY <1>1 DEF SaveDiscardsNothing, InWorld
<1>2. ASSUME NEW r \in Request, EditCharacter(r) \/ QueueAtLogin(r) PROVE SaveDiscardsNothing'
  BY <1>2 DEF EditCharacter, EditMatches, QueueAtLogin, Written, SaveDiscardsNothing, InWorld,
    TypeInv, RowOK
<1>3. ASSUME NEW r \in Request, Execute(r) PROVE SaveDiscardsNothing'
  <2>1. world'.up = world.up /\ world'.copy = world.copy
    BY <1>3 DEF Execute, ReloadTrees, TypeInv, RealmOK
  <2>2. \A c \in Character : row'[c] = row[c] \/ ~row'[c].online
    BY <1>3 DEF Execute, Saved, TypeInv, RowOK
  <2> QED
    BY <2>1, <2>2 DEF SaveDiscardsNothing, InWorld
<1>4. ASSUME NEW c \in Character, LogIn(c) PROVE SaveDiscardsNothing'
  <2>1. /\ world'.up = world.up
        /\ world'.copy = [world.copy EXCEPT ![c] = row[c].edits]
    BY <1>4 DEF LogIn, TypeInv, RealmOK
  <2>2. row'[c].edits = row[c].edits /\ \A d \in Character : d # c => row'[d] = row[d]
    BY <1>4 DEF LogIn, TypeInv, RowOK
  <2> QED
    BY <2>1, <2>2 DEF SaveDiscardsNothing, InWorld, TypeInv, RealmOK
<1>5. ASSUME NEW c \in Character, LogOut(c) PROVE SaveDiscardsNothing'
  <2>1. ~row'[c].online /\ \A d \in Character : d # c => row'[d] = row[d]
    BY <1>5 DEF LogOut, Saved, TypeInv, RowOK
  <2> QED
    BY <1>5, <2>1 DEF LogOut, SaveDiscardsNothing, InWorld
<1>6. ASSUME WorldCrashes PROVE SaveDiscardsNothing'
  <2>1. ~world'.up
    BY <1>6 DEF WorldCrashes, TypeInv, RealmOK
  <2> QED
    BY <2>1 DEF SaveDiscardsNothing, InWorld
<1>7. ASSUME WorldStarts PROVE SaveDiscardsNothing'
  <2>1. \A c \in Character : ~row'[c].online
    BY <1>7 DEF WorldStarts, TypeInv, RowOK
  <2> QED
    BY <2>1 DEF SaveDiscardsNothing, InWorld
<1> QED
  BY <1>1, <1>2, <1>3, <1>4, <1>5, <1>6, <1>7, RowOrWorld DEF vars

\* No save of the worldserver discards an edit made from the panel.
THEOREM SavesDiscardNothing == Spec => []SaveDiscardsNothing
<1>1. Init => TypeInv /\ SaveDiscardsNothing
  BY TypeInit, StaffAssumption DEF Init, SaveDiscardsNothing, InWorld
<1>2. TypeInv /\ SaveDiscardsNothing /\ [Next]_vars => (TypeInv /\ SaveDiscardsNothing)'
  BY TypeKept, SaveKept, StaffAssumption
<1> QED
  BY <1>1, <1>2, PTL DEF Spec

-----------------------------------------------------------------------------
(* Owners *)

\* A grant that passed the guards is not of an owner's level, nor to an owner: the
\* guards read levels that may change before the statement, but not into that one.
Sanctioned(q) ==
  q.step = "working" /\ q.action = "gmlevel" =>
    q.grant # Owner /\ InitialLevel[q.target] # Owner
GrantsSanctioned == \A r \in Request : Sanctioned(request[r])
OwnersInv == TypeInv /\ OwnersFromConsoleOnly /\ GrantsSanctioned

\* The guards let only such a grant through.
LEMMA GuardsSanction ==
  ASSUME OwnersInv, NEW r \in Request, request[r].step = "authorised", Permitted(r),
         request[r].action = "gmlevel"
  PROVE  request[r].grant # Owner /\ InitialLevel[request[r].target] # Owner
<1>1. /\ request[r] \in RequestState /\ Consistent(request[r])
      /\ request[r].level \in Level /\ request[r].grant \in Level
  BY DEF OwnersInv, TypeInv, RequestOK, RequestState
<1>2. Actions[request[r].action].on = "account"
  BY DEF Actions, SetGmLevelAction, Handler
<1>3. request[r].target \in Account /\ Against(r) = request[r].target
  BY <1>1, <1>2 DEF Consistent, Targets, Against
<1>4. account[request[r].target].level < request[r].level /\ request[r].grant < request[r].level
  BY <1>2, <1>3 DEF Permitted, CanActOnAccount, CanGrantLevel
<1>5. account[request[r].target].level \in Level
  BY <1>3 DEF OwnersInv, TypeInv, AccountOK
<1> QED
  BY <1>1, <1>3, <1>4, <1>5 DEF Level, Owner, OwnersInv, OwnersFromConsoleOnly

SameGrant(x) ==
  /\ request'[x].action = request[x].action
  /\ request'[x].grant = request[x].grant /\ request'[x].target = request[x].target

\* How a request comes to be at work: it already was, or the guards let it through.
LEMMA ComesToWork ==
  ASSUME TypeInv, StaffAssumption, Next, NEW x \in Request
  PROVE  \/ request'[x] = request[x]
         \/ request'[x].step # "working"
         \/ request[x].step = "working" /\ SameGrant(x)
         \/ /\ request[x].step = "authorised" /\ SameGrant(x)
            /\ request[x].action \notin {"editNode", "editTree"} => Permitted(x)
<1> DEFINE Goal ==
      \/ request'[x] = request[x]
      \/ request'[x].step # "working"
      \/ request[x].step = "working" /\ SameGrant(x)
      \/ /\ request[x].step = "authorised" /\ SameGrant(x)
         /\ request[x].action \notin {"editNode", "editTree"} => Permitted(x)
<1>1. request \in [Request -> RequestState] /\ \A r \in Request : request[r] \in RequestState
  BY DEF TypeInv, RequestOK
<1>2. ASSUME NEW r \in Request, NEW outcome \in {"ok", "error", "lost"}, End(r, outcome) PROVE Goal
  <2>1. Over(r, outcome).step = "ended"
    BY DEF Over, Unused
  <2> QED
    BY <1>2, <2>1, EndTyped
<1>3. ASSUME NEW r \in Request, request[r].step = "working",
             \/ Advance(r)
             \/ \E outcome \in {"ok", "error"} : Finish(r, outcome)
      PROVE  Goal
  <2>1. ASSUME NEW outcome \in {"ok", "error"},
               request'[r] = [request[r] EXCEPT !.step = "recording", !.outcome = outcome],
               \A y \in Request : y # r => request'[y] = request[y]
        PROVE  Goal
    <3>1. request'[r].step = "recording"
      BY <1>1, <2>1 DEF RequestState
    <3> QED
      BY <2>1, <3>1
  <2>2. ASSUME request'[r] = [request[r] EXCEPT !.pc = @ + 1],
               \A y \in Request : y # r => request'[y] = request[y]
        PROVE  Goal
    <3>1. SameGrant(r)
      BY <1>1, <2>2 DEF RequestState, SameGrant
    <3> QED
      BY <1>3, <2>2, <3>1
  <2>3. CASE Advance(r)
    BY <1>3, <2>1, <2>2, <2>3, AdvanceTyped
  <2>4. ASSUME NEW outcome \in {"ok", "error"}, Finish(r, outcome) PROVE Goal
    BY <1>3, <2>1, <2>4, FinishTyped
  <2> QED
    BY <1>3, <2>3, <2>4
<1>4. ASSUME NEW r \in Request, Gate(r) PROVE Goal
  <2>1. ASSUME Refuse(r) PROVE Goal
    BY <1>2, <2>1 DEF Refuse, Deny, DenyUnrecorded
  <2>2. ASSUME NEW a \in Account, NEW action \in MayRun[r], NEW grant \in GrantLevels,
               NEW target \in Targets(action), Admit(r, a, action, target, grant)
        PROVE  Goal
    BY <1>1, <2>2 DEF Admit, Unused
  <2>3. ASSUME RequirePermission(r) PROVE Goal
    BY <1>1, <2>1, <2>3 DEF RequirePermission, RequestState
  <2>4. ASSUME LoadTarget(r) PROVE Goal
    BY <1>1, <2>1, <2>4 DEF LoadTarget, RequestState, SameGrant
  <2>5. ASSUME FindNode(r) \/ FindTree(r) PROVE Goal
    BY <1>1, <2>5 DEF FindNode, FindTree, Find, RequestState, SameGrant
  <2>6. ASSUME NotFromThePanel(r) \/ TurnAway(r) \/ FormRejected(r) PROVE Goal
    BY <1>2, <2>6 DEF NotFromThePanel, TurnAway, FormRejected
  <2> QED
    BY <1>4, <2>1, <2>2, <2>3, <2>4, <2>5, <2>6 DEF Gate, OutsideAllowlist
<1>5. ASSUME NEW r \in Request, Statement(r) PROVE Goal
  BY <1>3, <1>5 DEF Statement, BanAccount, UnbanAccount, SetPassword, SetGmLevel, SetMute, SetLocked,
    RevokeSessions, AssertOffline, EditCharacter, QueueAtLogin, StoreMotd, SetMaintenance, EditNode,
    EditTree, TeleportDestination, WorkFails, MayThrow, Written, At
<1>6. ASSUME NEW r \in Request, Console(r) PROVE Goal
  BY <1>3, <1>6 DEF Console, NobodyToKick, ConsoleAnswers, ConsoleFails, ExecuteLate, AtConsole, At
<1>7. ASSUME NEW r \in Request, Audit(r) PROVE Goal
  BY <1>1, <1>2, <1>7 DEF Audit, Record, RecordFails, RequestState
<1>8. ASSUME Others PROVE Goal
  <2>1. CASE PanelDies
    BY <2>1 DEF PanelDies, Over, Unused
  <2> QED
    BY <1>8, <2>1 DEF Others, SignIn, ConsoleSetsLevel, LogIn, LogOut, WorldCrashes, WorldStarts
<1> QED
  BY <1>4, <1>5, <1>6, <1>7, <1>8 DEF Next

\* The steps that change the level of an account.
LEMMA LevelsChange ==
  ASSUME TypeInv, Next
  PROVE  \/ \A a \in Account : account'[a].level = account[a].level
         \/ \E r \in Request : SetGmLevel(r)
         \/ \E a \in Account, level \in ConsoleLevels : ConsoleSetsLevel(a, level)
<1> DEFINE Same == \A a \in Account : account'[a].level = account[a].level
<1>1. \A r \in Request : Gate(r) \/ Console(r) \/ Audit(r) => UNCHANGED account
  BY DEF Gate, Admit, NotFromThePanel, OutsideAllowlist, TurnAway, RequirePermission, LoadTarget,
    FindNode, FindTree, Find, FormRejected, Refuse, Deny, DenyUnrecorded, database,
    Console, NobodyToKick, ConsoleAnswers, ConsoleFails, ExecuteLate, Audit, Record, RecordFails
<1>2. ASSUME NEW r \in Request, BanAccount(r) \/ UnbanAccount(r) \/ SetPassword(r) PROVE Same
  BY <1>2 DEF BanAccount, UnbanAccount, SetPassword, TypeInv, AccountOK
<1>3. ASSUME NEW r \in Request, SetMute(r) \/ SetLocked(r) PROVE Same
  <2>1. PICK on \in BOOLEAN : \/ account' = [account EXCEPT ![request[r].target].muted = on]
                             \/ account' = [account EXCEPT ![request[r].target].locked = on]
    BY <1>3 DEF SetMute, SetLocked
  <2> QED
    BY <2>1 DEF TypeInv, AccountOK
<1>4. \A r \in Request :
        Statement(r) => \/ BanAccount(r) \/ UnbanAccount(r) \/ SetPassword(r)
                        \/ SetMute(r) \/ SetLocked(r) \/ SetGmLevel(r) \/ UNCHANGED account
  BY DEF Statement, RevokeSessions, AssertOffline, EditCharacter, QueueAtLogin, StoreMotd,
    SetMaintenance, EditNode, EditTree, TeleportDestination, WorkFails, database
<1>5. Others => \/ UNCHANGED account
                \/ \E a \in Account, level \in ConsoleLevels : ConsoleSetsLevel(a, level)
  BY DEF Others, SignIn, LogIn, LogOut, WorldCrashes, WorldStarts, PanelDies, database
<1> QED
  BY <1>1, <1>2, <1>3, <1>4, <1>5 DEF Next

LEMMA OwnersKept ==
  ASSUME OwnersInv, StaffAssumption, [Next]_vars
  PROVE  OwnersInv'
<1>1. TypeInv'
  BY TypeKept DEF OwnersInv
<1>2. CASE UNCHANGED vars
  BY <1>1, <1>2 DEF vars, OwnersInv, OwnersFromConsoleOnly, GrantsSanctioned, Sanctioned
<1>3. CASE Next
  <2>1. GrantsSanctioned'
    <3> SUFFICES ASSUME NEW x \in Request, request'[x].step = "working", request'[x].action = "gmlevel"
                 PROVE  request'[x].grant # Owner /\ InitialLevel[request'[x].target] # Owner
      BY DEF GrantsSanctioned, Sanctioned
    <3>1. CASE request'[x] = request[x] \/ (request[x].step = "working" /\ SameGrant(x))
      BY <3>1 DEF OwnersInv, GrantsSanctioned, Sanctioned, SameGrant
    <3>2. CASE /\ request[x].step = "authorised" /\ SameGrant(x)
               /\ request[x].action \notin {"editNode", "editTree"} => Permitted(x)
      BY <3>2, GuardsSanction DEF SameGrant
    <3> QED
      BY <1>3, <3>1, <3>2, ComesToWork DEF OwnersInv
  <2>2. OwnersFromConsoleOnly'
    <3>1. CASE \A a \in Account : account'[a].level = account[a].level
      BY <3>1 DEF OwnersInv, OwnersFromConsoleOnly
    <3>2. ASSUME NEW r \in Request, SetGmLevel(r) PROVE OwnersFromConsoleOnly'
      <4>1. /\ request[r].target \in Account /\ request[r].action = "gmlevel"
            /\ request[r].step = "working"
        BY <3>2, StatementTarget DEF SetGmLevel, OnAccounts, OwnersInv
      <4>2. request[r].grant # Owner /\ InitialLevel[request[r].target] # Owner
        BY <4>1 DEF OwnersInv, GrantsSanctioned, Sanctioned
      <4>3. account' = [account EXCEPT ![request[r].target].level = request[r].grant]
        BY <3>2 DEF SetGmLevel
      <4> QED
        BY <4>1, <4>2, <4>3 DEF OwnersInv, OwnersFromConsoleOnly, TypeInv, AccountOK
    <3>3. ASSUME NEW a \in Account, NEW level \in ConsoleLevels, ConsoleSetsLevel(a, level)
          PROVE  OwnersFromConsoleOnly'
      <4>1. level # Owner /\ account[a].level # Owner
            /\ account' = [account EXCEPT ![a].level = level]
        BY <3>3, StaffAssumption DEF ConsoleSetsLevel
      <4> QED
        BY <4>1 DEF OwnersInv, OwnersFromConsoleOnly, TypeInv, AccountOK
    <3> QED
      BY <1>3, <3>1, <3>2, <3>3, LevelsChange DEF OwnersInv
  <2> QED
    BY <1>1, <2>1, <2>2 DEF OwnersInv
<1> QED
  BY <1>2, <1>3

\* Nobody becomes or ceases to be an owner from the panel, whatever is granted to whom
\* and however requests overlap.
THEOREM OwnersAreMadeElsewhere == Spec => []OwnersFromConsoleOnly
<1>1. Init => OwnersInv
  <2>1. Init => TypeInv
    BY TypeInit, StaffAssumption
  <2>2. Init => OwnersFromConsoleOnly /\ GrantsSanctioned
    BY DEF Init, OwnersFromConsoleOnly, GrantsSanctioned, Sanctioned, Unused
  <2> QED
    BY <2>1, <2>2 DEF OwnersInv
<1>2. OwnersInv /\ [Next]_vars => OwnersInv'
  BY OwnersKept, StaffAssumption
<1>3. OwnersInv => OwnersFromConsoleOnly
  BY DEF OwnersInv
<1> QED
  BY <1>1, <1>2, <1>3, PTL DEF Spec

-----------------------------------------------------------------------------
(* The audit log *)

Effects == done \cup executed \cup late

\* What is known of a request, from its start to its line: it has no effect before it
\* works and no line before it ends; one that ended with an effect has its line or is
\* known to have been cut short; and one of a database that is past its first
\* statement without an error has made its change.
Story(r) ==
  /\ request[r].step \in {"new", "admitted", "authorised"} => r \notin Effects
  /\ request[r].step # "ended" => log[r] = "none"
  /\ request[r].step = "ended" /\ r \in Effects =>
       log[r] \in {"ok", "error"} \/ request[r].outcome = "lost"
  /\ request[r].action \in InDatabase /\
       \/ request[r].step = "working" /\ request[r].pc # 1
       \/ request[r].step = "recording" /\ request[r].outcome = "ok"
       \/ log[r] = "ok"
     => r \in done
Stories == TypeInv /\ \A r \in Request : Story(r)

LEMMA StoriesImply == Stories => EffectsTraced /\ LoggedChangeWasMade
<1>1. ASSUME Stories, NEW r \in done \cup executed
      PROVE  log[r] \in {"ok", "error"} \/ UnderWay(r) \/ request[r].outcome = "lost"
  <2>1. r \in Request /\ Story(r) /\ r \in Effects
    BY <1>1 DEF Stories, TypeInv, RecordsOK, Effects
  <2> QED
    BY <2>1 DEF Story, UnderWay
<1> QED
  BY <1>1 DEF EffectsTraced, LoggedChangeWasMade, Stories, Story

\* The stories of all the others go on as they were.
LEMMA StoryOfOthers ==
  ASSUME Stories, NEW r \in Request, TypeInv', Story(r)',
         \A x \in Request : x # r => request'[x] = request[x] /\ log'[x] = log[x],
         done \subseteq done', done' \subseteq done \cup {r},
         executed' \subseteq executed \cup {r}, late' \subseteq late \cup {r}
  PROVE  Stories'
BY DEF Stories, Story, Effects

\* An action of a database at a statement that is not its write has made it.
LEMMA WriteComesFirst ==
  ASSUME Stories, NEW r \in Request, NEW statement, At(r, statement), statement \notin Writes,
         request[r].action \in InDatabase
  PROVE  r \in done
<1>1. request[r].pc # 1
  BY StatementTarget, WorkTable DEF Stories
<1> QED
  BY <1>1 DEF Stories, Story, At

LEMMA GateStory ==
  ASSUME Stories, StaffAssumption, NEW r \in Request, Gate(r)
  PROVE  Stories'
<1>1. TypeInv' /\ request \in [Request -> RequestState] /\ request[r] \in RequestState
  BY GateTyped DEF Stories, TypeInv, RequestOK
<1>2. log \in [Request -> {"none", "denied", "ok", "error"}]
  BY DEF Stories, TypeInv, RecordsOK
<1>3. ASSUME request[r].step \in {"new", "admitted", "authorised"}, End(r, "ok"),
             UNCHANGED <<late, done, executed>>,
             log' = log \/ log' = [log EXCEPT ![r] = "denied"]
      PROVE  Stories'
  <2>1. /\ request'[r] = Over(r, "ok")
        /\ \A x \in Request : x # r => request'[x] = request[x]
    BY <1>3, EndTyped DEF Stories
  <2>2. Over(r, "ok").step = "ended"
    BY DEF Over, Unused
  <2>3. /\ log'[r] \in {"none", "denied"} /\ r \notin Effects'
        /\ \A x \in Request : x # r => log'[x] = log[x]
    BY <1>2, <1>3 DEF Stories, Story, Effects
  <2>4. Story(r)'
    BY <2>1, <2>2, <2>3 DEF Story
  <2> QED
    BY <1>1, <1>3, <2>1, <2>3, <2>4, StoryOfOthers
<1>4. ASSUME request[r].step \in {"new", "admitted", "authorised"},
             request'[r].step \in {"admitted", "authorised", "working"},
             request'[r].step = "working" => request'[r].pc = 1,
             \A x \in Request : x # r => request'[x] = request[x],
             UNCHANGED <<late, records>>
      PROVE  Stories'
  <2>1. log'[r] = "none" /\ r \notin Effects'
    BY <1>4 DEF Stories, Story, Effects, records
  <2>2. Story(r)'
    BY <1>4, <2>1 DEF Story
  <2> QED
    BY <1>1, <1>4, <2>2, StoryOfOthers DEF records
<1>5. ASSUME Refuse(r), request[r].step \in {"new", "admitted", "authorised"} PROVE Stories'
  BY <1>3, <1>5 DEF Refuse, Deny, DenyUnrecorded, records
<1>6. ASSUME NEW a \in Account, NEW action \in MayRun[r], NEW grant \in GrantLevels,
             NEW target \in Targets(action), Admit(r, a, action, target, grant)
      PROVE  Stories'
  <2>1. request'[r].step = "admitted"
    BY <1>1, <1>6 DEF Admit, Unused
  <2> QED
    BY <1>1, <1>4, <1>6, <2>1 DEF Admit
<1>7. request[r].step \in {"admitted", "authorised"} => request[r].pc = 1
  BY DEF Stories, TypeInv, RequestOK, Consistent
<1>8. ASSUME RequirePermission(r) PROVE Stories'
  <2>1. CASE Can(account[request[r].by].level, Actions[request[r].action].needs)
    BY <1>1, <1>4, <1>8, <2>1 DEF RequirePermission, RequestState
  <2> QED
    BY <1>5, <1>8, <2>1 DEF RequirePermission
<1>9. ASSUME LoadTarget(r) PROVE Stories'
  <2>1. CASE Permitted(r)
    BY <1>1, <1>4, <1>7, <1>9, <2>1 DEF LoadTarget, RequestState
  <2> QED
    BY <1>5, <1>9, <2>1 DEF LoadTarget
<1>10. ASSUME FindNode(r) \/ FindTree(r) PROVE Stories'
  BY <1>1, <1>4, <1>7, <1>10 DEF FindNode, FindTree, Find, RequestState
<1>11. ASSUME NotFromThePanel(r) \/ TurnAway(r) \/ FormRejected(r) PROVE Stories'
  BY <1>3, <1>11 DEF NotFromThePanel, TurnAway, FormRejected, records
<1> QED
  BY <1>5, <1>6, <1>8, <1>9, <1>10, <1>11 DEF Gate, OutsideAllowlist

\* A statement ends. Those that write have made the change; at the others the write
\* has come before.
LEMMA StatementStory ==
  ASSUME Stories, StaffAssumption, NEW r \in Request, TypeInv', request[r].step = "working",
         Advance(r) \/ \E outcome \in {"ok", "error"} : Finish(r, outcome),
         request[r].action \in InDatabase =>
           r \in done' \/ Finish(r, "error"),
         log' = log, done \subseteq done', done' \subseteq done \cup {r},
         executed' \subseteq executed \cup {r}, late' \subseteq late \cup {r}
  PROVE  Stories'
<1>1. request[r] \in RequestState /\ log[r] = "none" /\ request[r].outcome # "lost"
  BY DEF Stories, TypeInv, RequestOK, Story, Consistent
<1>2. /\ request'[r].action = request[r].action
      /\ \/ request'[r].step = "recording"
         \/ request'[r].step = "working"
      /\ Finish(r, "error") => request'[r].step = "recording" /\ request'[r].outcome = "error"
      /\ \A x \in Request : x # r => request'[x] = request[x]
  <2>1. ASSUME NEW outcome \in {"ok", "error"}, Finish(r, outcome)
        PROVE  /\ request'[r].action = request[r].action
               /\ request'[r].step = "recording" /\ request'[r].outcome = outcome
               /\ \A x \in Request : x # r => request'[x] = request[x]
    <3>1. /\ request'[r] = [request[r] EXCEPT !.step = "recording", !.outcome = outcome]
          /\ \A x \in Request : x # r => request'[x] = request[x]
      BY <2>1, FinishTyped DEF Stories
    <3> QED
      BY <1>1, <3>1 DEF RequestState
  <2>2. ASSUME Advance(r)
        PROVE  /\ request'[r].action = request[r].action
               /\ request'[r].step \in {"recording", "working"}
               /\ \A x \in Request : x # r => request'[x] = request[x]
    <3>1. /\ \/ request'[r] = [request[r] EXCEPT !.step = "recording", !.outcome = "ok"]
             \/ request'[r] = [request[r] EXCEPT !.pc = @ + 1]
          /\ \A x \in Request : x # r => request'[x] = request[x]
      BY <2>2, AdvanceTyped DEF Stories
    <3>2. CASE request'[r] = [request[r] EXCEPT !.step = "recording", !.outcome = "ok"]
      BY <1>1, <3>1, <3>2 DEF RequestState
    <3>3. CASE request'[r] = [request[r] EXCEPT !.pc = @ + 1]
      BY <1>1, <3>1, <3>3 DEF RequestState
    <3> QED
      BY <3>1, <3>2, <3>3
  <2> QED
    BY <2>1, <2>2
<1>3. Story(r)'
  BY <1>1, <1>2 DEF Story
<1> QED
  BY <1>2, <1>3, StoryOfOthers

LEMMA StatementsStory ==
  ASSUME Stories, StaffAssumption, NEW r \in Request, Statement(r)
  PROVE  Stories'
<1>1. TypeInv'
  BY StatementTyped DEF Stories
<1>2. ASSUME request[r].step = "working", Written(r) PROVE Stories'
  BY <1>1, <1>2, StatementStory DEF Written
<1>3. ASSUME NEW statement, At(r, statement), statement \notin Writes,
             Advance(r) \/ \E outcome \in {"ok", "error"} : Finish(r, outcome),
             log' = log, late' = late, executed' = executed,
             done \subseteq done', done' \subseteq done \cup {r}
      PROVE  Stories'
  <2>1. request[r].step = "working" /\ (request[r].action \in InDatabase => r \in done')
    BY <1>3, WriteComesFirst DEF At
  <2> QED
    BY <1>1, <1>3, <2>1, StatementStory
<1>4. ASSUME \/ BanAccount(r) \/ UnbanAccount(r) \/ SetPassword(r) \/ SetGmLevel(r)
             \/ SetMute(r) \/ SetLocked(r) \/ QueueAtLogin(r)
             \/ StoreMotd(r) \/ SetMaintenance(r) \/ EditNode(r) \/ EditTree(r)
      PROVE  Stories'
  BY <1>2, <1>4 DEF BanAccount, UnbanAccount, SetPassword, SetGmLevel, SetMute, SetLocked,
    QueueAtLogin, StoreMotd, SetMaintenance, EditNode, EditTree, At
<1>5. ASSUME RevokeSessions(r) PROVE Stories'
  BY <1>3, <1>5 DEF RevokeSessions, Writes, records
<1>6. ASSUME AssertOffline(r) \/ TeleportDestination(r) PROVE Stories'
  BY <1>3, <1>6 DEF AssertOffline, TeleportDestination, Writes, records
<1>7. ASSUME EditCharacter(r) PROVE Stories'
  BY <1>3, <1>7 DEF EditCharacter, Writes
<1>8. ASSUME WorkFails(r) PROVE Stories'
  BY <1>1, <1>8, StatementStory DEF WorkFails, MayThrow, records
<1> QED
  BY <1>4, <1>5, <1>6, <1>7, <1>8 DEF Statement

LEMMA ConsoleStory ==
  ASSUME Stories, StaffAssumption, NEW r \in Request, Console(r)
  PROVE  Stories'
<1>1. TypeInv'
  BY ConsoleTyped DEF Stories
<1>2. ASSUME AtConsole(r), Advance(r), log' = log, done' = done,
             executed' \subseteq executed \cup {r}, late' \subseteq late \cup {r}
      PROVE  Stories'
  <2>1. At(r, Work(r)[request[r].pc]) /\ Work(r)[request[r].pc] \in ConsoleCommands
    BY <1>2 DEF AtConsole, At
  <2>2. Work(r)[request[r].pc] \notin Writes
    BY <2>1 DEF ConsoleCommands, Writes
  <2>3. request[r].step = "working" /\ (request[r].action \in InDatabase => r \in done')
    BY <1>2, <2>1, <2>2, WriteComesFirst DEF At
  <2> QED
    BY <1>1, <1>2, <2>3, StatementStory
<1>3. ASSUME NobodyToKick(r) PROVE Stories'
  BY <1>2, <1>3 DEF NobodyToKick, At, AtConsole, ConsoleCommands, records
<1>4. ASSUME ConsoleAnswers(r) PROVE Stories'
  BY <1>2, <1>4 DEF ConsoleAnswers, Execute
<1>5. ASSUME NEW sent \in BOOLEAN, ConsoleFails(r, sent) PROVE Stories'
  BY <1>2, <1>5 DEF ConsoleFails, records
<1>6. ASSUME ExecuteLate(r) PROVE Stories'
  <2>1. /\ r \in Effects
        /\ executed' = executed \cup {r} /\ late' = late \ {r}
        /\ UNCHANGED <<request, log, done>>
    BY <1>6 DEF ExecuteLate, Execute, Effects
  <2>2. Story(r)'
    BY <2>1 DEF Stories, Story
  <2> QED
    BY <1>1, <2>1, <2>2, StoryOfOthers
<1> QED
  BY <1>3, <1>4, <1>5, <1>6 DEF Console

LEMMA AuditStory ==
  ASSUME Stories, StaffAssumption, NEW r \in Request, Audit(r)
  PROVE  Stories'
<1>1. TypeInv' /\ request[r] \in RequestState /\ log \in [Request -> {"none", "denied", "ok", "error"}]
  BY AuditTyped DEF Stories, TypeInv, RequestOK, RecordsOK
<1>2. request[r].step = "recording" /\ request[r].outcome \in {"ok", "error"} /\ log[r] = "none"
  BY DEF Audit, Record, RecordFails, Stories, Story, TypeInv, RequestOK, RequestState, Consistent
<1>3. UNCHANGED <<done, executed, late>>
  BY DEF Audit, Record, RecordFails, records
<1>4. ASSUME NEW outcome \in {"ok", "error", "lost"}, End(r, outcome)
      PROVE  /\ request'[r].step = "ended" /\ request'[r].outcome = outcome
             /\ request'[r].action = request[r].action
             /\ \A x \in Request : x # r => request'[x] = request[x]
  <2>1. request'[r] = Over(r, outcome) /\ \A x \in Request : x # r => request'[x] = request[x]
    BY <1>4, EndTyped DEF Stories
  <2> QED
    BY <2>1 DEF Over, Unused
<1>5. CASE Record(r)
  <2>1. /\ log'[r] = request[r].outcome /\ \A x \in Request : x # r => log'[x] = log[x]
        /\ End(r, request[r].outcome)
    BY <1>1, <1>5 DEF Record, LineOf
  <2>2. /\ request'[r].step = "ended" /\ request'[r].action = request[r].action
        /\ \A x \in Request : x # r => request'[x] = request[x]
    BY <1>2, <1>4, <2>1
  <2>3. Story(r)'
    BY <1>2, <1>3, <2>1, <2>2 DEF Stories, Story
  <2> QED
    BY <1>1, <1>3, <2>1, <2>2, <2>3, StoryOfOthers
<1>6. CASE RecordFails(r)
  <2>1. log' = log /\ End(r, "lost")
    BY <1>6 DEF RecordFails, records
  <2>2. /\ request'[r].step = "ended" /\ request'[r].outcome = "lost"
        /\ \A x \in Request : x # r => request'[x] = request[x]
    BY <1>4, <2>1
  <2>3. Story(r)'
    BY <1>2, <2>1, <2>2 DEF Story
  <2> QED
    BY <1>1, <1>3, <2>1, <2>2, <2>3, StoryOfOthers
<1> QED
  BY <1>5, <1>6 DEF Audit

LEMMA OthersStory ==
  ASSUME Stories, StaffAssumption, Others
  PROVE  Stories'
<1>1. TypeInv'
  BY OthersTyped DEF Stories
<1>2. CASE UNCHANGED <<request, records>> /\ late' \subseteq late
  BY <1>1, <1>2 DEF Stories, Story, Effects, records
<1>3. CASE PanelDies
  <2>1. UNCHANGED <<late, records>>
    BY <1>3 DEF PanelDies
  <2>2. ASSUME NEW r \in Request PROVE Story(r)'
    <3>1. CASE UnderWay(r)
      <4>1. request'[r].step = "ended" /\ request'[r].outcome = "lost"
        BY <1>3, <3>1 DEF PanelDies, Over, Unused
      <4>2. log'[r] = "none"
        BY <2>1, <3>1 DEF Stories, Story, UnderWay, records
      <4> QED
        BY <4>1, <4>2 DEF Story
    <3>2. CASE ~UnderWay(r)
      <4>1. request'[r] = request[r]
        BY <1>3, <3>2 DEF PanelDies
      <4> QED
        BY <2>1, <4>1 DEF Stories, Story, Effects, records
    <3> QED
      BY <3>1, <3>2
  <2> QED
    BY <1>1, <2>2 DEF Stories
<1> QED
  BY <1>2, <1>3 DEF Others, SignIn, ConsoleSetsLevel, LogIn, LogOut, WorldCrashes, WorldStarts

LEMMA StoriesKept ==
  ASSUME Stories, StaffAssumption, [Next]_vars
  PROVE  Stories'
<1>1. CASE UNCHANGED vars
  <2>1. TypeInv'
    BY TypeKept DEF Stories
  <2> QED
    BY <1>1, <2>1 DEF vars, Stories, Story, Effects
<1> QED
  BY <1>1, GateStory, StatementsStory, ConsoleStory, AuditStory, OthersStory DEF Next

LEMMA StoriesBegin ==
  ASSUME StaffAssumption, Init
  PROVE  Stories
BY TypeInit DEF Init, Stories, Story, Effects, Unused

\* What a request did, to the database or to the world, has its line, is about to get
\* it, or belongs to a request that was cut short, even where the worldserver
\* executes a command the panel had given up on.
THEOREM EffectsAreTraced == Spec => []EffectsTraced
<1>1. Init => Stories
  BY StoriesBegin, StaffAssumption
<1>2. Stories /\ [Next]_vars => Stories'
  BY StoriesKept, StaffAssumption
<1> QED
  BY <1>1, <1>2, StoriesImply, PTL DEF Spec

\* A line that says ok of a change of the database stands for a change that was made.
THEOREM LogIsTrue == Spec => []LoggedChangeWasMade
<1>1. Init => Stories
  BY StoriesBegin, StaffAssumption
<1>2. Stories /\ [Next]_vars => Stories'
  BY StoriesKept, StaffAssumption
<1> QED
  BY <1>1, <1>2, StoriesImply, PTL DEF Spec

=============================================================================
