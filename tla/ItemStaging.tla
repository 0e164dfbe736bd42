---------------------------- MODULE ItemStaging ----------------------------
(***************************************************************************)
(* Itemization changes of the admin panel (web-admin/src/lib/items.ts):    *)
(* an administrator stages a change of an item's AllowableClass, an owner  *)
(* promotes it into the world database or somebody withdraws it.           *)
(*                                                                         *)
(* Operators work at the same time. A server action is a sequence of       *)
(* database calls, and another operator's calls, a data update of the      *)
(* world database or the death of the panel fit between any two of them.   *)
(* One call, and one transaction, is one step: promoteChange's transaction *)
(* holds the item's row (SELECT ... FOR UPDATE) from its first read on.    *)
(***************************************************************************)
EXTENDS Naturals, Sequences

CONSTANTS
  Operators,   \* staff signed in to the panel
  Entries,     \* item_template.entry
  Masks,       \* values of AllowableClass
  Gone,        \* in place of a mask: the item is not in the table
  MaxChanges   \* bound: rows of admin_item_change

ASSUME ItemStagingAssumption ==
  /\ Gone \notin Masks
  /\ MaxChanges \in Nat

VARIABLES
  item,     \* item_template: the mask of every entry, or Gone
  changes,  \* admin_item_change, in the order of its AUTO_INCREMENT id
  op,       \* what each operator's server action will do next
  applied,  \* history: the changes a promotion has written to the item
  audit     \* admin_audit: what was recorded of each promotion

vars == <<item, changes, op, applied, audit>>

Ids == 1..MaxChanges
Change == [entry : Entries, old : Masks, new : Masks,
           state : {"staged", "promoted", "withdrawn"}]
Outcome == {"ok", "error"}

Idle == [step |-> "idle"]

\* A server action under way, with what it has read so far.
Operation ==
  {Idle}
    \cup [step : {"insert"}, entry : Entries, old : Masks, new : Masks]
    \cup [step : {"promote"}, id : Ids, entry : Entries, old : Masks, new : Masks]
    \cup [step : {"record"}, id : Ids, outcome : Outcome]

Proceed(o, next) == op' = [op EXCEPT ![o] = next]

----------------------------------------------------------------------------
(* stageChange: read the item, refuse a change that changes nothing, insert *)
(* the row with the value read.                                             *)

StageRead_AnyEntry(o, e, v) ==
  /\ op[o] = Idle
  /\ item[e] # v
  /\ Proceed(o, [step |-> "insert", entry |-> e, old |-> item[e], new |-> v])
  /\ UNCHANGED <<item, changes, applied, audit>>

StageRead(o, e, v) ==
  /\ op[o] = Idle
  /\ item[e] # Gone
  /\ item[e] # v
  /\ Proceed(o, [step |-> "insert", entry |-> e, old |-> item[e], new |-> v])
  /\ UNCHANGED <<item, changes, applied, audit>>

StageInsert(o) ==
  /\ op[o].step = "insert"
  /\ Len(changes) < MaxChanges
  /\ changes' = Append(changes, [entry |-> op[o].entry, old |-> op[o].old,
                                 new |-> op[o].new, state |-> "staged"])
  /\ Proceed(o, Idle)
  /\ UNCHANGED <<item, applied, audit>>

----------------------------------------------------------------------------
(* promoteChange: read the change, then a transaction on the item.          *)

\* getStaged. A change that is not staged any more is an error, audited.
PromoteRead_InAnyState(o, id) ==
  /\ op[o] = Idle
  /\ Proceed(o, [step |-> "promote", id |-> id, entry |-> changes[id].entry,
                 old |-> changes[id].old, new |-> changes[id].new])
  /\ UNCHANGED <<item, changes, applied, audit>>

PromoteRead(o, id) ==
  /\ op[o] = Idle
  /\ IF changes[id].state = "staged"
       THEN Proceed(o, [step |-> "promote", id |-> id, entry |-> changes[id].entry,
                        old |-> changes[id].old, new |-> changes[id].new])
       ELSE Proceed(o, [step |-> "record", id |-> id, outcome |-> "error"])
  /\ UNCHANGED <<item, changes, applied, audit>>

\* UPDATE admin_item_change SET state = s WHERE id = ? AND state = 'staged'.
Close(id, s) ==
  IF changes[id].state = "staged" THEN [changes EXCEPT ![id].state = s] ELSE changes

\* The transaction commits: the item still has the value the change was staged
\* against. Nothing looks at how many rows the second UPDATE touched.
PromoteCommit_Unchecked(o) ==
  LET p == op[o] IN
  /\ p.step = "promote"
  /\ item[p.entry] # Gone
  /\ item' = [item EXCEPT ![p.entry] = p.new]
  /\ changes' = Close(p.id, "promoted")
  /\ applied' = applied \cup {p.id}
  /\ Proceed(o, [step |-> "record", id |-> p.id, outcome |-> "ok"])
  /\ UNCHANGED audit

PromoteCommit(o) ==
  LET p == op[o] IN
  /\ p.step = "promote"
  /\ item[p.entry] = p.old
  /\ item' = [item EXCEPT ![p.entry] = p.new]
  /\ changes' = Close(p.id, "promoted")
  /\ applied' = applied \cup {p.id}
  /\ Proceed(o, [step |-> "record", id |-> p.id, outcome |-> "ok"])
  /\ UNCHANGED audit

\* The transaction is rolled back: the item has changed or is gone, or the
\* database refused one of the statements.
PromoteRollback_RowOutside(o) ==
  /\ op[o].step = "promote"
  /\ changes' = Close(op[o].id, "promoted")
  /\ Proceed(o, [step |-> "record", id |-> op[o].id, outcome |-> "error"])
  /\ UNCHANGED <<item, applied, audit>>

PromoteRollback(o) ==
  /\ op[o].step = "promote"
  /\ Proceed(o, [step |-> "record", id |-> op[o].id, outcome |-> "error"])
  /\ UNCHANGED <<item, changes, applied, audit>>

\* performAudited writes the record after the work.
Record(o) ==
  /\ op[o].step = "record"
  /\ audit' = audit \cup {[id |-> op[o].id, outcome |-> op[o].outcome]}
  /\ Proceed(o, Idle)
  /\ UNCHANGED <<item, changes, applied>>

\* withdrawChange is a single statement; zero rows is an error and no change.
Withdraw(o, id) ==
  /\ op[o] = Idle
  /\ changes[id].state = "staged"
  /\ changes' = Close(id, "withdrawn")
  /\ UNCHANGED <<item, op, applied, audit>>

----------------------------------------------------------------------------
(* The world around the panel.                                              *)

\* A data update of the world database rewrites or removes an item.
DataUpdate(e, v) ==
  /\ item[e] # v
  /\ item' = [item EXCEPT ![e] = v]
  /\ UNCHANGED <<changes, op, applied, audit>>

\* The panel's process dies: whatever its actions had still to do is not done.
PanelDies ==
  /\ \E o \in Operators : op[o] # Idle
  /\ op' = [o \in Operators |-> Idle]
  /\ UNCHANGED <<item, changes, applied, audit>>

Init ==
  /\ item \in [Entries -> Masks]
  /\ changes = <<>>
  /\ op = [o \in Operators |-> Idle]
  /\ applied = {}
  /\ audit = {}

Next ==
  \/ \E o \in Operators :
       \/ \E e \in Entries, v \in Masks : StageRead(o, e, v)
       \/ StageInsert(o)
       \/ \E id \in DOMAIN changes : PromoteRead(o, id) \/ Withdraw(o, id)
       \/ PromoteCommit(o)
       \/ PromoteRollback(o)
       \/ Record(o)
  \/ \E e \in Entries, v \in Masks \cup {Gone} : DataUpdate(e, v)
  \/ PanelDies

Spec == Init /\ [][Next]_vars

----------------------------------------------------------------------------
(* Properties *)

\* Every table and every action under way has the shape the code gives it, and
\* a row an action has read is still there.
TypeOK ==
  /\ item \in [Entries -> Masks \cup {Gone}]
  /\ changes \in Seq(Change)
  /\ Len(changes) <= MaxChanges
  /\ op \in [Operators -> Operation]
  /\ \A o \in Operators : op[o].step \in {"promote", "record"} => op[o].id \in DOMAIN changes
  /\ applied \subseteq DOMAIN changes
  /\ audit \subseteq [id : DOMAIN changes, outcome : Outcome]

\* A row that says 'promoted', and an audit line that says the promotion went
\* well, are only there when the item was really written: the row is closed in
\* the item's transaction and the line is written after it.
PromotedWasApplied ==
  /\ \A id \in DOMAIN changes : changes[id].state = "promoted" => id \in applied
  /\ \A line \in audit : line.outcome = "ok" => line.id \in applied

\* The promotion of a change is under way: read as staged, not yet committed.
Promoting(o, id) == op[o].step = "promote" /\ op[o].id = id

\* Once a change was decided its row is final, and nobody takes it up again from a
\* page loaded earlier: only a promotion that had read the row before that
\* (promoteChange's check is outside its transaction) may still write the item, and
\* report ok, of a change withdrawn or promoted meanwhile.
DecidedOnce ==
  [][\A id \in DOMAIN changes :
       changes[id].state # "staged" =>
         /\ changes'[id] = changes[id]
         /\ \A o \in Operators : Promoting(o, id)' => Promoting(o, id)]_vars

\* A promotion never overwrites a value other than the one its row was staged
\* against, however long ago the operator's page read the row.
NothingUnreviewedOverwritten ==
  [][\A o \in Operators, id \in DOMAIN changes :
       op[o].step = "promote" /\ op[o].id = id /\ item' # item /\ op'[o] # op[o]
         => item[changes[id].entry] = changes[id].old]_vars
============================================================================
