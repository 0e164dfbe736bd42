------------------------- MODULE ItemStagingProofs -------------------------
(***************************************************************************)
(* Proofs about ItemStaging, for any operators, items, masks and number of *)
(* changes.                                                                *)
(***************************************************************************)
EXTENDS ItemStaging, TLAPS

USE DEF Ids, Outcome, Idle

\* What a promotion holds is what its row says: rows change in nothing but
\* their state, so the copy an operator read never grows stale in the rest.
FaithfulCopy ==
  \A o \in Operators :
    op[o].step = "promote" =>
      /\ op[o].id \in DOMAIN changes
      /\ op[o].entry = changes[op[o].id].entry
      /\ op[o].old = changes[op[o].id].old

\* A good outcome about to be recorded is one that happened.
HonestOutcome ==
  \A o \in Operators :
    op[o].step = "record" /\ op[o].outcome = "ok" => op[o].id \in applied

StagingInv == TypeOK /\ FaithfulCopy /\ HonestOutcome /\ PromotedWasApplied

\* Closing a row keeps the table's shape, and of every row all but the state.
LEMMA CloseKeepsRows ==
  ASSUME TypeOK, NEW id \in DOMAIN changes, NEW s \in {"promoted", "withdrawn"}
  PROVE  /\ Close(id, s) \in Seq(Change)
         /\ Len(Close(id, s)) = Len(changes)
         /\ \A i \in DOMAIN changes :
              /\ Close(id, s)[i].entry = changes[i].entry
              /\ Close(id, s)[i].old = changes[i].old
              /\ i # id \/ changes[i].state # "staged" => Close(id, s)[i] = changes[i]
              /\ Close(id, s)[i].state \in {changes[i].state, s}
<1>1. CASE changes[id].state # "staged"
  BY <1>1 DEF TypeOK, Close, Change
<1>2. CASE changes[id].state = "staged"
  <2>1. Close(id, s) = [changes EXCEPT ![id].state = s]
    BY <1>2 DEF Close
  <2>2. changes \in [1..Len(changes) -> Change] /\ DOMAIN changes = 1..Len(changes)
    BY DEF TypeOK
  <2>3. [changes[id] EXCEPT !.state = s] \in Change
    BY <2>2 DEF Change
  <2>4. Close(id, s) \in [1..Len(changes) -> Change]
    BY <2>1, <2>2, <2>3
  <2>5. Len(changes) \in Nat
    BY DEF TypeOK
  <2>6. Close(id, s) \in Seq(Change) /\ Len(Close(id, s)) = Len(changes)
    BY <2>4, <2>5
  <2>7. \A i \in DOMAIN changes : changes[i] \in Change
    BY <2>2
  <2>8. \A i \in DOMAIN changes :
          Close(id, s)[i] = IF i = id THEN [changes[i] EXCEPT !.state = s] ELSE changes[i]
    BY <2>1, <2>2
  <2> QED
    BY <1>2, <2>6, <2>7, <2>8 DEF Change
<1> QED
  BY <1>1, <1>2

\* An operator whose action takes its next step; the others stay where they are.
LEMMA ProceedTyped ==
  ASSUME TypeOK, NEW o \in Operators, NEW next \in Operation, Proceed(o, next)
  PROVE  /\ op' \in [Operators -> Operation]
         /\ op'[o] = next
         /\ \A x \in Operators : x # o => op'[x] = op[x]
BY DEF TypeOK, Proceed

----------------------------------------------------------------------------
(* Each action keeps StagingInv.                                            *)

LEMMA StageReadKeeps ==
  ASSUME StagingInv, NEW o \in Operators, NEW e \in Entries, NEW v \in Masks, StageRead(o, e, v)
  PROVE  StagingInv'
<1> DEFINE next == [step |-> "insert", entry |-> e, old |-> item[e], new |-> v]
<1>1. next \in Operation /\ next.step = "insert"
  BY DEF StagingInv, TypeOK, StageRead, Operation
<1>2. Proceed(o, next)
  BY DEF StageRead
<1> HIDE DEF next
<1>3. op' \in [Operators -> Operation] /\ op'[o] = next
      /\ \A x \in Operators : x # o => op'[x] = op[x]
  BY <1>1, <1>2, ProceedTyped DEF StagingInv
<1> QED
  BY <1>1, <1>3 DEF StagingInv, TypeOK, FaithfulCopy, HonestOutcome, PromotedWasApplied, StageRead

LEMMA StageInsertKeeps ==
  ASSUME StagingInv, ItemStagingAssumption, NEW o \in Operators, StageInsert(o)
  PROVE  StagingInv'
<1>1. PICK row \in Change :
        row.state = "staged" /\ changes' = Append(changes, row)
  BY DEF StagingInv, TypeOK, StageInsert, Operation, Change
<1>2. /\ changes' \in Seq(Change)
      /\ Len(changes') = Len(changes) + 1
      /\ DOMAIN changes \subseteq DOMAIN changes'
      /\ \A i \in DOMAIN changes : changes'[i] = changes[i]
      /\ \A i \in DOMAIN changes' : i \in DOMAIN changes \/ changes'[i] = row
  BY <1>1 DEF StagingInv, TypeOK
<1>3. Len(changes') <= MaxChanges
  BY <1>2 DEF StagingInv, TypeOK, StageInsert, ItemStagingAssumption
<1>4. op' \in [Operators -> Operation] /\ op'[o] = Idle
      /\ \A x \in Operators : x # o => op'[x] = op[x]
  BY ProceedTyped DEF StagingInv, StageInsert, Operation
<1>5. UNCHANGED <<item, applied, audit>>
  BY DEF StageInsert
<1>6. TypeOK'
  BY <1>2, <1>3, <1>4, <1>5 DEF StagingInv, TypeOK
<1>7. FaithfulCopy' /\ HonestOutcome'
  BY <1>2, <1>4, <1>5 DEF StagingInv, FaithfulCopy, HonestOutcome
<1>8. PromotedWasApplied'
  BY <1>1, <1>2, <1>5 DEF StagingInv, PromotedWasApplied
<1> QED
  BY <1>6, <1>7, <1>8 DEF StagingInv

LEMMA PromoteReadKeeps ==
  ASSUME StagingInv, NEW o \in Operators, NEW id \in DOMAIN changes, PromoteRead(o, id)
  PROVE  StagingInv'
<1>1. changes[id] \in Change /\ id \in Ids
  BY ItemStagingAssumption DEF StagingInv, TypeOK, ItemStagingAssumption
<1>2. PICK next \in Operation :
        /\ Proceed(o, next)
        /\ next.step \in {"promote", "record"} /\ next.id = id
        /\ next.step = "promote" => next.entry = changes[id].entry /\ next.old = changes[id].old
        /\ next.step = "record" => next.outcome = "error"
  <2>1. CASE changes[id].state = "staged"
    BY <1>1, <2>1 DEF PromoteRead, Operation, Change
  <2>2. CASE changes[id].state # "staged"
    BY <1>1, <2>2 DEF PromoteRead, Operation
  <2> QED
    BY <2>1, <2>2
<1>3. op' \in [Operators -> Operation] /\ op'[o] = next
      /\ \A x \in Operators : x # o => op'[x] = op[x]
  BY <1>2, ProceedTyped DEF StagingInv
<1>4. UNCHANGED <<item, changes, applied, audit>>
  BY DEF PromoteRead
<1>5. TypeOK'
  BY <1>2, <1>3, <1>4 DEF StagingInv, TypeOK
<1> QED
  BY <1>2, <1>3, <1>4, <1>5 DEF StagingInv, FaithfulCopy, HonestOutcome, PromotedWasApplied

LEMMA PromoteCommitKeeps ==
  ASSUME StagingInv, NEW o \in Operators, PromoteCommit(o)
  PROVE  StagingInv'
<1> DEFINE id == op[o].id
<1>1. id \in DOMAIN changes /\ id \in Ids /\ op[o].entry \in Entries /\ op[o].new \in Masks
  BY DEF StagingInv, TypeOK, PromoteCommit, Operation
<1>2. changes' = Close(id, "promoted") /\ applied' = applied \cup {id} /\ UNCHANGED audit
  BY DEF PromoteCommit
<1>3. PICK next \in Operation :
        Proceed(o, next) /\ next.step = "record" /\ next.id = id /\ next.outcome = "ok"
  BY <1>1 DEF PromoteCommit, Operation
<1>4. op' \in [Operators -> Operation] /\ op'[o] = next
      /\ \A x \in Operators : x # o => op'[x] = op[x]
  BY <1>3, ProceedTyped DEF StagingInv
<1>5. item' \in [Entries -> Masks \cup {Gone}]
  BY <1>1 DEF StagingInv, TypeOK, PromoteCommit
<1> HIDE DEF id
<1>6. /\ changes' \in Seq(Change) /\ Len(changes') = Len(changes)
      /\ \A i \in DOMAIN changes :
           /\ changes'[i].entry = changes[i].entry
           /\ changes'[i].old = changes[i].old
           /\ i # id => changes'[i] = changes[i]
  BY <1>1, <1>2, CloseKeepsRows DEF StagingInv
<1>7. DOMAIN changes' = DOMAIN changes
  BY <1>6 DEF StagingInv, TypeOK
<1>8. TypeOK'
  BY <1>1, <1>2, <1>3, <1>4, <1>5, <1>6, <1>7 DEF StagingInv, TypeOK
<1>9. FaithfulCopy'
  BY <1>3, <1>4, <1>6, <1>7 DEF StagingInv, FaithfulCopy
<1>10. HonestOutcome' /\ PromotedWasApplied'
  BY <1>2, <1>3, <1>4, <1>6, <1>7 DEF StagingInv, HonestOutcome, PromotedWasApplied
<1> QED
  BY <1>8, <1>9, <1>10 DEF StagingInv

LEMMA PromoteRollbackKeeps ==
  ASSUME StagingInv, NEW o \in Operators, PromoteRollback(o)
  PROVE  StagingInv'
<1>1. PICK next \in Operation :
        Proceed(o, next) /\ next.step = "record" /\ next.id = op[o].id /\ next.outcome = "error"
  BY DEF StagingInv, TypeOK, PromoteRollback, Operation
<1>2. op' \in [Operators -> Operation] /\ op'[o] = next
      /\ \A x \in Operators : x # o => op'[x] = op[x]
  BY <1>1, ProceedTyped DEF StagingInv
<1>3. UNCHANGED <<item, changes, applied, audit>> /\ op[o].id \in DOMAIN changes
  BY DEF PromoteRollback, StagingInv, TypeOK
<1>4. TypeOK'
  BY <1>1, <1>2, <1>3 DEF StagingInv, TypeOK
<1> QED
  BY <1>1, <1>2, <1>3, <1>4 DEF StagingInv, FaithfulCopy, HonestOutcome, PromotedWasApplied

LEMMA RecordKeeps ==
  ASSUME StagingInv, NEW o \in Operators, Record(o)
  PROVE  StagingInv'
<1>1. op' \in [Operators -> Operation] /\ op'[o] = Idle
      /\ \A x \in Operators : x # o => op'[x] = op[x]
  BY ProceedTyped DEF StagingInv, Record, Operation
<1>2. op[o].id \in DOMAIN changes /\ op[o].outcome \in Outcome
  BY DEF StagingInv, TypeOK, Record, Operation
<1>3. op[o].outcome = "ok" => op[o].id \in applied
  BY DEF StagingInv, HonestOutcome, Record
<1>4. UNCHANGED <<item, changes, applied>>
      /\ audit' = audit \cup {[id |-> op[o].id, outcome |-> op[o].outcome]}
  BY DEF Record
<1>5. TypeOK'
  BY <1>1, <1>2, <1>4 DEF StagingInv, TypeOK
<1>6. FaithfulCopy' /\ HonestOutcome'
  BY <1>1, <1>4 DEF StagingInv, FaithfulCopy, HonestOutcome
<1>7. PromotedWasApplied'
  BY <1>3, <1>4 DEF StagingInv, PromotedWasApplied
<1> QED
  BY <1>5, <1>6, <1>7 DEF StagingInv

LEMMA WithdrawKeeps ==
  ASSUME StagingInv, NEW o \in Operators, NEW id \in DOMAIN changes, Withdraw(o, id)
  PROVE  StagingInv'
<1>1. changes' = Close(id, "withdrawn") /\ UNCHANGED <<item, op, applied, audit>>
  BY DEF Withdraw
<1>2. /\ changes' \in Seq(Change) /\ Len(changes') = Len(changes)
      /\ \A i \in DOMAIN changes :
           /\ changes'[i].entry = changes[i].entry
           /\ changes'[i].old = changes[i].old
           /\ changes'[i].state \in {changes[i].state, "withdrawn"}
  BY <1>1, CloseKeepsRows DEF StagingInv
<1>3. DOMAIN changes' = DOMAIN changes
  BY <1>2 DEF StagingInv, TypeOK
<1>4. TypeOK'
  BY <1>1, <1>2, <1>3 DEF StagingInv, TypeOK
<1> QED
  BY <1>1, <1>2, <1>3, <1>4 DEF StagingInv, FaithfulCopy, HonestOutcome, PromotedWasApplied

\* StagingInv is inductive.
LEMMA StagingInvKept ==
  ASSUME StagingInv, ItemStagingAssumption, [Next]_vars
  PROVE  StagingInv'
<1>1. ASSUME NEW o \in Operators, NEW e \in Entries, NEW v \in Masks, StageRead(o, e, v)
      PROVE StagingInv'
  BY <1>1, StageReadKeeps
<1>2. ASSUME NEW o \in Operators, StageInsert(o)
      PROVE StagingInv'
  BY <1>2, StageInsertKeeps
<1>3. ASSUME NEW o \in Operators, NEW id \in DOMAIN changes, PromoteRead(o, id)
      PROVE StagingInv'
  BY <1>3, PromoteReadKeeps
<1>4. ASSUME NEW o \in Operators, NEW id \in DOMAIN changes, Withdraw(o, id)
      PROVE StagingInv'
  BY <1>4, WithdrawKeeps
<1>5. ASSUME NEW o \in Operators, PromoteCommit(o)
      PROVE StagingInv'
  BY <1>5, PromoteCommitKeeps
<1>6. ASSUME NEW o \in Operators, PromoteRollback(o)
      PROVE StagingInv'
  BY <1>6, PromoteRollbackKeeps
<1>7. ASSUME NEW o \in Operators, Record(o)
      PROVE StagingInv'
  BY <1>7, RecordKeeps
<1>8. ASSUME NEW e \in Entries, NEW v \in Masks \cup {Gone}, DataUpdate(e, v)
      PROVE StagingInv'
  BY <1>8 DEF StagingInv, TypeOK, FaithfulCopy, HonestOutcome, PromotedWasApplied, DataUpdate
<1>9. CASE PanelDies
  BY <1>9 DEF StagingInv, TypeOK, FaithfulCopy, HonestOutcome, PromotedWasApplied, PanelDies, Operation
<1>10. CASE UNCHANGED vars
  BY <1>10 DEF vars, StagingInv, TypeOK, FaithfulCopy, HonestOutcome, PromotedWasApplied
<1> QED
  BY <1>1, <1>2, <1>3, <1>4, <1>5, <1>6, <1>7, <1>8, <1>9, <1>10 DEF Next

LEMMA StagingInvHolds == Spec => []StagingInv
<1>1. ASSUME ItemStagingAssumption, Init
      PROVE StagingInv
  BY <1>1 DEF ItemStagingAssumption, Init, StagingInv, TypeOK, FaithfulCopy, HonestOutcome,
              PromotedWasApplied, Operation
<1> QED
  BY <1>1, StagingInvKept, ItemStagingAssumption, PTL DEF Spec

----------------------------------------------------------------------------
(* Theorems *)

\* Every table and every action under way keeps its shape.
THEOREM StagingTypeCorrect == Spec => []TypeOK
<1>1. StagingInv => TypeOK
  BY DEF StagingInv
<1> QED
  BY <1>1, StagingInvHolds, PTL

\* No row and no audit line claims a promotion that did not write the item.
THEOREM PromotionsAreReal == Spec => []PromotedWasApplied
<1>1. StagingInv => PromotedWasApplied
  BY DEF StagingInv
<1> QED
  BY <1>1, StagingInvHolds, PTL

\* What was decided about a change stays decided, and no promotion of it begins.
THEOREM Decided == Spec => DecidedOnce
<1>1. ASSUME StagingInv, [Next]_vars, NEW id \in DOMAIN changes, changes[id].state # "staged"
      PROVE changes'[id] = changes[id]
  <2>1. ASSUME NEW i \in DOMAIN changes, NEW s \in {"promoted", "withdrawn"}, changes' = Close(i, s)
        PROVE changes'[id] = changes[id]
    BY <1>1, <2>1, CloseKeepsRows DEF StagingInv
  <2>2. CASE UNCHANGED changes
    BY <2>2
  <2>3. ASSUME NEW o \in Operators, StageInsert(o)
        PROVE changes'[id] = changes[id]
    BY <1>1, <2>3 DEF StageInsert, StagingInv, TypeOK
  <2>4. ASSUME NEW o \in Operators, PromoteCommit(o)
        PROVE changes'[id] = changes[id]
    BY <1>1, <2>1, <2>4 DEF PromoteCommit, StagingInv, TypeOK
  <2>5. ASSUME NEW o \in Operators, NEW i \in DOMAIN changes, Withdraw(o, i)
        PROVE changes'[id] = changes[id]
    BY <2>1, <2>5 DEF Withdraw
  <2> QED
    BY <1>1, <2>2, <2>3, <2>4, <2>5
    DEF Next, vars, StageRead, PromoteRead, PromoteRollback, Record, DataUpdate, PanelDies
<1>2. ASSUME StagingInv, [Next]_vars, NEW id \in DOMAIN changes, changes[id].state # "staged",
             NEW o \in Operators, Promoting(o, id)'
      PROVE Promoting(o, id)
  <2>1. op \in [Operators -> Operation]
    BY <1>2 DEF StagingInv, TypeOK
  <2>2. CASE op'[o] = op[o]
    BY <1>2, <2>2 DEF Promoting
  <2>3. CASE op'[o].step # "promote"
    BY <1>2, <2>3 DEF Promoting
  <2>4. ASSUME NEW x \in Operators, NEW i \in DOMAIN changes, PromoteRead(x, i)
        PROVE Promoting(o, id)
    <3>1. CASE x # o
      BY <2>1, <2>2, <2>4, <3>1 DEF PromoteRead, Proceed
    <3>2. CASE x = o /\ changes[i].state = "staged"
      <4>1. op'[o].id = i
        BY <2>1, <2>4, <3>2 DEF PromoteRead, Proceed
      <4> QED
        BY <1>2, <3>2, <4>1 DEF Promoting
    <3>3. CASE x = o /\ changes[i].state # "staged"
      BY <2>1, <2>3, <2>4, <3>3 DEF PromoteRead, Proceed
    <3> QED
      BY <3>1, <3>2, <3>3
  <2>5. CASE \E x \in Operators :
               \/ \E e \in Entries, v \in Masks : StageRead(x, e, v)
               \/ StageInsert(x) \/ PromoteCommit(x) \/ PromoteRollback(x) \/ Record(x)
    BY <2>1, <2>2, <2>3, <2>5
    DEF StageRead, StageInsert, PromoteCommit, PromoteRollback, Record, Proceed, Idle
  <2>6. CASE PanelDies
    BY <2>3, <2>6 DEF PanelDies, Idle
  <2>7. CASE UNCHANGED op
    BY <2>2, <2>7
  <2> QED
    BY <1>2, <2>4, <2>5, <2>6, <2>7 DEF Next, vars, Withdraw, DataUpdate
<1>3. StagingInv /\ [Next]_vars =>
        [\A id \in DOMAIN changes :
           changes[id].state # "staged" =>
             /\ changes'[id] = changes[id]
             /\ \A o \in Operators : Promoting(o, id)' => Promoting(o, id)]_vars
  BY <1>1, <1>2
<1> QED
  BY <1>3, StagingInvHolds, PTL DEF Spec, DecidedOnce

\* A promotion overwrites the value that was reviewed and no other.
THEOREM ReviewedOnly == Spec => NothingUnreviewedOverwritten
<1>1. ASSUME StagingInv, [Next]_vars,
             NEW o \in Operators, NEW id \in DOMAIN changes,
             op[o].step = "promote", op[o].id = id, item' # item, op'[o] # op[o]
      PROVE item[changes[id].entry] = changes[id].old
  <2>1. PICK x \in Operators : PromoteCommit(x)
    BY <1>1 DEF Next, vars, StageRead, StageInsert, PromoteRead, Withdraw, PromoteRollback, Record,
                DataUpdate, PanelDies
  <2>2. x = o
    BY <1>1, <2>1 DEF PromoteCommit, Proceed, StagingInv, TypeOK
  <2> QED
    BY <1>1, <2>1, <2>2 DEF PromoteCommit, StagingInv, FaithfulCopy
<1>2. StagingInv /\ [Next]_vars =>
        [\A o \in Operators, id \in DOMAIN changes :
           op[o].step = "promote" /\ op[o].id = id /\ item' # item /\ op'[o] # op[o]
             => item[changes[id].entry] = changes[id].old]_vars
  BY <1>1
<1> QED
  BY <1>2, StagingInvHolds, PTL DEF Spec, NothingUnreviewedOverwritten
============================================================================
