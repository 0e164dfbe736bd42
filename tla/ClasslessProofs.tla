--------------------------- MODULE ClasslessProofs ---------------------------
(***************************************************************************)
(* What Classless guarantees for every set of characters, nodes, prices    *)
(* and configurations, and for queues of any length.                       *)
(*                                                                         *)
(* The sums of points come last: the recursive sum of the library is       *)
(* determined by induction over finite sets (the lemmas are those of       *)
(* ArmoryProofs), so that a purchase adds its price to what is spent.      *)
(***************************************************************************)
EXTENDS Classless, SequenceTheorems, FiniteSetTheorems, TLAPS

-----------------------------------------------------------------------------
(* The writes in flight and the database they will leave *)

\* What is settled is always a well-formed database state.
LEMMA SettledType ==
  ASSUME TypeOK, NEW p \in Player
  PROVE  Settled(p) \in Disk
  BY DEF TypeOK, Settled

\* A new write becomes what is settled for its character, and for no other.
LEMMA EnqueueSettles ==
  ASSUME TypeOK, NEW p \in Player, NEW d \in Disk, Enqueue(p, d), UNCHANGED disk
  PROVE  /\ queue' \in [Player -> Seq(Disk)]
         /\ queue'[p] = Append(queue[p], d)
         /\ Settled(p)' = d
         /\ \A q \in Player \ {p} : queue'[q] = queue[q] /\ Settled(q)' = Settled(q)
<1>1. /\ queue[p] \in Seq(Disk)
      /\ queue' = [queue EXCEPT ![p] = Append(queue[p], d)]
  BY DEF TypeOK, Enqueue
<1>2. /\ Append(queue[p], d) \in Seq(Disk)
      /\ Append(queue[p], d) # << >>
      /\ Append(queue[p], d)[Len(Append(queue[p], d))] = d
  BY <1>1
<1>3. /\ queue' \in [Player -> Seq(Disk)]
      /\ queue'[p] = Append(queue[p], d)
      /\ \A q \in Player \ {p} : queue'[q] = queue[q]
  BY <1>1, <1>2 DEF TypeOK
<1>4. Settled(p)' = d
  BY <1>2, <1>3 DEF Settled
<1>5. QED
  BY <1>3, <1>4 DEF Settled

\* The last element of a longer sequence survives its head.
LEMMA LastOfTail ==
  ASSUME NEW S, NEW s \in Seq(S), s # << >>, Len(s) # 1
  PROVE  Tail(s) # << >> /\ Tail(s)[Len(Tail(s))] = s[Len(s)]
<1>1. Len(s) \in Nat \ {0, 1}
  BY EmptySeq
<1>2. Tail(s) \in Seq(S) /\ Len(Tail(s)) = Len(s) - 1
  BY HeadTailProperties
<1>3. \A i \in 1..Len(Tail(s)) : Tail(s)[i] = s[i + 1]
  BY HeadTailProperties
<1>4. QED
  BY <1>1, <1>2, <1>3

\* Executing a write changes nothing that is settled.
LEMMA WriteBackSettles ==
  ASSUME TypeOK, NEW p \in Player, WriteBack(p)
  PROVE  /\ queue' \in [Player -> Seq(Disk)]
         /\ disk' \in [Player -> Disk]
         /\ \A q \in Player : Settled(q)' = Settled(q)
<1>1. /\ queue[p] \in Seq(Disk) /\ queue[p] # << >>
      /\ queue'[p] = Tail(queue[p]) /\ disk'[p] = queue[p][1]
      /\ \A q \in Player \ {p} : queue'[q] = queue[q] /\ disk'[q] = disk[q]
  BY DEF TypeOK, WriteBack
<1>2. queue' \in [Player -> Seq(Disk)] /\ disk' \in [Player -> Disk]
  BY <1>1 DEF TypeOK, WriteBack
<1>3. Settled(p)' = Settled(p)
  <2>1. CASE Len(queue[p]) = 1
    BY <1>1, <2>1 DEF Settled
  <2>2. CASE Len(queue[p]) # 1
    BY <1>1, <2>2, LastOfTail DEF Settled
  <2>3. QED
    BY <2>1, <2>2
<1>4. QED
  BY <1>1, <1>2, <1>3 DEF Settled

\* Rows stay rows when one is added.
LEMMA WithRowType ==
  ASSUME NEW rows \in Rows, NEW n \in Node, NEW row \in OwnedNode
  PROVE  /\ WithRow(rows, n, row) \in Rows
         /\ DOMAIN WithRow(rows, n, row) = DOMAIN rows \cup {n}
         /\ WithRow(rows, n, row)[n] = row
         /\ \A m \in DOMAIN rows \ {n} : WithRow(rows, n, row)[m] = rows[m]
<1>1. PICK S \in SUBSET Node : rows \in [S -> OwnedNode]
  BY DEF Rows
<1>2. WithRow(rows, n, row) \in [S \cup {n} -> OwnedNode]
  BY <1>1 DEF WithRow
<1>3. S \cup {n} \in SUBSET Node
  OBVIOUS
<1>4. WithRow(rows, n, row) \in Rows
  BY <1>2, <1>3 DEF Rows
<1>5. QED
  BY <1>1, <1>4 DEF WithRow

LEMMA NoRowsType == NoRows \in Rows /\ DOMAIN NoRows = {}
<1>1. NoRows \in [{} -> OwnedNode]
  BY DEF NoRows
<1>2. QED
  BY <1>1 DEF Rows, NoRows

\* The writes of the module keep the database well formed.
LEMMA WritesType ==
  ASSUME NEW d \in Disk
  PROVE  /\ DeleteRows(d) \in Disk /\ DeleteRows(d).rows = NoRows
         /\ DeleteRows(d).char = d.char
         /\ \A n \in Node, row \in OwnedNode :
              /\ InsertRow(d, n, row) \in Disk
              /\ InsertRow(d, n, row).rows = WithRow(d.rows, n, row)
              /\ InsertRow(d, n, row).char = d.char
         /\ \A c \in Character :
              /\ [d EXCEPT !.char = c] \in Disk
              /\ [d EXCEPT !.char = c].rows = d.rows
              /\ [d EXCEPT !.char = c].char = c
  BY WithRowType, NoRowsType DEF DeleteRows, InsertRow, Disk

\* What Load() reads is a catalogue.
LEMMA LoadTreesType ==
  ASSUME TypeOK
  PROVE  LoadTrees \in UNION {[S -> NodeOffer] : S \in SUBSET Node}
<1> DEFINE S == {m \in Node : nodeTable[m].enabled /\ treeTable[TreeOf[m]]}
<1>1. LoadTrees \in [S -> NodeOffer]
  BY DEF TypeOK, LoadTrees, NodeRow, NodeOffer
<1>2. S \in SUBSET Node
  OBVIOUS
<1>3. QED
  BY <1>1, <1>2

-----------------------------------------------------------------------------
(* Type correctness *)

LEMMA InitTypeOK == Init => TypeOK
<1> SUFFICES ASSUME Init PROVE TypeOK
  OBVIOUS
<1>1. /\ nodeTable \in [Node -> NodeRow] /\ treeTable \in [Tree -> BOOLEAN]
      /\ config \in Configs /\ online \in [Player -> BOOLEAN]
      /\ char \in [Player -> Character] /\ owned \in [Player -> Rows]
      /\ disk \in [Player -> Disk] /\ queue \in [Player -> Seq(Disk)]
  BY NoRowsType DEF Init, Disk
<1> DEFINE S == {m \in Node : nodeTable[m].enabled /\ treeTable[TreeOf[m]]}
<1>2. LoadTrees \in [S -> NodeOffer]
  BY <1>1 DEF LoadTrees, NodeRow, NodeOffer
<1>3. LoadTrees \in UNION {[T -> NodeOffer] : T \in SUBSET Node}
  <2>1. S \in SUBSET Node
    OBVIOUS
  <2>2. QED
    BY <1>2, <2>1
<1>4. QED
  BY <1>1, <1>3 DEF Init, TypeOK

\* Buying: the row is an OwnedNode at the price on offer.
LEMMA LearnFacts ==
  ASSUME TypeOK, NEW p \in Player, NEW n \in Node, Learn(p, n)
  PROVE  LET row == [spell |-> SpellOf[n], cost |-> nodes[n].cost, granted |-> TRUE]
         IN  /\ row \in OwnedNode
             /\ Granted(p, n) = TRUE
             /\ owned' = [owned EXCEPT ![p] = WithRow(owned[p], n, row)]
             /\ Settled(p)' = InsertRow(Settled(p), n, row)
             /\ queue'[p] = Append(queue[p], InsertRow(Settled(p), n, row))
             /\ queue' \in [Player -> Seq(Disk)]
             /\ \A q \in Player \ {p} : queue'[q] = queue[q] /\ Settled(q)' = Settled(q)
<1> DEFINE row == [spell |-> SpellOf[n], cost |-> nodes[n].cost, granted |-> TRUE]
<1>1. Granted(p, n) = TRUE
  BY DEF Learn, CanLearn, Granted
<1>2. nodes[n].cost \in Costs
  BY DEF Learn, TypeOK, NodeOffer
<1>3. row \in OwnedNode
  BY <1>2, ClasslessAssumption DEF OwnedNode
<1>4. /\ owned' = [owned EXCEPT ![p] = WithRow(owned[p], n, row)]
      /\ Enqueue(p, InsertRow(Settled(p), n, row))
      /\ UNCHANGED disk
  BY <1>1 DEF Learn
<1>5. InsertRow(Settled(p), n, row) \in Disk
  BY <1>3, SettledType, WritesType
<1>6. QED
  BY <1>1, <1>3, <1>4, <1>5, EnqueueSettles

\* Respec: the rows go and the fee was affordable.
LEMMA RespecFacts ==
  ASSUME TypeOK, NEW p \in Player, NEW fee, Respec(p, fee)
  PROVE  /\ owned' = [owned EXCEPT ![p] = NoRows]
         /\ Settled(p)' = DeleteRows(Settled(p))
         /\ queue'[p] = Append(queue[p], DeleteRows(Settled(p)))
         /\ queue' \in [Player -> Seq(Disk)]
         /\ \A q \in Player \ {p} : queue'[q] = queue[q] /\ Settled(q)' = Settled(q)
<1>1. DeleteRows(Settled(p)) \in Disk
  BY SettledType, WritesType
<1>2. QED
  BY <1>1, EnqueueSettles DEF Respec, ForgetCached

\* A save: the character as it stands, the rows as they were.
LEMMA SaveFacts ==
  ASSUME TypeOK, NEW p \in Player, SaveToDB(p), UNCHANGED disk
  PROVE  /\ Settled(p)' = [Settled(p) EXCEPT !.char = char[p]]
         /\ queue'[p] = Append(queue[p], [Settled(p) EXCEPT !.char = char[p]])
         /\ queue' \in [Player -> Seq(Disk)]
         /\ \A q \in Player \ {p} : queue'[q] = queue[q] /\ Settled(q)' = Settled(q)
<1>1. [Settled(p) EXCEPT !.char = char[p]] \in Disk
  BY SettledType, WritesType DEF TypeOK
<1>2. QED
  BY <1>1, EnqueueSettles DEF SaveToDB

\* Every step preserves the types. Only the parts a step touches are argued.
LEMMA StepTypeOK == TypeOK /\ [Next]_vars => TypeOK'
<1> SUFFICES ASSUME TypeOK, [Next]_vars PROVE TypeOK'
  OBVIOUS
<1>1. ASSUME NEW n \in Node, NEW row \in NodeRow, EditNode(n, row) PROVE TypeOK'
  BY <1>1 DEF TypeOK, EditNode
<1>2. ASSUME NEW t \in Tree, NEW enabled \in BOOLEAN, EditTree(t, enabled) PROVE TypeOK'
  BY <1>2 DEF TypeOK, EditTree
<1>3. CASE Reload
  BY <1>3, LoadTreesType DEF TypeOK, Reload
<1>4. ASSUME NEW c \in Configs, OnAfterConfigLoad(c) PROVE TypeOK'
  BY <1>4, LoadTreesType DEF TypeOK, OnAfterConfigLoad
<1>5. ASSUME NEW c \in Configs, CrashAndRestart(c) PROVE TypeOK'
  <2>1. /\ char' \in [Player -> Character] /\ owned' \in [Player -> Rows]
        /\ online' \in [Player -> BOOLEAN]
    BY <1>5, NoRowsType DEF TypeOK, CrashAndRestart, Disk
  <2>2. queue' \in [Player -> Seq(Disk)]
    BY <1>5, EmptySeq DEF CrashAndRestart
  <2>3. QED
    BY <1>5, <2>1, <2>2, LoadTreesType DEF TypeOK, CrashAndRestart
<1>6. ASSUME NEW p \in Player, NEW n \in Node, Learn(p, n) PROVE TypeOK'
  <2> DEFINE row == [spell |-> SpellOf[n], cost |-> nodes[n].cost, granted |-> TRUE]
  <2>1. /\ row \in OwnedNode
        /\ owned' = [owned EXCEPT ![p] = WithRow(owned[p], n, row)]
        /\ queue' \in [Player -> Seq(Disk)]
    BY <1>6, LearnFacts
  <2>2. WithRow(owned[p], n, row) \in Rows
    BY <2>1, WithRowType DEF TypeOK
  <2>3. owned' \in [Player -> Rows]
    BY <2>1, <2>2 DEF TypeOK
  <2>4. char' = [char EXCEPT ![p].spells = char[p].spells \cup {SpellOf[n]}]
    BY <1>6 DEF Learn
  <2>5. char' \in [Player -> Character]
    <3>1. char \in [Player -> Character] /\ SpellOf[n] \in Spell
      BY ClasslessAssumption DEF TypeOK
    <3>2. QED
      BY <2>4, <3>1 DEF Character
  <2>6. UNCHANGED <<nodeTable, treeTable, nodes, config, online, disk>>
    BY <1>6 DEF Learn, world
  <2>7. QED
    BY <2>1, <2>3, <2>5, <2>6 DEF TypeOK
<1>7. ASSUME NEW p \in Player, BrokerRespec(p) \/ GmRespec(p) PROVE TypeOK'
  <2>1. PICK fee \in Nat : Respec(p, fee) /\ fee <= char[p].money
    BY <1>7, ClasslessAssumption
    DEF BrokerRespec, GmRespec, TypeOK, Config, Character, Money
  <2>2. char[p].money - fee \in Money
    BY <2>1, ClasslessAssumption DEF TypeOK, Character, Money
  <2>3. char' \in [Player -> Character]
    BY <2>1, <2>2 DEF TypeOK, Respec, Character
  <2>4. owned' \in [Player -> Rows] /\ queue' \in [Player -> Seq(Disk)]
    BY <2>1, RespecFacts, NoRowsType DEF TypeOK
  <2>5. QED
    BY <2>1, <2>3, <2>4 DEF TypeOK, Respec, world
<1>8. ASSUME NEW p \in Player, OnPlayerLogin(p) PROVE TypeOK'
  BY <1>8 DEF TypeOK, OnPlayerLogin, Disk, world
<1>9. ASSUME NEW p \in Player, OnPlayerLogout(p) PROVE TypeOK'
  BY <1>9, SaveFacts, NoRowsType DEF TypeOK, OnPlayerLogout, ForgetCached, world
<1>10. ASSUME NEW p \in Player, PeriodicSave(p) PROVE TypeOK'
  BY <1>10, SaveFacts DEF TypeOK, PeriodicSave, world
<1>11. ASSUME NEW p \in Player, WriteBack(p) PROVE TypeOK'
  <2>1. disk' \in [Player -> Disk] /\ queue' \in [Player -> Seq(Disk)]
    BY <1>11, WriteBackSettles
  <2>2. QED
    BY <1>11, <2>1 DEF TypeOK, WriteBack, world
<1>12. ASSUME NEW p \in Player, NEW s \in Spell, LearnElsewhere(p, s) PROVE TypeOK'
  BY <1>12 DEF TypeOK, LearnElsewhere, Character, world
<1>13. ASSUME NEW p \in Player, LevelUp(p) PROVE TypeOK'
  <2>1. char[p].level + 1 \in Level
    BY <1>13, ClasslessAssumption DEF TypeOK, LevelUp, Character, Level
  <2>2. QED
    BY <1>13, <2>1 DEF TypeOK, LevelUp, Character, world
<1>14. CASE UNCHANGED vars
  BY <1>14 DEF TypeOK, vars
<1>15. QED
  BY <1>1, <1>2, <1>3, <1>4, <1>5, <1>6, <1>7, <1>8, <1>9, <1>10, <1>11, <1>12, <1>13, <1>14
  DEF Next, Operator, InWorld

\* Whatever operators, players, crashes and configuration files do, the state
\* stays well formed; in particular no respec overdraws a purse.
THEOREM TypeCorrect == Spec => []TypeOK
<1>1. QED
  BY InitTypeOK, StepTypeOK, PTL DEF Spec

-----------------------------------------------------------------------------
(* The cache and the foundations, whatever happens *)

\* The inductive invariant: foundations are argued in the cache, and carried
\* to the database because the cache is backed by it.
CacheInv == TypeOK /\ CacheBackedByDatabase /\ FoundationHeld

\* The steps that touch neither a cache nor a row nor a write.
LEMMA QuietCacheInv ==
  ASSUME CacheInv, TypeOK', UNCHANGED <<owned, disk, queue>>
  PROVE  CacheInv'
<1>1. CacheBackedByDatabase'
  BY DEF CacheInv, CacheBackedByDatabase, Settled
<1>2. FoundationHeld'
  BY DEF CacheInv, FoundationHeld, Founded
<1>3. QED
  BY <1>1, <1>2 DEF CacheInv

\* Writing one more founded state keeps every state in flight founded.
LEMMA FoundedQueue ==
  ASSUME TypeOK, FoundationHeld, NEW p \in Player, NEW d \in Disk, Founded(d.rows),
         queue'[p] = Append(queue[p], d), \A q \in Player \ {p} : queue'[q] = queue[q]
  PROVE  \A q \in Player : \A i \in 1..Len(queue'[q]) : Founded(queue'[q][i].rows)
<1>1. queue[p] \in Seq(Disk)
  BY DEF TypeOK
<1>2. /\ Len(queue'[p]) = Len(queue[p]) + 1
      /\ queue'[p][Len(queue[p]) + 1] = d
      /\ \A i \in 1..Len(queue[p]) : queue'[p][i] = queue[p][i]
  BY <1>1
<1>3. \A i \in 1..Len(queue'[p]) : Founded(queue'[p][i].rows)
  BY <1>1, <1>2 DEF FoundationHeld
<1>4. QED
  BY <1>3 DEF FoundationHeld

\* What is settled is one of the states FoundationHeld speaks of.
LEMMA SettledFounded ==
  ASSUME TypeOK, FoundationHeld, NEW p \in Player
  PROVE  Founded(Settled(p).rows)
<1>1. queue[p] \in Seq(Disk)
  BY DEF TypeOK
<1>2. CASE queue[p] = << >>
  BY <1>2 DEF Settled, FoundationHeld
<1>3. CASE queue[p] # << >>
  <2>1. Len(queue[p]) \in 1..Len(queue[p])
    BY <1>1, <1>3, EmptySeq
  <2>2. QED
    BY <1>3, <2>1 DEF Settled, FoundationHeld
<1>4. QED
  BY <1>2, <1>3

\* A step that makes one write preserves the invariant if the state it writes
\* is founded and backs what the step leaves in the cache.
LEMMA WriteCacheInv ==
  ASSUME CacheInv, TypeOK', UNCHANGED disk,
         NEW p \in Player, NEW d \in Disk,
         Settled(p)' = d, queue'[p] = Append(queue[p], d),
         \A q \in Player \ {p} : /\ queue'[q] = queue[q] /\ Settled(q)' = Settled(q)
                                /\ owned'[q] = owned[q],
         Founded(d.rows), Founded(owned'[p]),
         \A m \in DOMAIN owned'[p] : m \in DOMAIN d.rows /\ owned'[p][m] = d.rows[m]
  PROVE  CacheInv'
<1>1. TypeOK /\ CacheBackedByDatabase /\ FoundationHeld
  BY DEF CacheInv
<1>2. CacheBackedByDatabase'
  <2>1. \A q \in Player \ {p} : \A m \in DOMAIN owned'[q] :
          m \in DOMAIN Settled(q)'.rows /\ owned'[q][m] = Settled(q)'.rows[m]
    BY <1>1 DEF CacheBackedByDatabase
  <2>2. QED
    BY <2>1 DEF CacheBackedByDatabase
<1>3. FoundationHeld'
  <2>1. \A q \in Player : \A i \in 1..Len(queue'[q]) : Founded(queue'[q][i].rows)
    BY <1>1, FoundedQueue
  <2>2. \A q \in Player : Founded(owned'[q]) /\ Founded(disk'[q].rows)
    BY <1>1 DEF FoundationHeld
  <2>3. QED
    BY <2>1, <2>2 DEF FoundationHeld, Founded
<1>4. QED
  BY <1>2, <1>3 DEF CacheInv

LEMMA LearnCacheInv ==
  ASSUME CacheInv, NEW p \in Player, NEW n \in Node, Learn(p, n), TypeOK'
  PROVE  CacheInv'
<1>1. TypeOK /\ CacheBackedByDatabase /\ FoundationHeld
  BY DEF CacheInv
<1>2. owned \in [Player -> Rows] /\ Settled(p) \in Disk /\ Settled(p).rows \in Rows
  BY <1>1, SettledType DEF TypeOK, Disk
<1>3. PICK row \in OwnedNode, d \in Disk :
        /\ d.rows = WithRow(Settled(p).rows, n, row)
        /\ owned' = [owned EXCEPT ![p] = WithRow(owned[p], n, row)]
        /\ Settled(p)' = d
        /\ queue'[p] = Append(queue[p], d)
        /\ \A q \in Player \ {p} : queue'[q] = queue[q] /\ Settled(q)' = Settled(q)
  <2> DEFINE row == [spell |-> SpellOf[n], cost |-> nodes[n].cost, granted |-> TRUE]
  <2>1. row \in OwnedNode
    BY <1>1, LearnFacts
  <2> HIDE DEF row
  <2>2. /\ InsertRow(Settled(p), n, row) \in Disk
        /\ InsertRow(Settled(p), n, row).rows = WithRow(Settled(p).rows, n, row)
    BY <1>2, <2>1, WritesType
  <2>3. /\ owned' = [owned EXCEPT ![p] = WithRow(owned[p], n, row)]
        /\ Settled(p)' = InsertRow(Settled(p), n, row)
        /\ queue'[p] = Append(queue[p], InsertRow(Settled(p), n, row))
        /\ \A q \in Player \ {p} : queue'[q] = queue[q] /\ Settled(q)' = Settled(q)
    BY <1>1, LearnFacts DEF row
  <2>4. QED
    BY <2>1, <2>2, <2>3
<1>4. owned'[p] = WithRow(owned[p], n, row) /\ \A q \in Player \ {p} : owned'[q] = owned[q]
  BY <1>2, <1>3
<1>5. /\ DOMAIN owned'[p] = DOMAIN owned[p] \cup {n} /\ owned'[p][n] = row
      /\ \A m \in DOMAIN owned[p] \ {n} : owned'[p][m] = owned[p][m]
  <2>1. owned[p] \in Rows
    BY <1>2
  <2>2. QED
    BY <1>4, <2>1, WithRowType
<1>6. /\ DOMAIN d.rows = DOMAIN Settled(p).rows \cup {n} /\ d.rows[n] = row
      /\ \A m \in DOMAIN Settled(p).rows \ {n} : d.rows[m] = Settled(p).rows[m]
  <2>1. /\ DOMAIN WithRow(Settled(p).rows, n, row) = DOMAIN Settled(p).rows \cup {n}
        /\ WithRow(Settled(p).rows, n, row)[n] = row
        /\ \A m \in DOMAIN Settled(p).rows \ {n} :
             WithRow(Settled(p).rows, n, row)[m] = Settled(p).rows[m]
    BY <1>2, WithRowType
  <2>2. QED
    BY <1>3, <2>1
<1>7. \A m \in DOMAIN owned'[p] : m \in DOMAIN d.rows /\ owned'[p][m] = d.rows[m]
  BY <1>1, <1>5, <1>6 DEF CacheBackedByDatabase
<1>8. Founded(owned'[p]) /\ Founded(d.rows)
  <2>1. Requires[n] # NoNode => Requires[n] \in DOMAIN owned[p]
    BY DEF Learn, CanLearn, HasNode
  <2>2. Requires[n] # NoNode => Requires[n] \in DOMAIN Settled(p).rows
    BY <1>1, <2>1 DEF CacheBackedByDatabase
  <2>3. Founded(owned[p]) /\ Founded(Settled(p).rows)
    BY <1>1, SettledFounded DEF FoundationHeld
  <2>4. QED
    BY <1>5, <1>6, <2>1, <2>2, <2>3 DEF Founded
<1>9. UNCHANGED disk
  BY DEF Learn
<1>10. QED
  BY <1>3, <1>4, <1>7, <1>8, <1>9, WriteCacheInv

\* Respec empties the cache and the rows together.
LEMMA RespecCacheInv ==
  ASSUME CacheInv, NEW p \in Player, NEW fee, Respec(p, fee), TypeOK'
  PROVE  CacheInv'
<1>1. TypeOK
  BY DEF CacheInv
<1>2. PICK d \in Disk :
        /\ d.rows = NoRows
        /\ owned' = [owned EXCEPT ![p] = NoRows]
        /\ Settled(p)' = d
        /\ queue'[p] = Append(queue[p], d)
        /\ \A q \in Player \ {p} : queue'[q] = queue[q] /\ Settled(q)' = Settled(q)
  <2>1. DeleteRows(Settled(p)) \in Disk /\ DeleteRows(Settled(p)).rows = NoRows
    BY <1>1, SettledType, WritesType
  <2>2. QED
    BY <1>1, <2>1, RespecFacts
<1>3. owned'[p] = NoRows /\ \A q \in Player \ {p} : owned'[q] = owned[q]
  BY <1>1, <1>2 DEF TypeOK
<1>4. Founded(d.rows) /\ Founded(owned'[p])
  BY <1>2, <1>3, NoRowsType DEF Founded
<1>5. \A m \in DOMAIN owned'[p] : m \in DOMAIN d.rows /\ owned'[p][m] = d.rows[m]
  BY <1>3, NoRowsType
<1>6. UNCHANGED disk
  BY DEF Respec
<1>7. QED
  BY <1>2, <1>3, <1>4, <1>5, <1>6, WriteCacheInv

\* A save leaves the rows as they are, and the cache as it is or empty.
LEMMA SaveCacheInv ==
  ASSUME CacheInv, NEW p \in Player, SaveToDB(p), UNCHANGED disk, TypeOK',
         owned' = owned \/ ForgetCached(p)
  PROVE  CacheInv'
<1>1. TypeOK /\ CacheBackedByDatabase /\ FoundationHeld
  BY DEF CacheInv
<1>2. PICK d \in Disk :
        /\ d.rows = Settled(p).rows
        /\ Settled(p)' = d
        /\ queue'[p] = Append(queue[p], d)
        /\ \A q \in Player \ {p} : queue'[q] = queue[q] /\ Settled(q)' = Settled(q)
  <2>1. char[p] \in Character /\ Settled(p) \in Disk
    BY <1>1, SettledType DEF TypeOK
  <2>2. /\ [Settled(p) EXCEPT !.char = char[p]] \in Disk
        /\ [Settled(p) EXCEPT !.char = char[p]].rows = Settled(p).rows
    BY <2>1, WritesType
  <2>3. QED
    BY <1>1, <2>2, SaveFacts
<1>3. /\ owned'[p] = owned[p] \/ owned'[p] = NoRows
      /\ \A q \in Player \ {p} : owned'[q] = owned[q]
  BY <1>1 DEF TypeOK, ForgetCached
<1>4. Founded(d.rows) /\ Founded(owned'[p])
  <2>1. Founded(d.rows)
    BY <1>1, <1>2, SettledFounded
  <2>2. Founded(owned[p]) /\ Founded(NoRows)
    BY <1>1, NoRowsType DEF FoundationHeld, Founded
  <2>3. QED
    BY <1>3, <2>1, <2>2
<1>5. \A m \in DOMAIN owned'[p] : m \in DOMAIN d.rows /\ owned'[p][m] = d.rows[m]
  BY <1>1, <1>2, <1>3, NoRowsType DEF CacheBackedByDatabase
<1>6. QED
  BY <1>2, <1>3, <1>4, <1>5, WriteCacheInv

\* The writer moves the oldest state in flight to the disk.
LEMMA WriteBackCacheInv ==
  ASSUME CacheInv, NEW p \in Player, WriteBack(p), TypeOK'
  PROVE  CacheInv'
<1>1. TypeOK /\ CacheBackedByDatabase /\ FoundationHeld
  BY DEF CacheInv
<1>2. /\ queue[p] \in Seq(Disk) /\ queue[p] # << >>
      /\ queue'[p] = Tail(queue[p]) /\ disk'[p] = queue[p][1]
      /\ \A q \in Player \ {p} : queue'[q] = queue[q] /\ disk'[q] = disk[q]
      /\ owned' = owned
  BY <1>1 DEF TypeOK, WriteBack
<1>3. CacheBackedByDatabase'
  BY <1>1, <1>2, WriteBackSettles DEF CacheBackedByDatabase
<1>4. Founded(disk'[p].rows)
  <2>1. 1 \in 1..Len(queue[p])
    BY <1>2, EmptySeq
  <2>2. QED
    BY <1>1, <1>2, <2>1 DEF FoundationHeld
<1>5. \A i \in 1..Len(queue'[p]) : Founded(queue'[p][i].rows)
  <2>1. /\ Len(Tail(queue[p])) = Len(queue[p]) - 1
        /\ \A i \in 1..Len(Tail(queue[p])) : Tail(queue[p])[i] = queue[p][i + 1]
        /\ Len(queue[p]) \in Nat
    BY <1>2, HeadTailProperties
  <2>2. \A i \in 1..Len(queue'[p]) : i + 1 \in 1..Len(queue[p])
    BY <1>2, <2>1
  <2>3. QED
    BY <1>1, <1>2, <2>1, <2>2 DEF FoundationHeld
<1>6. FoundationHeld'
  <2>1. \A q \in Player : Founded(owned'[q]) /\ Founded(disk'[q].rows)
    BY <1>1, <1>2, <1>4 DEF FoundationHeld
  <2>2. \A q \in Player : \A i \in 1..Len(queue'[q]) : Founded(queue'[q][i].rows)
    BY <1>1, <1>2, <1>5 DEF FoundationHeld
  <2>3. QED
    BY <2>1, <2>2 DEF FoundationHeld, Founded
<1>7. QED
  BY <1>3, <1>6 DEF CacheInv

\* Logging in with an empty queue loads exactly what is settled, or nothing.
LEMMA LoginCacheInv ==
  ASSUME CacheInv, NEW p \in Player, OnPlayerLogin(p), TypeOK'
  PROVE  CacheInv'
<1>1. TypeOK /\ CacheBackedByDatabase /\ FoundationHeld
  BY DEF CacheInv
<1>2. /\ UNCHANGED <<disk, queue>>
      /\ Settled(p) = disk[p]
      /\ owned'[p] = disk[p].rows \/ owned'[p] = owned[p]
      /\ \A q \in Player \ {p} : owned'[q] = owned[q]
  BY <1>1 DEF TypeOK, OnPlayerLogin, Settled
<1>3. \A q \in Player : Settled(q)' = Settled(q)
  BY <1>2 DEF Settled
<1>4. CacheBackedByDatabase'
  <2>1. \A n \in DOMAIN owned'[p] : /\ n \in DOMAIN Settled(p).rows
                                   /\ owned'[p][n] = Settled(p).rows[n]
    BY <1>1, <1>2 DEF CacheBackedByDatabase
  <2>2. QED
    BY <1>1, <1>2, <1>3, <2>1 DEF CacheBackedByDatabase
<1>5. FoundationHeld'
  <2>1. \A q \in Player : Founded(owned'[q])
    BY <1>1, <1>2 DEF FoundationHeld
  <2>2. QED
    BY <1>1, <1>2, <2>1 DEF FoundationHeld, Founded
<1>6. QED
  BY <1>4, <1>5 DEF CacheInv

\* A crash loses memory and the writes in flight; the disk stays founded.
LEMMA CrashCacheInv ==
  ASSUME CacheInv, NEW c \in Configs, CrashAndRestart(c), TypeOK'
  PROVE  CacheInv'
<1>1. /\ \A q \in Player : owned'[q] = NoRows /\ queue'[q] = << >>
      /\ disk' = disk
  BY DEF CrashAndRestart
<1>2. CacheBackedByDatabase'
  BY <1>1, NoRowsType DEF CacheBackedByDatabase
<1>3. FoundationHeld'
  BY <1>1, NoRowsType DEF CacheInv, FoundationHeld, Founded
<1>4. QED
  BY <1>2, <1>3 DEF CacheInv

LEMMA InitCacheInv == Init => CacheInv
<1> SUFFICES ASSUME Init PROVE CacheInv
  OBVIOUS
<1>1. \A p \in Player : /\ owned[p] = NoRows /\ disk[p].rows = NoRows
                        /\ queue[p] = << >>
  BY DEF Init
<1>2. CacheBackedByDatabase
  BY <1>1, NoRowsType DEF CacheBackedByDatabase
<1>3. FoundationHeld
  BY <1>1, NoRowsType DEF FoundationHeld, Founded
<1>4. QED
  BY <1>2, <1>3, InitTypeOK DEF CacheInv

LEMMA StepCacheInv == CacheInv /\ [Next]_vars => CacheInv'
<1> SUFFICES ASSUME CacheInv, [Next]_vars PROVE CacheInv'
  OBVIOUS
<1>1. TypeOK'
  BY StepTypeOK DEF CacheInv
<1>2. CASE Operator
  <2>1. ASSUME NEW c \in Configs, CrashAndRestart(c) PROVE CacheInv'
    BY <1>1, <2>1, CrashCacheInv
  <2>2. CASE UNCHANGED <<owned, disk, queue>>
    BY <1>1, <2>2, QuietCacheInv
  <2>3. QED
    BY <1>2, <2>1, <2>2 DEF Operator, EditNode, EditTree, Reload, OnAfterConfigLoad
<1>3. ASSUME NEW p \in Player, InWorld(p) PROVE CacheInv'
  <2>1. ASSUME NEW n \in Node, Learn(p, n) PROVE CacheInv'
    BY <1>1, <2>1, LearnCacheInv
  <2>2. CASE BrokerRespec(p) \/ GmRespec(p)
    BY <1>1, <2>2, RespecCacheInv DEF BrokerRespec, GmRespec
  <2>3. CASE OnPlayerLogin(p)
    BY <1>1, <2>3, LoginCacheInv
  <2>4. CASE OnPlayerLogout(p)
    BY <1>1, <2>4, SaveCacheInv DEF OnPlayerLogout
  <2>5. CASE PeriodicSave(p)
    BY <1>1, <2>5, SaveCacheInv DEF PeriodicSave
  <2>6. CASE WriteBack(p)
    BY <1>1, <2>6, WriteBackCacheInv
  <2>7. CASE UNCHANGED <<owned, disk, queue>>
    BY <1>1, <2>7, QuietCacheInv
  <2>8. QED
    BY <1>3, <2>1, <2>2, <2>3, <2>4, <2>5, <2>6, <2>7
    DEF InWorld, LearnElsewhere, LevelUp
<1>4. CASE UNCHANGED vars
  BY <1>1, <1>4, QuietCacheInv DEF vars
<1>5. QED
  BY <1>2, <1>3, <1>4 DEF Next

LEMMA CacheInvariant == Spec => []CacheInv
<1>1. QED
  BY InitCacheInv, StepCacheInv, PTL DEF Spec

\* The cache never claims a purchase the database is not about to hold, with
\* crashes, a switch flipped on a live realm and every re-tuning included.
THEOREM CacheBacked == Spec => []CacheBackedByDatabase
<1>1. CacheInv => CacheBackedByDatabase
  BY DEF CacheInv
<1>2. QED
  BY <1>1, CacheInvariant, PTL

\* No character is recorded anywhere with an ability whose foundation it does
\* not own: not in memory, not in any state a crash can leave on disk.
THEOREM Foundations == Spec => []FoundationHeld
<1>1. CacheInv => FoundationHeld
  BY DEF CacheInv
<1>2. QED
  BY <1>1, CacheInvariant, PTL

-----------------------------------------------------------------------------
(* Nothing but a respec undoes a purchase, nothing but a crash loses one *)

\* What is cached is held by the database as well, so a cache may be emptied.
LEMMA HeldIsSettled ==
  ASSUME CacheInv, NEW q \in Player
  PROVE  Held(q) = DOMAIN Settled(q).rows
BY DEF CacheInv, CacheBackedByDatabase, Held

LEMMA RowsAreHeld ==
  ASSUME CacheInv, NEW q \in Player,
         DOMAIN Settled(q).rows \subseteq DOMAIN Settled(q)'.rows
  PROVE  Held(q) \subseteq Held(q)'
BY HeldIsSettled DEF Held

LEMMA RowsStay ==
  ASSUME CacheInv, NEW p \in Player, InWorld(p), NEW q \in Player,
         ~BrokerRespec(q), ~GmRespec(q)
  PROVE  DOMAIN Settled(q).rows \subseteq DOMAIN Settled(q)'.rows
<1>1. TypeOK
  BY DEF CacheInv
<1>2. ASSUME NEW n \in Node, Learn(p, n)
      PROVE  DOMAIN Settled(q).rows \subseteq DOMAIN Settled(q)'.rows
  <2>1. PICK row \in OwnedNode : Settled(p)' = InsertRow(Settled(p), n, row)
    BY <1>1, <1>2, LearnFacts
  <2>2. Settled(p)'.rows = WithRow(Settled(p).rows, n, row)
    BY <1>1, <2>1, SettledType DEF InsertRow, Disk
  <2>3. DOMAIN Settled(p).rows \subseteq DOMAIN Settled(p)'.rows
    BY <2>2 DEF WithRow
  <2>4. QED
    BY <1>1, <1>2, <2>3, LearnFacts
<1>3. CASE BrokerRespec(p) \/ GmRespec(p)
  BY <1>1, <1>3, RespecFacts DEF BrokerRespec, GmRespec
<1>4. CASE OnPlayerLogout(p) \/ PeriodicSave(p)
  <2>1. SaveToDB(p) /\ UNCHANGED disk
    BY <1>4 DEF OnPlayerLogout, PeriodicSave
  <2>2. Settled(p) \in Disk /\ Settled(p)' = [Settled(p) EXCEPT !.char = char[p]]
    BY <1>1, <2>1, SaveFacts, SettledType
  <2>3. Settled(p)'.rows = Settled(p).rows
    BY <2>2 DEF Disk
  <2>4. QED
    BY <1>1, <2>1, <2>3, SaveFacts
<1>5. CASE WriteBack(p)
  BY <1>1, <1>5, WriteBackSettles
<1>6. CASE UNCHANGED <<disk, queue>>
  BY <1>6 DEF Settled
<1>7. QED
  BY <1>2, <1>3, <1>4, <1>5, <1>6 DEF InWorld, OnPlayerLogin, LearnElsewhere, LevelUp

\* Half of PurchaseReachesDatabase: whatever the players and the operators do, a
\* purchase stays cached, on its way or written until a respec undoes it or a crash
\* loses it; not one logout, save, edit or flip of the switch forgets it.
THEOREM PurchasesStay == Spec => NothingForgotten
<1>1. CacheInv /\ [Next]_vars =>
        [\A p \in Player :
           \/ Held(p) \subseteq Held(p)'
           \/ BrokerRespec(p) \/ GmRespec(p)
           \/ \E c \in Configs : CrashAndRestart(c)]_vars
  <2> SUFFICES ASSUME CacheInv, Next, NEW q \in Player,
                      ~BrokerRespec(q), ~GmRespec(q), ~\E c \in Configs : CrashAndRestart(c)
               PROVE  Held(q) \subseteq Held(q)'
    OBVIOUS
  <2>1. CASE Operator
    <3>1. UNCHANGED <<disk, queue>>
      BY <2>1 DEF Operator, EditNode, EditTree, Reload, OnAfterConfigLoad
    <3>2. QED
      BY <3>1, RowsAreHeld DEF Settled
  <2>2. CASE \E p \in Player : InWorld(p)
    BY <2>2, RowsStay, RowsAreHeld
  <2>3. QED
    BY <2>1, <2>2 DEF Next
<1>2. QED
  BY <1>1, CacheInvariant, PTL DEF Spec, NothingForgotten

-----------------------------------------------------------------------------
(* The spellbook and the rows, as long as the server does not crash *)

\* What holds of a character between its purchases, its lessons and its saves:
\* the book holds what was bought and what was taught first, no spell is both or was
\* bought twice, and a character out of the world is the one that was saved.
BookKept(p) ==
  /\ SpellsOf(Settled(p).rows) \subseteq char[p].spells
  /\ char[p].native \subseteq char[p].spells
  /\ \A n \in DOMAIN Settled(p).rows : Settled(p).rows[n].spell \notin char[p].native
  /\ \A m, n \in DOMAIN Settled(p).rows :
       Settled(p).rows[m].spell = Settled(p).rows[n].spell => m = n
  /\ ~online[p] => Settled(p).char = char[p]

BookInv == CacheInv /\ \A p \in Player : BookKept(p)

LEMMA BookFrame ==
  ASSUME NEW p, BookKept(p), char'[p] = char[p], Settled(p)' = Settled(p),
         online'[p] = online[p]
  PROVE  BookKept(p)'
BY DEF BookKept

\* The spells of the rows when one is written, and when all are deleted.
LEMMA SpellsOfRows ==
  /\ SpellsOf(NoRows) = {}
  /\ \A rows \in Rows, n \in Node, row \in OwnedNode :
       /\ SpellsOf(WithRow(rows, n, row)) \subseteq SpellsOf(rows) \cup {row.spell}
       /\ row.spell \in SpellsOf(WithRow(rows, n, row))
       /\ n \notin DOMAIN rows =>
            SpellsOf(WithRow(rows, n, row)) = SpellsOf(rows) \cup {row.spell}
<1>1. SpellsOf(NoRows) = {}
  BY NoRowsType DEF SpellsOf
<1>2. ASSUME NEW rows \in Rows, NEW n \in Node, NEW row \in OwnedNode
      PROVE  /\ SpellsOf(WithRow(rows, n, row)) \subseteq SpellsOf(rows) \cup {row.spell}
             /\ row.spell \in SpellsOf(WithRow(rows, n, row))
             /\ n \notin DOMAIN rows =>
                  SpellsOf(WithRow(rows, n, row)) = SpellsOf(rows) \cup {row.spell}
  <2>1. /\ DOMAIN WithRow(rows, n, row) = DOMAIN rows \cup {n}
        /\ WithRow(rows, n, row)[n] = row
        /\ \A m \in DOMAIN rows \ {n} : WithRow(rows, n, row)[m] = rows[m]
    BY WithRowType
  <2>2. QED
    BY <2>1 DEF SpellsOf
<1>3. QED
  BY <1>1, <1>2

\* What a purchase does to the rows about to be in the database and to the book.
Buys(p, n, row) ==
  /\ row.spell = SpellOf[n] /\ row.cost = nodes[n].cost /\ row.granted
  /\ row.spell \notin char[p].spells
  /\ Settled(p).rows \in Rows
  /\ Settled(p)'.rows = WithRow(Settled(p).rows, n, row)
  /\ owned'[p] = WithRow(owned[p], n, row)
  /\ char'[p].spells = char[p].spells \cup {row.spell}
  /\ char'[p].native = char[p].native
  /\ char'[p].level = char[p].level /\ char'[p].money = char[p].money
  /\ online[p] /\ online' = online
  /\ \A q \in Player \ {p} : Settled(q)' = Settled(q) /\ char'[q] = char[q]
                            /\ owned'[q] = owned[q]

LEMMA LearnBuys ==
  ASSUME TypeOK, NEW p \in Player, NEW n \in Node, Learn(p, n)
  PROVE  \E row \in OwnedNode : Buys(p, n, row)
<1> DEFINE row == [spell |-> SpellOf[n], cost |-> nodes[n].cost, granted |-> TRUE]
<1>1. row \in OwnedNode
  BY LearnFacts
<1>2. row.spell = SpellOf[n] /\ row.cost = nodes[n].cost /\ row.granted
  OBVIOUS
<1>3. SpellOf[n] \notin char[p].spells /\ online[p] /\ online' = online
  BY DEF Learn, CanLearn
<1>4. Settled(p) \in Disk /\ Settled(p).rows \in Rows
  BY SettledType DEF Disk
<1>5. /\ Settled(p)' = InsertRow(Settled(p), n, row)
      /\ owned' = [owned EXCEPT ![p] = WithRow(owned[p], n, row)]
      /\ \A q \in Player \ {p} : Settled(q)' = Settled(q)
  BY LearnFacts
<1>6. char' = [char EXCEPT ![p].spells = char[p].spells \cup {SpellOf[n]}]
  BY DEF Learn
<1> HIDE DEF row
<1>7. Settled(p)'.rows = WithRow(Settled(p).rows, n, row)
  BY <1>1, <1>4, <1>5, WritesType
<1>8. owned'[p] = WithRow(owned[p], n, row) /\ \A q \in Player \ {p} : owned'[q] = owned[q]
  BY <1>5 DEF TypeOK
<1>9. /\ char'[p].spells = char[p].spells \cup {SpellOf[n]}
      /\ char'[p].native = char[p].native
      /\ char'[p].level = char[p].level /\ char'[p].money = char[p].money
      /\ \A q \in Player \ {p} : char'[q] = char[q]
  BY <1>6 DEF TypeOK, Character
<1>10. Buys(p, n, row)
  BY <1>2, <1>3, <1>4, <1>5, <1>7, <1>8, <1>9 DEF Buys
<1>11. QED
  BY <1>1, <1>10

LEMMA LearnBook ==
  ASSUME BookInv, NEW p \in Player, NEW n \in Node, Learn(p, n), NEW q \in Player
  PROVE  BookKept(q)'
<1>1. TypeOK /\ BookKept(p) /\ BookKept(q)
  BY DEF BookInv, CacheInv
<1>2. PICK row \in OwnedNode : Buys(p, n, row)
  BY <1>1, LearnBuys
<1>3. CASE q # p
  BY <1>1, <1>2, <1>3, BookFrame DEF Buys
<1>4. CASE q = p
  <2>1. /\ DOMAIN Settled(p)'.rows = DOMAIN Settled(p).rows \cup {n}
        /\ Settled(p)'.rows[n] = row
        /\ \A m \in DOMAIN Settled(p).rows \ {n} : Settled(p)'.rows[m] = Settled(p).rows[m]
    <3> DEFINE rows == Settled(p).rows
    <3>1. rows \in Rows
      BY <1>2 DEF Buys
    <3> HIDE DEF rows
    <3>2. /\ DOMAIN WithRow(rows, n, row) = DOMAIN rows \cup {n}
          /\ WithRow(rows, n, row)[n] = row
          /\ \A m \in DOMAIN rows \ {n} : WithRow(rows, n, row)[m] = rows[m]
      BY <3>1, WithRowType
    <3>3. QED
      BY <1>2, <3>2 DEF rows, Buys
  <2>2. SpellsOf(Settled(p)'.rows) \subseteq SpellsOf(Settled(p).rows) \cup {row.spell}
    BY <1>2, SpellsOfRows DEF Buys
  <2>3. \A m \in DOMAIN Settled(p).rows : Settled(p).rows[m].spell # row.spell
    BY <1>1, <1>2 DEF BookKept, SpellsOf, Buys
  <2>4. QED
    BY <1>1, <1>2, <1>4, <2>1, <2>2, <2>3 DEF BookKept, Buys
<1>5. QED
  BY <1>3, <1>4

\* A respec: the rows and what they granted are gone, the rest stays.
LEMMA RespecUnlearns ==
  ASSUME TypeOK, NEW p \in Player, NEW fee, Respec(p, fee)
  PROVE  /\ Settled(p)'.rows = NoRows
         /\ char'[p].spells = char[p].spells \ GrantedBy(owned[p])
         /\ char'[p].native = char[p].native
         /\ char'[p].level = char[p].level /\ char'[p].money = char[p].money - fee
         /\ owned'[p] = NoRows
         /\ online[p] /\ online' = online
         /\ \A q \in Player \ {p} : Settled(q)' = Settled(q) /\ char'[q] = char[q]
                                   /\ owned'[q] = owned[q]
<1>1. Settled(p)'.rows = NoRows
  BY SettledType, WritesType, RespecFacts
<1>2. /\ char' = [char EXCEPT ![p].spells = char[p].spells \ GrantedBy(owned[p]),
                              ![p].money = char[p].money - fee]
      /\ online[p] /\ online' = online
  BY DEF Respec
<1>3. QED
  BY <1>1, <1>2, RespecFacts DEF TypeOK, Character

LEMMA RespecBook ==
  ASSUME BookInv, NEW p \in Player, NEW fee, Respec(p, fee), NEW q \in Player
  PROVE  BookKept(q)'
<1>1. TypeOK /\ CacheBackedByDatabase /\ BookKept(p) /\ BookKept(q)
  BY DEF BookInv, CacheInv
<1>2. CASE q # p
  BY <1>1, <1>2, RespecUnlearns, BookFrame
<1>3. CASE q = p
  <2>1. GrantedBy(owned[p]) \cap char[p].native = {}
    BY <1>1 DEF GrantedBy, BookKept, CacheBackedByDatabase
  <2>2. QED
    BY <1>1, <1>3, <2>1, RespecUnlearns, NoRowsType, SpellsOfRows DEF BookKept
<1>4. QED
  BY <1>2, <1>3

\* A save: what is settled is the character as it is.
LEMMA SaveBook ==
  ASSUME BookInv, NEW p \in Player, SaveToDB(p), UNCHANGED <<disk, char>>,
         \A x \in Player \ {p} : online'[x] = online[x], NEW q \in Player
  PROVE  BookKept(q)'
<1>1. TypeOK /\ BookKept(p) /\ BookKept(q)
  BY DEF BookInv, CacheInv
<1>2. CASE q # p
  BY <1>1, <1>2, SaveFacts, BookFrame
<1>3. CASE q = p
  <2>1. Settled(p)'.rows = Settled(p).rows /\ Settled(p)'.char = char[p]
    <3>1. Settled(p)' = [Settled(p) EXCEPT !.char = char[p]]
      BY <1>1, SaveFacts
    <3>2. Settled(p) \in Disk /\ char[p] \in Character
      BY <1>1, SettledType DEF TypeOK
    <3>3. QED
      BY <3>1, <3>2 DEF Disk
  <2>2. QED
    BY <1>1, <1>3, <2>1 DEF BookKept
<1>4. QED
  BY <1>2, <1>3

\* Entering the world brings back the character that left it.
LEMMA LoginBook ==
  ASSUME BookInv, NEW p \in Player, OnPlayerLogin(p), NEW q \in Player
  PROVE  BookKept(q)'
<1>1. TypeOK /\ BookKept(p) /\ BookKept(q)
  BY DEF BookInv, CacheInv
<1>2. /\ \A x \in Player : Settled(x)' = Settled(x)
      /\ Settled(p) = disk[p] /\ ~online[p]
  BY DEF OnPlayerLogin, Settled
<1>3. char'[p] = char[p] /\ \A x \in Player \ {p} : char'[x] = char[x] /\ online'[x] = online[x]
  BY <1>1, <1>2 DEF OnPlayerLogin, TypeOK, BookKept
<1>4. online'[p]
  BY <1>1 DEF OnPlayerLogin, TypeOK
<1>5. QED
  BY <1>1, <1>2, <1>3, <1>4, BookFrame DEF BookKept

LEMMA LessonBook ==
  ASSUME BookInv, NEW p \in Player,
         LevelUp(p) \/ \E s \in Spell : LearnElsewhere(p, s), NEW q \in Player
  PROVE  BookKept(q)'
<1>1. TypeOK /\ BookKept(p) /\ BookKept(q)
  BY DEF BookInv, CacheInv
<1>2. \A x \in Player : Settled(x)' = Settled(x)
  BY DEF LevelUp, LearnElsewhere, Settled
<1>3. online[p] /\ online' = online /\ \A x \in Player \ {p} : char'[x] = char[x]
  BY <1>1 DEF LevelUp, LearnElsewhere, TypeOK
<1>4. CASE q # p
  BY <1>1, <1>2, <1>3, <1>4, BookFrame
<1>5. CASE q = p
  <2>1. CASE LevelUp(p)
    <3>1. char'[p].spells = char[p].spells /\ char'[p].native = char[p].native
      BY <1>1, <2>1 DEF LevelUp, TypeOK, Character
    <3>2. QED
      BY <1>1, <1>2, <1>3, <1>5, <3>1 DEF BookKept
  <2>2. ASSUME NEW s \in Spell, LearnElsewhere(p, s) PROVE BookKept(q)'
    <3>1. char' = [char EXCEPT ![p].spells = char[p].spells \cup {s},
                              ![p].native = char[p].native \cup ({s} \ char[p].spells)]
      BY <2>2 DEF LearnElsewhere
    <3>2. /\ char'[p].spells = char[p].spells \cup {s}
          /\ char'[p].native = char[p].native \cup ({s} \ char[p].spells)
      BY <1>1, <3>1 DEF TypeOK, Character
    <3>3. \A n \in DOMAIN Settled(p).rows :
            Settled(p).rows[n].spell \in char[p].spells
      BY <1>1 DEF BookKept, SpellsOf
    <3>4. QED
      BY <1>1, <1>2, <1>3, <1>5, <3>2, <3>3 DEF BookKept
  <2>3. QED
    BY <2>1, <2>2
<1>6. QED
  BY <1>4, <1>5

LEMMA BookStep ==
  ASSUME "crash" \notin Disturbances
  PROVE  BookInv /\ [Next]_vars => BookInv'
<1> SUFFICES ASSUME BookInv, [Next]_vars, NEW q \in Player PROVE BookKept(q)'
  BY StepCacheInv DEF BookInv
<1>1. TypeOK /\ BookKept(q)
  BY DEF BookInv, CacheInv
<1>2. CASE Operator \/ UNCHANGED vars
  <2>1. UNCHANGED <<online, char, disk, queue>>
    BY <1>2 DEF Operator, EditNode, EditTree, Reload, OnAfterConfigLoad, CrashAndRestart, vars
  <2>2. QED
    BY <1>1, <2>1, BookFrame DEF Settled
<1>3. ASSUME NEW p \in Player, InWorld(p) PROVE BookKept(q)'
  <2>1. ASSUME NEW n \in Node, Learn(p, n) PROVE BookKept(q)'
    BY <2>1, LearnBook
  <2>2. CASE BrokerRespec(p) \/ GmRespec(p)
    BY <2>2, RespecBook DEF BrokerRespec, GmRespec
  <2>3. CASE OnPlayerLogin(p)
    BY <2>3, LoginBook
  <2>4. CASE OnPlayerLogout(p)
    <3>1. \A x \in Player \ {p} : online'[x] = online[x]
      BY <1>1, <2>4 DEF OnPlayerLogout, TypeOK
    <3>2. QED
      BY <2>4, <3>1, SaveBook DEF OnPlayerLogout
  <2>5. CASE PeriodicSave(p)
    BY <2>5, SaveBook DEF PeriodicSave
  <2>6. CASE WriteBack(p)
    BY <1>1, <2>6, WriteBackSettles, BookFrame DEF WriteBack
  <2>7. CASE LevelUp(p) \/ \E s \in Spell : LearnElsewhere(p, s)
    BY <2>7, LessonBook
  <2>8. QED
    BY <1>3, <2>1, <2>2, <2>3, <2>4, <2>5, <2>6, <2>7 DEF InWorld
<1>4. QED
  BY <1>2, <1>3 DEF Next

LEMMA InitBook == Init => BookInv
<1> SUFFICES ASSUME Init, NEW p \in Player PROVE BookKept(p)
  BY InitCacheInv DEF BookInv
<1>1. /\ queue[p] = << >> /\ disk[p] = [rows |-> NoRows, char |-> char[p]]
      /\ char[p].spells = char[p].native
  BY DEF Init
<1>2. Settled(p).rows = NoRows /\ Settled(p).char = char[p]
  BY <1>1 DEF Settled
<1>3. QED
  BY <1>1, <1>2, NoRowsType, SpellsOfRows DEF BookKept

LEMMA Books ==
  ASSUME "crash" \notin Disturbances
  PROVE  Spec => []BookInv
BY InitBook, BookStep, PTL DEF Spec

\* A server that does not crash: with the switch flipped and the curve re-tuned
\* under its players, the book still holds every recorded purchase, so that
\* `.classless status` prints nothing in red, and whatever something else taught
\* while no purchase had. What was bought first and trained later is not promised:
\* a respec takes it (docs/PHASE2-BUDGET.md 2, "Known edge case").
THEOREM BooksAreComplete ==
  ASSUME "crash" \notin Disturbances
  PROVE  Spec => []BookComplete
<1>1. BookInv => BookComplete
  BY DEF BookInv, BookKept, BookComplete
<1>2. QED
  BY <1>1, Books, PTL

\* And nobody has two rows for one spell, whichever nodes grant it.
THEOREM SpellsAreChargedOnce ==
  ASSUME "crash" \notin Disturbances
  PROVE  Spec => []ChargedOncePerSpell
<1>1. BookInv => ChargedOncePerSpell
  BY DEF BookInv, BookKept, ChargedOncePerSpell
<1>2. QED
  BY <1>1, Books, PTL

-----------------------------------------------------------------------------
(* Paid for, as long as the switch is left alone too *)

\* Nothing else is in the book, a respec takes all of it back, and the cache of
\* a character in the world is exactly what the database is about to hold.
PaidFor(p) ==
  /\ char[p].spells \subseteq char[p].native \cup SpellsOf(Settled(p).rows)
  /\ \A n \in DOMAIN Settled(p).rows : Settled(p).rows[n].granted
  /\ online[p] /\ config.enable => owned[p] = Settled(p).rows

PaidInv == BookInv /\ \A p \in Player : PaidFor(p)

LEMMA PaidFrame ==
  ASSUME NEW p, PaidFor(p), config'.enable = config.enable,
         char'[p].spells = char[p].spells, char'[p].native = char[p].native,
         Settled(p)'.rows = Settled(p).rows,
         online'[p] => online[p] /\ owned'[p] = owned[p]
  PROVE  PaidFor(p)'
BY DEF PaidFor

LEMMA LearnPaid ==
  ASSUME PaidInv, NEW p \in Player, NEW n \in Node, Learn(p, n), NEW q \in Player
  PROVE  PaidFor(q)'
<1>1. TypeOK /\ PaidFor(p) /\ PaidFor(q) /\ config' = config /\ config.enable
  BY DEF PaidInv, BookInv, CacheInv, Learn, world
<1>2. PICK row \in OwnedNode : Buys(p, n, row)
  BY <1>1, LearnBuys
<1>3. CASE q # p
  BY <1>1, <1>2, <1>3, PaidFrame DEF Buys
<1>4. CASE q = p
  <2> DEFINE rows == Settled(p).rows
  <2>1. rows \in Rows /\ owned[p] = rows /\ n \notin DOMAIN owned[p]
    BY <1>1, <1>2 DEF PaidFor, Learn, CanLearn, HasNode, Buys
  <2>2. Settled(p)'.rows = WithRow(rows, n, row)
    BY <1>2 DEF Buys
  <2>3. /\ char[p].spells \subseteq char[p].native \cup SpellsOf(rows)
        /\ \A m \in DOMAIN rows : rows[m].granted
    BY <1>1 DEF PaidFor
  <2> HIDE DEF rows
  <2>0. rows \in Rows
    BY <2>1
  <2>4. /\ DOMAIN WithRow(rows, n, row) = DOMAIN rows \cup {n}
        /\ WithRow(rows, n, row)[n] = row
        /\ \A m \in DOMAIN rows \ {n} : WithRow(rows, n, row)[m] = rows[m]
    BY <2>0, WithRowType
  <2>5. SpellsOf(WithRow(rows, n, row)) = SpellsOf(rows) \cup {row.spell}
    BY <2>1, SpellsOfRows
  <2>6. owned'[p] = Settled(p)'.rows
    BY <1>2, <2>1, <2>2 DEF Buys
  <2>7. \A m \in DOMAIN Settled(p)'.rows : Settled(p)'.rows[m].granted
    BY <1>2, <2>2, <2>3, <2>4 DEF Buys
  <2>8. char'[p].spells \subseteq char'[p].native \cup SpellsOf(Settled(p)'.rows)
    BY <1>2, <2>2, <2>3, <2>5 DEF Buys
  <2>9. QED
    BY <1>4, <2>6, <2>7, <2>8 DEF PaidFor
<1>5. QED
  BY <1>3, <1>4

\* A respec in the world takes back all that was bought, and nothing else.
LEMMA RespecTakesAll ==
  ASSUME PaidInv, NEW p \in Player, NEW fee, Respec(p, fee)
  PROVE  char[p].spells \ GrantedBy(owned[p]) = char[p].native /\ owned[p] = Settled(p).rows
<1>1. BookKept(p) /\ PaidFor(p)
  BY DEF PaidInv, BookInv
<1>2. owned[p] = Settled(p).rows
  BY <1>1 DEF Respec, PaidFor
<1>3. GrantedBy(owned[p]) = SpellsOf(Settled(p).rows)
  BY <1>1, <1>2 DEF GrantedBy, SpellsOf, PaidFor
<1>4. SpellsOf(Settled(p).rows) \cap char[p].native = {}
  BY <1>1 DEF BookKept, SpellsOf
<1>5. QED
  BY <1>1, <1>2, <1>3, <1>4 DEF BookKept, PaidFor

LEMMA RespecPaid ==
  ASSUME PaidInv, NEW p \in Player, NEW fee, Respec(p, fee), NEW q \in Player
  PROVE  PaidFor(q)'
<1>1. TypeOK /\ PaidFor(q) /\ config' = config
  BY DEF PaidInv, BookInv, CacheInv, Respec, world
<1>2. CASE q # p
  BY <1>1, <1>2, RespecUnlearns, PaidFrame
<1>3. CASE q = p
  BY <1>1, <1>3, RespecUnlearns, RespecTakesAll, NoRowsType, SpellsOfRows DEF PaidFor
<1>4. QED
  BY <1>2, <1>3

LEMMA SavePaid ==
  ASSUME PaidInv, NEW p \in Player, OnPlayerLogout(p) \/ PeriodicSave(p), NEW q \in Player
  PROVE  PaidFor(q)'
<1>1. TypeOK /\ PaidFor(q) /\ config' = config /\ char' = char
  BY DEF PaidInv, BookInv, CacheInv, OnPlayerLogout, PeriodicSave, world
<1>2. SaveToDB(p) /\ UNCHANGED disk
  BY DEF OnPlayerLogout, PeriodicSave
<1>3. /\ Settled(p)'.rows = Settled(p).rows
      /\ \A x \in Player \ {p} : Settled(x)' = Settled(x)
  <2>1. Settled(p)' = [Settled(p) EXCEPT !.char = char[p]]
    BY <1>1, <1>2, SaveFacts
  <2>2. Settled(p) \in Disk /\ char[p] \in Character
    BY <1>1, SettledType DEF TypeOK
  <2>3. QED
    BY <1>1, <1>2, <2>1, <2>2, SaveFacts DEF Disk
<1>4. online'[q] => online[q] /\ owned'[q] = owned[q]
  BY <1>1 DEF OnPlayerLogout, PeriodicSave, ForgetCached, TypeOK
<1>5. QED
  BY <1>1, <1>3, <1>4, PaidFrame

LEMMA LoginPaid ==
  ASSUME PaidInv, NEW p \in Player, OnPlayerLogin(p), NEW q \in Player
  PROVE  PaidFor(q)'
<1>1. TypeOK /\ BookKept(p) /\ PaidFor(p) /\ PaidFor(q) /\ config' = config
  BY DEF PaidInv, BookInv, CacheInv, OnPlayerLogin, world
<1>2. /\ \A x \in Player : Settled(x)' = Settled(x)
      /\ Settled(p) = disk[p] /\ ~online[p]
  BY DEF OnPlayerLogin, Settled
<1>3. /\ char'[p] = char[p]
      /\ config.enable => owned'[p] = disk[p].rows
      /\ \A x \in Player \ {p} : char'[x] = char[x] /\ online'[x] = online[x] /\ owned'[x] = owned[x]
  BY <1>1, <1>2 DEF OnPlayerLogin, TypeOK, BookKept
<1>4. CASE q # p
  BY <1>1, <1>2, <1>3, <1>4, PaidFrame
<1>5. CASE q = p
  BY <1>1, <1>2, <1>3, <1>5 DEF PaidFor
<1>6. QED
  BY <1>4, <1>5

\* What is taught elsewhere and levels leave the rows and the cache alone.
LEMMA LessonFacts ==
  ASSUME TypeOK, NEW p \in Player
  PROVE  /\ LevelUp(p) =>
              /\ char'[p].spells = char[p].spells /\ char'[p].native = char[p].native
              /\ char'[p].money = char[p].money
         /\ \A s : LearnElsewhere(p, s) =>
              /\ char'[p].spells = char[p].spells \cup {s}
              /\ char'[p].native = char[p].native \cup ({s} \ char[p].spells)
              /\ char'[p].level = char[p].level /\ char'[p].money = char[p].money
         /\ LevelUp(p) \/ (\E s : LearnElsewhere(p, s)) =>
              /\ UNCHANGED <<nodeTable, treeTable, nodes, config, online, owned>>
              /\ \A x \in Player : Settled(x)' = Settled(x)
              /\ \A x \in Player \ {p} : char'[x] = char[x]
<1>1. char[p] \in Character
  BY DEF TypeOK
<1>2. LevelUp(p) => char' = [char EXCEPT ![p].level = char[p].level + 1]
  BY DEF LevelUp
<1>3. \A s : LearnElsewhere(p, s) =>
        char' = [char EXCEPT ![p].spells = char[p].spells \cup {s},
                             ![p].native = char[p].native \cup ({s} \ char[p].spells)]
  BY DEF LearnElsewhere
<1>4. LevelUp(p) \/ (\E s : LearnElsewhere(p, s)) =>
        /\ UNCHANGED <<nodeTable, treeTable, nodes, config, online, owned>>
        /\ \A x \in Player : Settled(x)' = Settled(x)
  BY DEF LevelUp, LearnElsewhere, world, Settled
<1>5. ASSUME LevelUp(p)
      PROVE  /\ char'[p].spells = char[p].spells /\ char'[p].native = char[p].native
             /\ char'[p].money = char[p].money
             /\ \A x \in Player \ {p} : char'[x] = char[x]
  BY <1>1, <1>2, <1>5 DEF TypeOK, Character
<1>6. ASSUME NEW s, LearnElsewhere(p, s)
      PROVE  /\ char'[p].spells = char[p].spells \cup {s}
             /\ char'[p].native = char[p].native \cup ({s} \ char[p].spells)
             /\ char'[p].level = char[p].level /\ char'[p].money = char[p].money
             /\ \A x \in Player \ {p} : char'[x] = char[x]
  <2>1. char' = [char EXCEPT ![p].spells = char[p].spells \cup {s},
                             ![p].native = char[p].native \cup ({s} \ char[p].spells)]
    BY <1>3, <1>6
  <2>2. QED
    BY <1>1, <2>1 DEF TypeOK, Character
<1>7. QED
  BY <1>4, <1>5, <1>6

LEMMA PaidStep ==
  ASSUME "crash" \notin Disturbances, "toggle" \notin Disturbances
  PROVE  PaidInv /\ [Next]_vars => PaidInv'
<1> SUFFICES ASSUME PaidInv, [Next]_vars, NEW q \in Player PROVE PaidFor(q)'
  BY BookStep DEF PaidInv
<1>1. TypeOK /\ PaidFor(q)
  BY DEF PaidInv, BookInv, CacheInv
<1>2. CASE Operator \/ UNCHANGED vars
  <2>1. UNCHANGED <<online, char, owned, disk, queue>> /\ config'.enable = config.enable
    BY <1>2 DEF Operator, EditNode, EditTree, Reload, OnAfterConfigLoad, CrashAndRestart,
      ConfigFile, vars
  <2>2. QED
    BY <1>1, <2>1, PaidFrame DEF Settled
<1>3. ASSUME NEW p \in Player, InWorld(p) PROVE PaidFor(q)'
  <2>1. ASSUME NEW n \in Node, Learn(p, n) PROVE PaidFor(q)'
    BY <2>1, LearnPaid
  <2>2. CASE BrokerRespec(p) \/ GmRespec(p)
    BY <2>2, RespecPaid DEF BrokerRespec, GmRespec
  <2>3. CASE OnPlayerLogin(p)
    BY <2>3, LoginPaid
  <2>4. CASE OnPlayerLogout(p) \/ PeriodicSave(p)
    BY <2>4, SavePaid
  <2>5. CASE WriteBack(p)
    BY <1>1, <2>5, WriteBackSettles, PaidFrame DEF WriteBack, world
  <2>6. CASE LevelUp(p)
    BY <1>1, <2>6, LessonFacts, PaidFrame
  <2>7. ASSUME NEW s \in Spell, LearnElsewhere(p, s) PROVE PaidFor(q)'
    <3>1. CASE q # p
      BY <1>1, <2>7, <3>1, LessonFacts, PaidFrame
    <3>2. CASE q = p
      BY <1>1, <2>7, <3>2, LessonFacts DEF PaidFor
    <3>3. QED
      BY <3>1, <3>2
  <2>8. QED
    BY <1>3, <2>1, <2>2, <2>3, <2>4, <2>5, <2>6, <2>7 DEF InWorld
<1>4. QED
  BY <1>2, <1>3 DEF Next

LEMMA InitPaid == Init => PaidInv
<1> SUFFICES ASSUME Init, NEW p \in Player PROVE PaidFor(p)
  BY InitBook DEF PaidInv
<1>1. /\ queue[p] = << >> /\ disk[p] = [rows |-> NoRows, char |-> char[p]]
      /\ char[p].spells = char[p].native /\ owned[p] = NoRows
  BY DEF Init
<1>2. Settled(p).rows = NoRows
  BY <1>1 DEF Settled
<1>3. QED
  BY <1>1, <1>2, NoRowsType DEF PaidFor

LEMMA AllPaid ==
  ASSUME "crash" \notin Disturbances, "toggle" \notin Disturbances
  PROVE  Spec => []PaidInv
BY InitPaid, PaidStep, PTL DEF Spec

\* Whatever is edited, re-tuned, bought, refunded and saved, a book holds nothing
\* but what was taught elsewhere and what a recorded purchase paid for.
THEOREM NothingIsFree ==
  ASSUME "crash" \notin Disturbances, "toggle" \notin Disturbances
  PROVE  Spec => []NothingForFree
<1>1. PaidInv => NothingForFree
  BY DEF PaidInv, PaidFor, NothingForFree
<1>2. QED
  BY <1>1, AllPaid, PTL

-----------------------------------------------------------------------------
(* Sums over finite sets *)

\* Some one element of a set: the one a fold over the set takes first.
Some(S) == CHOOSE x \in S : TRUE

\* Whatever is true of a set as soon as it is true of all smaller ones is true of
\* every finite set: a smallest exception would not be one.
LEMMA BySmallerSets ==
  ASSUME NEW S, IsFiniteSet(S), NEW Good,
         \A T \in SUBSET S : (\A V \in SUBSET T : V # T => V \in Good) => T \in Good
  PROVE  \A T \in SUBSET S : T \in Good
<1> DEFINE Bad == (SUBSET S) \ Good
<1> SUFFICES ASSUME Bad # {} PROVE FALSE  OBVIOUS
<1>1. IsWellFoundedOn(StrictSubsetOrdering(S), SUBSET S)
  <2>1. IsWellFoundedOn(StrictSubsetOrdering(S), FiniteSubsetsOf(S))
    BY FS_StrictSubsetOrderingWellFounded
  <2>2. FiniteSubsetsOf(S) = SUBSET S  BY FS_FiniteSubsetsOfFinite
  <2>3. QED  BY <2>1, <2>2
<1>2. Bad \subseteq SUBSET S  OBVIOUS
<1>3. PICK T \in Bad : \A V \in Bad : ~(<<V, T>> \in StrictSubsetOrdering(S))
  <2> HIDE DEF Bad
  <2> QED  BY <1>1, <1>2, WFMin
<1>4. \A V \in SUBSET T : V # T => V \in Good
  BY <1>3 DEF StrictSubsetOrdering
<1>5. QED  BY <1>3, <1>4

\* The partial sums of f over the subsets of S, as the folds of the community
\* modules build them.
Partial(g, f, S) ==
  g = [T \in SUBSET S |-> IF T = {} THEN 0 ELSE f[Some(T)] + g[T \ {Some(T)}]]

LEMMA SumIsPartial ==
  ASSUME NEW f, NEW S
  PROVE  SumFunctionOnSet(f, S) = (CHOOSE g : Partial(g, f, S))[S]
BY Zenon DEF SumFunctionOnSet, FoldFunctionOnSet, MapThenFoldSet, Partial, Some

LEMMA PartialAt ==
  ASSUME NEW f, NEW S, NEW g, Partial(g, f, S), NEW T, T \subseteq S
  PROVE  /\ T = {} => g[T] = 0
         /\ T # {} => Some(T) \in T /\ g[T] = f[Some(T)] + g[T \ {Some(T)}]
<1>1. T # {} => Some(T) \in T  BY DEF Some
<1> DEFINE h == [U \in SUBSET S |-> IF U = {} THEN 0 ELSE f[Some(U)] + g[U \ {Some(U)}]]
<1>2. g[T] = h[T]  BY DEF Partial
<1>3. QED  BY <1>1, <1>2

LEMMA PartialSumsAgree ==
  ASSUME NEW f, NEW e, NEW S, IsFiniteSet(S), NEW A, NEW B, S \subseteq A, S \subseteq B,
         \A x \in S : f[x] = e[x],
         NEW g, Partial(g, f, A), NEW h, Partial(h, e, B)
  PROVE  g[S] = h[S]
<1> DEFINE Good == {T \in SUBSET S : g[T] = h[T]}
<1>1. ASSUME NEW T \in SUBSET S, \A V \in SUBSET T : V # T => V \in Good  PROVE g[T] = h[T]
  <2>1. T \subseteq A /\ T \subseteq B  OBVIOUS
  <2>g. /\ T = {} => g[T] = 0
        /\ T # {} => Some(T) \in T /\ g[T] = f[Some(T)] + g[T \ {Some(T)}]
    <3> HIDE DEF Good
    <3> QED  BY <2>1, PartialAt
  <2>h. /\ T = {} => h[T] = 0
        /\ T # {} => h[T] = e[Some(T)] + h[T \ {Some(T)}]
    <3> HIDE DEF Good
    <3> QED  BY <2>1, PartialAt
  <2>2. CASE T = {}  BY <2>g, <2>h, <2>2
  <2>3. CASE T # {}
    <3>1. Some(T) \in T  BY <2>g, <2>3
    <3>2. T \ {Some(T)} \in Good  BY <3>1, <1>1
    <3>3. f[Some(T)] = e[Some(T)]  BY <3>1
    <3>4. QED  BY <2>g, <2>h, <2>3, <3>2, <3>3
  <2>4. QED  BY <2>2, <2>3
<1>2. \A T \in SUBSET S : (\A V \in SUBSET T : V # T => V \in Good) => T \in Good
  BY <1>1
<1>3. \A T \in SUBSET S : T \in Good
  <2> HIDE DEF Good
  <2> QED  BY <1>2, BySmallerSets
<1>4. QED  BY <1>3

LEMMA PartialSumsExist ==
  ASSUME NEW f, NEW S, IsFiniteSet(S)
  PROVE  \E g : Partial(g, f, S)
<1> DEFINE Good == {T \in SUBSET S : \E g : Partial(g, f, T)}
<1>1. ASSUME NEW T \in SUBSET S, \A V \in SUBSET T : V # T => V \in Good
      PROVE  \E g : Partial(g, f, T)
  <2> DEFINE P(V) == CHOOSE g : Partial(g, f, V)
             s(V) == IF V = {} THEN 0 ELSE f[Some(V)] + P(V \ {Some(V)})[V \ {Some(V)}]
             g == [V \in SUBSET T |-> s(V)]
  <2>1. \A V \in SUBSET T : V # T => Partial(P(V), f, V)
    BY <1>1
  <2>2. ASSUME NEW V \in SUBSET T, V # T  PROVE s(V) = P(V)[V]
    <3>1. Partial(P(V), f, V) /\ V \subseteq V  BY <2>1, <2>2
    <3>2. CASE V = {}
      <4> HIDE DEF P
      <4>1. P(V)[V] = 0  BY <3>1, <3>2, PartialAt
      <4>2. QED  BY <4>1, <3>2
    <3>3. CASE V # {}
      <4> DEFINE W == V \ {Some(V)}
      <4>1. Some(V) \in V  BY <3>3 DEF Some
      <4>2. W \in SUBSET T /\ W # T /\ W \subseteq V  BY <4>1
      <4>3. Partial(P(W), f, W)  BY <4>2, <2>1
      <4>4. IsFiniteSet(W)  BY <4>2, FS_Subset
      <4> HIDE DEF P
      <4>5. P(V)[V] = f[Some(V)] + P(V)[W]  BY <3>1, <3>3, PartialAt
      <4>6. P(V)[W] = P(W)[W]
        <5> HIDE DEF W
        <5> QED  BY <3>1, <4>2, <4>3, <4>4, PartialSumsAgree
      <4>7. QED  BY <4>5, <4>6, <3>3
    <3>4. QED  BY <3>2, <3>3
  <2>3. ASSUME NEW V \in SUBSET T, V # {}
        PROVE  s(V) = f[Some(V)] + g[V \ {Some(V)}]
    <3> DEFINE W == V \ {Some(V)}
    <3>1. Some(V) \in V  BY <2>3 DEF Some
    <3>2. W \in SUBSET T /\ W # T  BY <3>1
    <3> HIDE DEF P
    <3>3. s(W) = P(W)[W]
      <4> HIDE DEF s, W
      <4> QED  BY <3>2, <2>2
    <3>4. g[W] = s(W)
      <4> HIDE DEF s, W
      <4> QED  BY <3>2
    <3>5. QED  BY <3>3, <3>4, <2>3
  <2>4. g = [V \in SUBSET T |-> IF V = {} THEN 0 ELSE f[Some(V)] + g[V \ {Some(V)}]]
    <3>1. ASSUME NEW V \in SUBSET T
          PROVE  s(V) = IF V = {} THEN 0 ELSE f[Some(V)] + g[V \ {Some(V)}]
      <4>1. CASE V = {}  BY <4>1
      <4>2. CASE V # {}
        <5> HIDE DEF s, g
        <5> QED  BY <4>2, <2>3
      <4>3. QED  BY <4>1, <4>2
    <3> DEFINE e(V) == IF V = {} THEN 0 ELSE f[Some(V)] + g[V \ {Some(V)}]
    <3>2. \A V \in SUBSET T : s(V) = e(V)  BY <3>1
    <3>3. [V \in SUBSET T |-> s(V)] = [V \in SUBSET T |-> e(V)]
      <4> HIDE DEF s, e
      <4> QED  BY <3>2
    <3>4. QED  BY <3>3
  <2>5. Partial(g, f, T)
    <3> HIDE DEF g
    <3> QED  BY <2>4 DEF Partial
  <2>6. QED  BY <2>5
<1>2. \A T \in SUBSET S : (\A V \in SUBSET T : V # T => V \in Good) => T \in Good
  BY <1>1
<1>3. \A T \in SUBSET S : T \in Good
  <2> HIDE DEF Good
  <2> QED  BY <1>2, BySmallerSets
<1>4. QED  BY <1>3

LEMMA SumOfPartial ==
  ASSUME NEW f, NEW S, IsFiniteSet(S), NEW A, S \subseteq A, NEW g, Partial(g, f, A)
  PROVE  SumFunctionOnSet(f, S) = g[S]
<1> DEFINE h == CHOOSE h : Partial(h, f, S)
<1>1. Partial(h, f, S)  BY PartialSumsExist
<1>2. SumFunctionOnSet(f, S) = h[S]  BY SumIsPartial
<1>3. h[S] = g[S]
  <2> HIDE DEF h
  <2> QED  BY <1>1, PartialSumsAgree
<1>4. QED  BY <1>2, <1>3

LEMMA SumOfNothing == ASSUME NEW f PROVE SumFunctionOnSet(f, {}) = 0
<1>1. IsFiniteSet({})  BY FS_EmptySet
<1>2. PICK g : Partial(g, f, {})  BY <1>1, PartialSumsExist
<1>3. SumFunctionOnSet(f, {}) = g[{}]  BY <1>1, <1>2, SumOfPartial
<1>4. g[{}] = 0  BY <1>2, PartialAt
<1>5. QED  BY <1>3, <1>4

LEMMA SumTakesSome ==
  ASSUME NEW f, NEW S, IsFiniteSet(S), S # {}
  PROVE  /\ Some(S) \in S
         /\ SumFunctionOnSet(f, S) = f[Some(S)] + SumFunctionOnSet(f, S \ {Some(S)})
<1> DEFINE V == S \ {Some(S)}
<1>1. PICK g : Partial(g, f, S)  BY PartialSumsExist
<1>2. Some(S) \in S /\ g[S] = f[Some(S)] + g[V]  BY <1>1, PartialAt
<1>3. V \subseteq S /\ IsFiniteSet(V)  BY FS_Subset
<1>4. SumFunctionOnSet(f, S) = g[S]  BY <1>1, SumOfPartial
<1>5. SumFunctionOnSet(f, V) = g[V]
  <2> HIDE DEF V
  <2> QED  BY <1>1, <1>3, SumOfPartial
<1>6. QED  BY <1>2, <1>4, <1>5

\* A sum depends on what is summed only.
LEMMA SameSums ==
  ASSUME NEW f, NEW e, NEW S, IsFiniteSet(S), \A x \in S : f[x] = e[x]
  PROVE  SumFunctionOnSet(f, S) = SumFunctionOnSet(e, S)
<1>1. PICK g : Partial(g, f, S)  BY PartialSumsExist
<1>2. PICK h : Partial(h, e, S)  BY PartialSumsExist
<1>3. SumFunctionOnSet(f, S) = g[S]  BY <1>1, SumOfPartial
<1>4. SumFunctionOnSet(e, S) = h[S]  BY <1>2, SumOfPartial
<1>5. g[S] = h[S]  BY <1>1, <1>2, PartialSumsAgree
<1>6. QED  BY <1>3, <1>4, <1>5

LEMMA SumsAreNumbers ==
  ASSUME NEW f, NEW S, IsFiniteSet(S), \A x \in S : f[x] \in Nat
  PROVE  SumFunctionOnSet(f, S) \in Nat
<1> DEFINE Good == {T \in SUBSET S : SumFunctionOnSet(f, T) \in Nat}
<1>1. ASSUME NEW T \in SUBSET S, \A V \in SUBSET T : V # T => V \in Good
      PROVE  SumFunctionOnSet(f, T) \in Nat
  <2>1. IsFiniteSet(T)  BY FS_Subset
  <2>2. CASE T = {}
    <3>1. SumFunctionOnSet(f, {}) = 0  BY SumOfNothing
    <3>2. QED  BY <3>1, <2>2
  <2>3. CASE T # {}
    <3>1. Some(T) \in T /\ SumFunctionOnSet(f, T) = f[Some(T)] + SumFunctionOnSet(f, T \ {Some(T)})
      BY <2>1, <2>3, SumTakesSome
    <3>2. SumFunctionOnSet(f, T \ {Some(T)}) \in Nat  BY <3>1, <1>1
    <3>3. f[Some(T)] \in Nat  BY <3>1
    <3>4. QED  BY <3>1, <3>2, <3>3
  <2>4. QED  BY <2>2, <2>3
<1>2. \A T \in SUBSET S : (\A V \in SUBSET T : V # T => V \in Good) => T \in Good
  BY <1>1
<1>3. \A T \in SUBSET S : T \in Good
  <2> HIDE DEF Good
  <2> QED  BY <1>2, BySmallerSets
<1>4. QED  BY <1>3

\* The order in which a sum is made does not matter: any element may be taken first.
LEMMA SumTakesAny ==
  ASSUME NEW f, NEW S, IsFiniteSet(S), \A x \in S : f[x] \in Nat, NEW y \in S
  PROVE  SumFunctionOnSet(f, S) = f[y] + SumFunctionOnSet(f, S \ {y})
<1> DEFINE sum(T) == SumFunctionOnSet(f, T)
           Good == {T \in SUBSET S : \A x \in T : sum(T) = f[x] + sum(T \ {x})}
<1>1. ASSUME NEW T \in SUBSET S, \A V \in SUBSET T : V # T => V \in Good, NEW x \in T
      PROVE  sum(T) = f[x] + sum(T \ {x})
  <2>1. IsFiniteSet(T)  BY FS_Subset
  <2>2. PICK z : z = Some(T)  OBVIOUS
  <2>3. z \in T /\ sum(T) = f[z] + sum(T \ {z})
    BY <2>1, <2>2, SumTakesSome
  <2>4. CASE x = z  BY <2>3, <2>4
  <2>5. CASE x # z
    <3> DEFINE W == T \ {x, z}
    <3>1. (T \ {z}) \ {x} = W /\ (T \ {x}) \ {z} = W  OBVIOUS
    <3>2. T \ {z} \in Good /\ T \ {x} \in Good  BY <1>1, <2>3
    <3>3. x \in T \ {z} /\ z \in T \ {x}  BY <2>3, <2>5
    <3> HIDE DEF W, sum
    <3>4. sum(T \ {z}) = f[x] + sum(W)  BY <3>1, <3>2, <3>3
    <3>5. sum(T \ {x}) = f[z] + sum(W)  BY <3>1, <3>2, <3>3
    <3>6. sum(W) \in Nat
      <4>1. IsFiniteSet(W) /\ \A u \in W : f[u] \in Nat  BY <2>1, FS_Subset DEF W
      <4>2. QED  BY <4>1, SumsAreNumbers DEF sum
    <3>7. f[x] \in Nat /\ f[z] \in Nat  BY <2>3
    <3>8. QED  BY <2>3, <3>4, <3>5, <3>6, <3>7
  <2>6. QED  BY <2>4, <2>5
<1>2. \A T \in SUBSET S : (\A V \in SUBSET T : V # T => V \in Good) => T \in Good
  BY <1>1
<1>3. \A T \in SUBSET S : T \in Good
  <2> HIDE DEF Good
  <2> QED  BY <1>2, BySmallerSets
<1>4. QED  BY <1>3

-----------------------------------------------------------------------------
(* What is spent, and what a level allows *)

\* What is spent is a number, and a purchase adds its price to it.
LEMMA FinitelyManyRows ==
  ASSUME NEW rows \in Rows
  PROVE  IsFiniteSet(DOMAIN rows) /\ \A n \in DOMAIN rows : rows[n] \in OwnedNode
<1>1. PICK S \in SUBSET Node : rows \in [S -> OwnedNode]  BY DEF Rows
<1>2. IsFiniteSet(S)  BY FS_Subset, ClasslessAssumption
<1>3. QED  BY <1>1, <1>2

LEMMA SpentIsANumber ==
  ASSUME NEW rows \in Rows
  PROVE  SpentPoints(rows) \in Nat
<1> DEFINE paid == [n \in DOMAIN rows |-> rows[n].cost]
<1>1. IsFiniteSet(DOMAIN rows) /\ \A n \in DOMAIN rows : rows[n].cost \in Nat
  BY FinitelyManyRows, ClasslessAssumption DEF OwnedNode
<1>2. DOMAIN paid = DOMAIN rows /\ \A n \in DOMAIN rows : paid[n] \in Nat
  BY <1>1
<1>3. SpentPoints(rows) = SumFunctionOnSet(paid, DOMAIN rows)
  BY <1>2 DEF SpentPoints, SumFunction
<1> HIDE DEF paid
<1>4. QED  BY <1>1, <1>2, <1>3, SumsAreNumbers

LEMMA NothingSpent == SpentPoints(NoRows) = 0
<1> DEFINE paid == [n \in DOMAIN NoRows |-> NoRows[n].cost]
<1>1. SpentPoints(NoRows) = SumFunctionOnSet(paid, {})
  BY NoRowsType DEF SpentPoints, SumFunction
<1> HIDE DEF paid
<1>2. QED  BY <1>1, SumOfNothing

LEMMA PurchaseAddsItsPrice ==
  ASSUME NEW rows \in Rows, NEW n \in Node, n \notin DOMAIN rows, NEW row \in OwnedNode
  PROVE  SpentPoints(WithRow(rows, n, row)) = row.cost + SpentPoints(rows)
<1> DEFINE more == WithRow(rows, n, row)
           paid == [m \in DOMAIN rows |-> rows[m].cost]
           then == [m \in DOMAIN more |-> more[m].cost]
<1>1. /\ more \in Rows /\ DOMAIN more = DOMAIN rows \cup {n}
      /\ more[n] = row /\ \A m \in DOMAIN rows : more[m] = rows[m]
  BY WithRowType
<1>2. IsFiniteSet(DOMAIN rows) /\ IsFiniteSet(DOMAIN more)
  BY <1>1, FinitelyManyRows
<1>3. \A m \in DOMAIN more : more[m].cost \in Nat
  BY <1>1, FinitelyManyRows, ClasslessAssumption DEF OwnedNode
<1>4. SpentPoints(more) = SumFunctionOnSet(then, DOMAIN more)
  BY DEF SpentPoints, SumFunction
<1>5. SpentPoints(rows) = SumFunctionOnSet(paid, DOMAIN rows)
  BY DEF SpentPoints, SumFunction
<1> HIDE DEF more
<1>6. /\ n \in DOMAIN more /\ (DOMAIN more) \ {n} = DOMAIN rows
      /\ then[n] = row.cost
      /\ \A m \in DOMAIN more : then[m] \in Nat
      /\ \A m \in DOMAIN rows : then[m] = paid[m]
  BY <1>1, <1>3
<1> HIDE DEF paid, then
<1>7. SumFunctionOnSet(then, DOMAIN more) = then[n] + SumFunctionOnSet(then, (DOMAIN more) \ {n})
  BY <1>2, <1>6, SumTakesAny
<1>8. SumFunctionOnSet(then, DOMAIN rows) = SumFunctionOnSet(paid, DOMAIN rows)
  BY <1>2, <1>6, SameSums
<1>9. SpentPoints(more) = row.cost + SpentPoints(rows)
  BY <1>4, <1>5, <1>6, <1>7, <1>8
<1>10. QED  BY <1>9 DEF more

LEMMA BudgetType ==
  ASSUME NEW c \in Config, NEW level \in Nat
  PROVE  BudgetForLevel(c, level) \in Nat
<1> DEFINE steps == level - c.firstLevel + 1
<1>1. c.firstLevel \in Nat /\ c.perLevel \in Nat /\ c.bonus \in Nat
  BY DEF Config
<1>2. CASE level < c.firstLevel
  BY <1>1, <1>2 DEF BudgetForLevel
<1>3. CASE ~(level < c.firstLevel)
  <2>1. steps \in Nat
    BY <1>1, <1>3
  <2>2. BudgetForLevel(c, level) = steps * c.perLevel + c.bonus
    BY <1>3 DEF BudgetForLevel
  <2> HIDE DEF steps
  <2>3. steps * c.perLevel \in Nat
    BY <1>1, <2>1
  <2>4. QED
    BY <1>1, <2>2, <2>3
<1>4. QED
  BY <1>2, <1>3

\* A level more never allows less.
LEMMA BudgetGrows ==
  ASSUME NEW c \in Config, NEW level \in Nat
  PROVE  BudgetForLevel(c, level) <= BudgetForLevel(c, level + 1)
<1> DEFINE steps == level - c.firstLevel + 1
<1>1. c.firstLevel \in Nat /\ c.perLevel \in Nat /\ c.bonus \in Nat
  BY DEF Config
<1>2. CASE level < c.firstLevel
  <2>1. BudgetForLevel(c, level) = c.bonus
    BY <1>2 DEF BudgetForLevel
  <2>2. CASE level + 1 < c.firstLevel
    BY <1>1, <2>1, <2>2 DEF BudgetForLevel
  <2>3. CASE level + 1 = c.firstLevel
    <3>1. BudgetForLevel(c, level + 1) = ((level + 1) - c.firstLevel + 1) * c.perLevel + c.bonus
      BY <1>1, <2>3 DEF BudgetForLevel
    <3>2. (level + 1) - c.firstLevel + 1 = 1
      BY <1>1, <2>3
    <3>3. BudgetForLevel(c, level + 1) = 1 * c.perLevel + c.bonus
      BY <3>1, <3>2
    <3>4. QED
      BY <1>1, <2>1, <3>3
  <2>4. QED
    BY <1>1, <1>2, <2>2, <2>3
<1>3. CASE ~(level < c.firstLevel)
  <2>1. steps \in Nat /\ (level + 1) - c.firstLevel + 1 = steps + 1 /\ ~(level + 1 < c.firstLevel)
    BY <1>1, <1>3
  <2>2. /\ BudgetForLevel(c, level) = steps * c.perLevel + c.bonus
        /\ BudgetForLevel(c, level + 1) = (steps + 1) * c.perLevel + c.bonus
    <3>1. BudgetForLevel(c, level) = steps * c.perLevel + c.bonus
      BY <1>3, Zenon DEF BudgetForLevel
    <3>2. BudgetForLevel(c, level + 1) = ((level + 1) - c.firstLevel + 1) * c.perLevel + c.bonus
      BY <2>1, Zenon DEF BudgetForLevel
    <3> HIDE DEF steps
    <3>3. QED
      BY <2>1, <3>1, <3>2, Zenon
  <2> HIDE DEF steps
  <2>3. (steps + 1) * c.perLevel = steps * c.perLevel + c.perLevel /\ steps * c.perLevel \in Nat
    BY <1>1, <2>1
  <2>4. QED
    BY <1>1, <2>2, <2>3
<1>4. QED
  BY <1>2, <1>3

-----------------------------------------------------------------------------
(* Nobody spends more than a level allows *)

\* What CanLearn asks of the cache is about the database only as long as the two
\* agree. Unlike PaidFor this survives a crash, after which nobody is in the world.
InStep(p) == online[p] /\ config.enable => owned[p] = Settled(p).rows
InStepInv == TypeOK /\ \A p \in Player : InStep(p)

LEMMA InStepFrame ==
  ASSUME NEW p, InStep(p), config'.enable = config.enable,
         Settled(p)'.rows = Settled(p).rows,
         online'[p] => online[p] /\ owned'[p] = owned[p]
  PROVE  InStep(p)'
BY DEF InStep

\* A save changes the character in the database and leaves the rows.
LEMMA SaveKeepsRows ==
  ASSUME TypeOK, NEW p \in Player, OnPlayerLogout(p) \/ PeriodicSave(p)
  PROVE  /\ \A q \in Player : Settled(q)'.rows = Settled(q).rows
         /\ \A q \in Player : online'[q] => online[q] /\ owned'[q] = owned[q]
         /\ config' = config /\ char' = char
<1>1. SaveToDB(p) /\ UNCHANGED <<disk, char, config>>
  BY DEF OnPlayerLogout, PeriodicSave, world
<1>2. Settled(p)'.rows = Settled(p).rows
  <2>1. Settled(p)' = [Settled(p) EXCEPT !.char = char[p]]
    BY <1>1, SaveFacts
  <2>2. Settled(p) \in Disk /\ char[p] \in Character
    BY SettledType DEF TypeOK
  <2>3. QED
    BY <2>1, <2>2, WritesType
<1>3. \A q \in Player : online'[q] => online[q] /\ owned'[q] = owned[q]
  BY DEF OnPlayerLogout, PeriodicSave, ForgetCached, TypeOK
<1>4. QED
  BY <1>1, <1>2, <1>3, SaveFacts

LEMMA LoginInStep ==
  ASSUME TypeOK, NEW p \in Player, OnPlayerLogin(p), NEW q \in Player, InStep(q)
  PROVE  InStep(q)'
<1>1. /\ \A x \in Player : Settled(x)' = Settled(x)
      /\ Settled(p) = disk[p] /\ config' = config
  BY DEF OnPlayerLogin, Settled, world
<1>2. CASE q # p
  <2>1. online'[q] = online[q] /\ owned'[q] = owned[q]
    BY <1>2 DEF OnPlayerLogin, TypeOK
  <2>2. QED
    BY <1>1, <2>1, InStepFrame
<1>3. CASE q = p
  <2>1. config.enable => owned'[p] = disk[p].rows
    BY DEF OnPlayerLogin, TypeOK
  <2>2. QED
    BY <1>1, <1>3, <2>1 DEF InStep
<1>4. QED
  BY <1>2, <1>3

LEMMA InStepStep ==
  ASSUME "toggle" \notin Disturbances
  PROVE  InStepInv /\ [Next]_vars => InStepInv'
<1> SUFFICES ASSUME InStepInv, [Next]_vars, NEW q \in Player PROVE InStep(q)'
  BY StepTypeOK DEF InStepInv
<1>1. TypeOK /\ InStep(q)
  BY DEF InStepInv
<1>2. ASSUME NEW c \in Configs, CrashAndRestart(c) PROVE InStep(q)'
  BY <1>2 DEF CrashAndRestart, InStep
<1>3. CASE UNCHANGED vars \/ (Operator /\ ~\E c \in Configs : CrashAndRestart(c))
  <2>1. UNCHANGED <<online, owned, disk, queue>> /\ config'.enable = config.enable
    BY <1>3 DEF Operator, EditNode, EditTree, Reload, OnAfterConfigLoad, ConfigFile, vars
  <2>2. QED
    BY <1>1, <2>1, InStepFrame DEF Settled
<1>4. ASSUME NEW p \in Player, InWorld(p) PROVE InStep(q)'
  <2>1. ASSUME NEW n \in Node, Learn(p, n) PROVE InStep(q)'
    <3>1. PICK row \in OwnedNode : Buys(p, n, row)
      BY <1>1, <2>1, LearnBuys
    <3>2. online[p] /\ config.enable /\ config' = config
      BY <2>1 DEF Learn, world
    <3>3. QED
      BY <1>1, <3>1, <3>2 DEF InStep, Buys
  <2>2. CASE BrokerRespec(p) \/ GmRespec(p)
    <3>1. PICK fee : Respec(p, fee)
      BY <2>2 DEF BrokerRespec, GmRespec
    <3>2. config' = config
      BY <3>1 DEF Respec, world
    <3>3. QED
      BY <1>1, <3>1, <3>2, RespecUnlearns DEF InStep
  <2>3. CASE OnPlayerLogin(p)
    BY <1>1, <2>3, LoginInStep
  <2>4. CASE OnPlayerLogout(p) \/ PeriodicSave(p)
    BY <1>1, <2>4, SaveKeepsRows, InStepFrame
  <2>5. CASE WriteBack(p)
    BY <1>1, <2>5, WriteBackSettles, InStepFrame DEF WriteBack, world
  <2>6. CASE LevelUp(p) \/ \E s \in Spell : LearnElsewhere(p, s)
    BY <1>1, <2>6, LessonFacts, InStepFrame
  <2>7. QED
    BY <1>4, <2>1, <2>2, <2>3, <2>4, <2>5, <2>6 DEF InWorld
<1>5. QED
  BY <1>2, <1>3, <1>4 DEF Next, Operator

LEMMA AllInStep ==
  ASSUME "toggle" \notin Disturbances
  PROVE  Spec => []InStepInv
<1>1. Init => InStepInv
  BY InitTypeOK DEF Init, InStepInv, InStep
<1>2. QED
  BY <1>1, InStepStep, PTL DEF Spec

\* A purchase adds the price on offer, and unless it is free what is spent then
\* is within the budget of that moment.
LEMMA PurchaseIsAfforded ==
  ASSUME InStepInv, NEW p \in Player, NEW n \in Node, Learn(p, n)
  PROVE  LET spent == SpentPoints(Settled(p).rows)
             then  == SpentPoints(Settled(p)'.rows)
             total == BudgetForLevel(config, char[p].level)
         IN  /\ spent \in Nat /\ total \in Nat /\ then = nodes[n].cost + spent
             /\ nodes[n].cost > 0 => then <= total
             /\ spent <= total => then <= total
<1>1. TypeOK /\ InStep(p)
  BY DEF InStepInv
<1>2. PICK row \in OwnedNode : Buys(p, n, row)
  BY <1>1, LearnBuys
<1> DEFINE rows == Settled(p).rows
           spent == SpentPoints(rows)
           total == BudgetForLevel(config, char[p].level)
           cost == nodes[n].cost
<1>3. /\ rows \in Rows /\ row.cost = cost
      /\ Settled(p)'.rows = WithRow(rows, n, row)
  BY <1>2 DEF Buys
<1>4. owned[p] = rows
  BY <1>1 DEF InStep, Learn
<1>5. n \notin DOMAIN rows
  BY <1>4 DEF Learn, CanLearn, HasNode
<1>6. AvailablePoints(total, spent) >= cost
  BY <1>4 DEF Learn, CanLearn
<1>7. total \in Nat
  <2>1. config \in Config /\ char[p].level \in Nat
    BY <1>1, ClasslessAssumption DEF TypeOK, Character, Level
  <2>2. QED
    BY <2>1, BudgetType
<1>8. cost \in Nat
  BY <1>3, ClasslessAssumption DEF OwnedNode
<1> HIDE DEF rows, total, cost
<1>9. spent \in Nat /\ SpentPoints(WithRow(rows, n, row)) = cost + spent
  BY <1>3, <1>5, SpentIsANumber, PurchaseAddsItsPrice
<1> HIDE DEF spent
<1>10. /\ cost > 0 => cost + spent <= total
       /\ spent <= total => cost + spent <= total
  BY <1>6, <1>7, <1>8, <1>9 DEF AvailablePoints
<1>11. QED
  BY <1>3, <1>7, <1>9, <1>10 DEF rows, spent, total, cost

\* Every purchase that costs something leaves what the database is about to hold
\* within the budget for the level, though CanLearn looks at the cache only, and
\* after whatever crashes, edits and re-tunings. A free ability may still be had
\* by those a re-tuning left with more than they may spend.
NoPurchaseOverdraws ==
  [][\A p \in Player, n \in Node : Learn(p, n) /\ nodes[n].cost > 0 =>
       SpentPoints(Settled(p)'.rows) <= BudgetForLevel(config, char[p].level)]_vars

THEOREM PurchasesAreAfforded ==
  ASSUME "toggle" \notin Disturbances
  PROVE  Spec => NoPurchaseOverdraws
<1>1. InStepInv /\ [Next]_vars =>
        [\A p \in Player, n \in Node : Learn(p, n) /\ nodes[n].cost > 0 =>
           SpentPoints(Settled(p)'.rows) <= BudgetForLevel(config, char[p].level)]_vars
  BY PurchaseIsAfforded
<1>2. QED
  BY <1>1, AllInStep, PTL DEF Spec, NoPurchaseOverdraws

\* Without disturbances nobody has ever spent more than the level allows. The
\* level is saved later than the rows: it is the character at logout that the
\* rows are held against while it is offline, and at a login it comes back.
Afforded(p) == SpentPoints(Settled(p).rows) <= BudgetForLevel(config, char[p].level)
WithinBudget == \A p \in Player : Afforded(p)

\* The budget does not depend on the fee nor on the switch.
LEMMA AffordedFrame ==
  ASSUME NEW p, Afforded(p), char'[p].level = char[p].level,
         Settled(p)'.rows = Settled(p).rows,
         config'.firstLevel = config.firstLevel, config'.perLevel = config.perLevel,
         config'.bonus = config.bonus
  PROVE  Afforded(p)'
BY DEF Afforded, BudgetForLevel, SpentPoints

LEMMA BudgetStep ==
  ASSUME Disturbances = {}
  PROVE  PaidInv /\ InStepInv /\ WithinBudget /\ [Next]_vars => WithinBudget'
<1> SUFFICES ASSUME PaidInv, InStepInv, WithinBudget, [Next]_vars, NEW q \in Player
             PROVE  Afforded(q)'
  BY DEF WithinBudget
<1>1. TypeOK /\ Afforded(q) /\ \A p \in Player : BookKept(p)
  BY DEF PaidInv, BookInv, InStepInv, WithinBudget
<1>2. CASE Operator \/ UNCHANGED vars
  <2>1. /\ UNCHANGED <<char, disk, queue>>
        /\ config'.firstLevel = config.firstLevel /\ config'.perLevel = config.perLevel
        /\ config'.bonus = config.bonus
    BY <1>2 DEF Operator, EditNode, EditTree, Reload, OnAfterConfigLoad, CrashAndRestart,
      ConfigFile, vars
  <2>2. QED
    BY <1>1, <2>1, AffordedFrame DEF Settled
<1>3. ASSUME NEW p \in Player, InWorld(p) PROVE Afforded(q)'
  <2>0. config' = config
    BY <1>3 DEF InWorld, Learn, BrokerRespec, GmRespec, Respec, OnPlayerLogin,
      OnPlayerLogout, PeriodicSave, WriteBack, LearnElsewhere, LevelUp, world
  <2>1. ASSUME NEW n \in Node, Learn(p, n) PROVE Afforded(q)'
    <3>1. PICK row \in OwnedNode : Buys(p, n, row)
      BY <1>1, <2>1, LearnBuys
    <3>2. CASE q # p
      BY <1>1, <2>0, <3>1, <3>2, AffordedFrame DEF Buys
    <3>3. CASE q = p
      <4>1. SpentPoints(Settled(p)'.rows) <= BudgetForLevel(config, char[p].level)
        BY <1>1, <2>1, <3>3, PurchaseIsAfforded DEF Afforded
      <4>2. char'[p].level = char[p].level
        BY <3>1 DEF Buys
      <4>3. QED
        BY <2>0, <3>3, <4>1, <4>2 DEF Afforded, SpentPoints
    <3>4. QED
      BY <3>2, <3>3
  <2>2. CASE BrokerRespec(p) \/ GmRespec(p)
    <3>1. PICK fee : Respec(p, fee)
      BY <2>2 DEF BrokerRespec, GmRespec
    <3>2. CASE q # p
      BY <1>1, <2>0, <3>1, <3>2, RespecUnlearns, AffordedFrame
    <3>3. CASE q = p
      <4>1. Settled(p)'.rows = NoRows /\ char'[p].level = char[p].level
        BY <1>1, <3>1, RespecUnlearns
      <4>2. BudgetForLevel(config, char[p].level) \in Nat
        <5>1. config \in Config /\ char[p].level \in Nat
          BY <1>1, ClasslessAssumption DEF TypeOK, Character, Level
        <5>2. QED
          BY <5>1, BudgetType
      <4>3. QED
        BY <2>0, <3>3, <4>1, <4>2, NothingSpent DEF Afforded, SpentPoints
    <3>4. QED
      BY <3>2, <3>3
  <2>3. CASE OnPlayerLogin(p)
    <3>1. /\ \A x \in Player : Settled(x)' = Settled(x)
          /\ Settled(p) = disk[p] /\ ~online[p]
      BY <2>3 DEF OnPlayerLogin, Settled
    <3>2. char'[q] = char[q]
      BY <1>1, <2>3, <3>1 DEF OnPlayerLogin, TypeOK, BookKept
    <3>3. QED
      BY <1>1, <2>0, <3>1, <3>2, AffordedFrame
  <2>4. CASE OnPlayerLogout(p) \/ PeriodicSave(p)
    BY <1>1, <2>4, SaveKeepsRows, AffordedFrame
  <2>5. CASE WriteBack(p)
    BY <1>1, <2>0, <2>5, WriteBackSettles, AffordedFrame DEF WriteBack
  <2>6. CASE \E s \in Spell : LearnElsewhere(p, s)
    BY <1>1, <2>0, <2>6, LessonFacts, AffordedFrame
  <2>7. CASE LevelUp(p)
    <3>1. CASE q # p
      BY <1>1, <2>0, <2>7, <3>1, LessonFacts, AffordedFrame
    <3>2. CASE q = p
      <4>1. /\ char[p].level \in Nat /\ config \in Config
            /\ char'[p].level = char[p].level + 1
        BY <1>1, <2>7, ClasslessAssumption DEF LevelUp, TypeOK, Character, Level
      <4>2. BudgetForLevel(config, char[p].level) <= BudgetForLevel(config, char'[p].level)
        BY <4>1, BudgetGrows
      <4>3. /\ BudgetForLevel(config, char[p].level) \in Nat
            /\ BudgetForLevel(config, char'[p].level) \in Nat
        BY <4>1, BudgetType
      <4>4. Settled(p)' = Settled(p) /\ Settled(p).rows \in Rows
        BY <1>1, <2>7, LessonFacts, SettledType DEF Disk
      <4>5. SpentPoints(Settled(p).rows) \in Nat
        BY <4>4, SpentIsANumber
      <4>6. /\ SpentPoints(Settled(p)'.rows) = SpentPoints(Settled(p).rows)
            /\ SpentPoints(Settled(p).rows) <= BudgetForLevel(config, char[p].level)
        BY <1>1, <3>2, <4>4 DEF Afforded
      <4>7. SpentPoints(Settled(p)'.rows) <= BudgetForLevel(config, char'[p].level)
        BY <4>2, <4>3, <4>5, <4>6
      <4>8. QED
        BY <2>0, <3>2, <4>7 DEF Afforded, SpentPoints
    <3>3. QED
      BY <3>1, <3>2
  <2>8. QED
    BY <1>3, <2>1, <2>2, <2>3, <2>4, <2>5, <2>6, <2>7 DEF InWorld
<1>4. QED
  BY <1>2, <1>3 DEF Next

LEMMA InitAfforded == Init => WithinBudget
<1> SUFFICES ASSUME Init, NEW p \in Player PROVE Afforded(p)
  BY DEF WithinBudget
<1>1. TypeOK
  BY InitTypeOK
<1>2. Settled(p).rows = NoRows
  BY DEF Init, Settled
<1>3. BudgetForLevel(config, char[p].level) \in Nat
  BY <1>1, BudgetType, ClasslessAssumption DEF TypeOK, Character, Level
<1>4. QED
  BY <1>2, <1>3, NothingSpent DEF Afforded

\* On a realm that does not crash, with its switch and its curve left alone, what
\* a character is charged never exceeds what its level allows, however purchases,
\* refunds, levels, edits of the trees, sessions and late writes mix (the
\* NotEnoughPoints refusal of CanLearn, over any history).
THEOREM NothingIsOverspent ==
  ASSUME Disturbances = {}
  PROVE  Spec => []WithinBudget
<1>1. "crash" \notin Disturbances /\ "toggle" \notin Disturbances
  OBVIOUS
<1>2. Spec => []PaidInv
  BY <1>1, AllPaid
<1>3. Spec => []InStepInv
  BY <1>1, AllInStep
<1>4. QED
  BY <1>2, <1>3, InitAfforded, BudgetStep, PTL DEF Spec

-----------------------------------------------------------------------------
(* Classless implements ClasslessLedger *)

\* The build of a set of rows, as the refinement mapping forms it.
BuildOf(rows) == [n \in DOMAIN rows |-> rows[n].cost]

LEMMA BuildOfRows ==
  /\ BuildOf(NoRows) = [n \in {} |-> n]
  /\ \A rows \in Rows, n \in Node, row \in OwnedNode :
       BuildOf(WithRow(rows, n, row)) =
         [m \in DOMAIN BuildOf(rows) \cup {n} |-> IF m = n THEN row.cost ELSE BuildOf(rows)[m]]
<1>1. BuildOf(NoRows) = [n \in {} |-> n]
  BY NoRowsType DEF BuildOf
<1>2. ASSUME NEW rows \in Rows, NEW n \in Node, NEW row \in OwnedNode
      PROVE  BuildOf(WithRow(rows, n, row)) =
               [m \in DOMAIN BuildOf(rows) \cup {n} |->
                  IF m = n THEN row.cost ELSE BuildOf(rows)[m]]
  <2>1. /\ DOMAIN WithRow(rows, n, row) = DOMAIN rows \cup {n}
        /\ WithRow(rows, n, row)[n] = row
        /\ \A m \in DOMAIN rows \ {n} : WithRow(rows, n, row)[m] = rows[m]
    BY WithRowType
  <2>2. QED
    BY <2>1 DEF BuildOf
<1>3. QED
  BY <1>1, <1>2

\* The ledger's variables, by the names it gives them.
Build == [p \in Player |-> BuildOf(Settled(p).rows)]
Known == [p \in Player |-> char[p].spells]
Elsewhere == [p \in Player |-> char[p].native]
Points == [p \in Player |-> BudgetForLevel(config, char[p].level)]
Purse == [p \in Player |-> char[p].money]

LEMMA LedgerStarts == Init => Ledger!LedgerInit
<1> SUFFICES ASSUME Init PROVE Ledger!LedgerInit
  OBVIOUS
<1>1. \A p \in Player : Settled(p).rows = NoRows /\ char[p].spells = char[p].native
  BY DEF Init, Settled
<1>2. Build = [p \in Player |-> [n \in {} |-> n]] /\ Known = Elsewhere
  BY <1>1, BuildOfRows DEF Build, Known, Elsewhere
<1>3. QED
  BY <1>2 DEF Ledger!LedgerInit, Build, BuildOf, Known, Elsewhere

LEMMA SameSum == \A f : Ledger!SumFunction(f) = SumFunction(f)
BY Zenon DEF SumFunction, SumFunctionOnSet, FoldFunctionOnSet, MapThenFoldSet,
  Ledger!SumFunction, Ledger!SumFunctionOnSet, Ledger!FoldFunctionOnSet, Ledger!MapThenFoldSet

LEMMA LearnIsBuy ==
  ASSUME PaidInv, NEW p \in Player, NEW n \in Node, Learn(p, n)
  PROVE  \E cost \in Costs : Ledger!Buy(p, n, cost)
<1>1. TypeOK /\ PaidFor(p) /\ config' = config /\ config.enable
  BY DEF PaidInv, BookInv, CacheInv, Learn, world
<1>2. PICK row \in OwnedNode : Buys(p, n, row)
  BY <1>1, LearnBuys
<1>3. owned[p] = Settled(p).rows
  BY <1>1, <1>2 DEF PaidFor, Buys
<1>4. /\ n \notin DOMAIN Build[p]
      /\ Requires[n] = NoNode \/ Requires[n] \in DOMAIN Build[p]
      /\ SpellOf[n] \notin Known[p]
  BY <1>2, <1>3 DEF Learn, CanLearn, HasNode, Build, BuildOf, Known, Buys
<1>5. row.cost > 0 => Ledger!Paid(Build[p]) + row.cost <= Points[p]
  <2>1. Build[p] = [m \in DOMAIN owned[p] |-> owned[p][m].cost]
    BY <1>3 DEF Build, BuildOf
  <2>2. Ledger!Paid(Build[p]) = SpentPoints(owned[p])
    BY <2>1, SameSum DEF Ledger!Paid, SpentPoints
  <2>3. AvailablePoints(Points[p], SpentPoints(owned[p])) >= row.cost
    BY <1>2 DEF Learn, CanLearn, Points, Buys
  <2>4. SpentPoints(owned[p]) \in Nat /\ row.cost \in Nat
    BY <1>1, SpentIsANumber, ClasslessAssumption DEF TypeOK, OwnedNode
  <2>5. Points[p] \in Nat
    BY <1>1, BudgetType, ClasslessAssumption DEF Points, TypeOK, Character, Level
  <2>6. QED
    BY <2>2, <2>3, <2>4, <2>5 DEF AvailablePoints
<1>6. Build' = [Build EXCEPT ![p] =
        [m \in DOMAIN Build[p] \cup {n} |-> IF m = n THEN row.cost ELSE Build[p][m]]]
  <2> DEFINE rows == Settled(p).rows
  <2>0. rows \in Rows /\ Settled(p)'.rows = WithRow(rows, n, row)
    BY <1>2 DEF Buys
  <2> HIDE DEF rows
  <2>a. BuildOf(WithRow(rows, n, row)) =
          [m \in DOMAIN BuildOf(rows) \cup {n} |-> IF m = n THEN row.cost ELSE BuildOf(rows)[m]]
    BY <2>0, BuildOfRows
  <2>1. BuildOf(Settled(p)'.rows) =
          [m \in DOMAIN BuildOf(Settled(p).rows) \cup {n} |->
             IF m = n THEN row.cost ELSE BuildOf(Settled(p).rows)[m]]
    BY <2>0, <2>a DEF rows
  <2>2. \A x \in Player \ {p} : BuildOf(Settled(x)'.rows) = BuildOf(Settled(x).rows)
    BY <1>2 DEF Buys
  <2>3. Build' = [x \in Player |-> BuildOf(Settled(x)'.rows)]
    BY DEF Build, BuildOf
  <2>4. QED
    BY <2>1, <2>2, <2>3 DEF Build
<1>7. /\ Known' = [Known EXCEPT ![p] = Known[p] \cup {SpellOf[n]}]
      /\ UNCHANGED <<Elsewhere, Points, Purse>>
  BY <1>1, <1>2 DEF Known, Elsewhere, Points, Purse, Buys
<1>8. Ledger!Buy(p, n, row.cost)
  BY <1>4, <1>5, <1>6, <1>7 DEF Ledger!Buy, Build, BuildOf, Known, Elsewhere, Points, Purse
<1>9. QED
  BY <1>8 DEF OwnedNode

LEMMA RespecIsUnlearn ==
  ASSUME PaidInv, NEW p \in Player, BrokerRespec(p) \/ GmRespec(p)
  PROVE  \E fee \in {c.respecCost : c \in Configs} \cup {0} : Ledger!Unlearn(p, fee)
<1>1. TypeOK /\ config' = config /\ config \in Configs
  BY DEF PaidInv, BookInv, CacheInv, TypeOK, BrokerRespec, GmRespec, Respec, world
<1>2. PICK fee \in {c.respecCost : c \in Configs} \cup {0} :
        Respec(p, fee) /\ fee <= char[p].money
  BY <1>1, ClasslessAssumption DEF BrokerRespec, GmRespec, TypeOK, Config, Character, Money
<1>3. /\ Settled(p)'.rows = NoRows
      /\ char'[p].spells = char[p].native
      /\ char'[p].native = char[p].native
      /\ char'[p].level = char[p].level /\ char'[p].money = char[p].money - fee
      /\ \A x \in Player \ {p} : Settled(x)' = Settled(x) /\ char'[x] = char[x]
      /\ owned[p] = Settled(p).rows /\ DOMAIN owned[p] # {}
  BY <1>1, <1>2, RespecUnlearns, RespecTakesAll DEF Respec
<1>4. Build' = [Build EXCEPT ![p] = [n \in {} |-> n]]
  <2>1. Build' = [x \in Player |-> BuildOf(Settled(x)'.rows)]
    BY DEF Build, BuildOf
  <2>2. QED
    BY <1>3, <2>1, BuildOfRows DEF Build
<1>5. /\ Known' = [Known EXCEPT ![p] = Elsewhere[p]]
      /\ Purse' = [Purse EXCEPT ![p] = Purse[p] - fee]
      /\ UNCHANGED <<Elsewhere, Points>>
      /\ fee <= Purse[p] /\ DOMAIN Build[p] # {}
  BY <1>1, <1>2, <1>3 DEF Known, Elsewhere, Points, Purse, Build, BuildOf
<1>6. Ledger!Unlearn(p, fee)
  BY <1>4, <1>5 DEF Ledger!Unlearn, Build, BuildOf, Known, Elsewhere, Points, Purse
<1>7. QED
  BY <1>2, <1>6

LEMMA LessonIsTeach ==
  ASSUME PaidInv, NEW p \in Player, NEW s \in Spell, LearnElsewhere(p, s),
         s \notin char[p].spells
  PROVE  Ledger!Teach(p, s)
<1>1. TypeOK
  BY DEF PaidInv, BookInv, CacheInv
<1>2. /\ UNCHANGED <<Build, Points, Purse>>
      /\ Known' = [Known EXCEPT ![p] = Known[p] \cup {s}]
      /\ Elsewhere' = [Elsewhere EXCEPT ![p] = Elsewhere[p] \cup {s}]
  <2>1. /\ char'[p].spells = char[p].spells \cup {s}
        /\ char'[p].native = char[p].native \cup ({s} \ char[p].spells)
        /\ char'[p].level = char[p].level /\ char'[p].money = char[p].money
        /\ \A x \in Player \ {p} : char'[x] = char[x]
        /\ config' = config /\ \A x \in Player : Settled(x)' = Settled(x)
    BY <1>1, LessonFacts
  <2>2. UNCHANGED Build
    BY <2>1 DEF Build, BuildOf
  <2>3. UNCHANGED <<Points, Purse>>
    BY <2>1 DEF Points, BudgetForLevel, Purse
  <2>4. QED
    BY <2>1, <2>2, <2>3 DEF Known, Elsewhere
<1>3. s \notin Known[p]
  BY DEF Known
<1>4. QED
  BY <1>2, <1>3 DEF Ledger!Teach, Build, BuildOf, Known, Elsewhere, Points, Purse

\* Every step of the server is a step of the ledger, or none.
LEMMA LedgerStep ==
  ASSUME "crash" \notin Disturbances
  PROVE  PaidInv /\ TypeOK' /\ [Next]_vars => [Ledger!LedgerNext]_(Ledger!ledgerVars)
<1> SUFFICES ASSUME PaidInv, TypeOK', [Next]_vars
             PROVE  Ledger!LedgerNext \/ UNCHANGED <<Build, Known, Elsewhere, Points, Purse>>
  BY DEF Ledger!ledgerVars, Build, BuildOf, Known, Elsewhere, Points, Purse
<1>0. TypeOK
  BY DEF PaidInv, BookInv, CacheInv
<1>1. ASSUME UNCHANGED <<Build, Known, Elsewhere, Purse>> PROVE Ledger!LedgerNext
  <2>1. Points' \in [Player -> Nat]
    <3>1. \A p \in Player : char'[p].level \in Nat
      BY ClasslessAssumption DEF TypeOK, Character, Level
    <3>2. config' \in Config
      BY ClasslessAssumption DEF TypeOK
    <3>3. \A p \in Player : BudgetForLevel(config', char'[p].level) \in Nat
      BY <3>1, <3>2, BudgetType
    <3>4. Points' = [p \in Player |-> BudgetForLevel(config', char'[p].level)]
      BY DEF Points, BudgetForLevel
    <3>5. QED
      BY <3>3, <3>4
  <2>2. Ledger!Entitle
    BY <1>1, <2>1 DEF Ledger!Entitle, Build, BuildOf, Known, Elsewhere, Points, Purse
  <2>3. QED
    BY <2>2 DEF Ledger!LedgerNext
<1>2. CASE Operator \/ UNCHANGED vars
  <2>1. UNCHANGED <<char, disk, queue>>
    BY <1>2 DEF Operator, EditNode, EditTree, Reload, OnAfterConfigLoad, CrashAndRestart, vars
  <2>2. UNCHANGED <<Build, Known, Elsewhere, Purse>>
    BY <2>1 DEF Settled, Build, BuildOf, Known, Elsewhere, Purse
  <2>3. QED
    BY <1>1, <2>2
<1>3. ASSUME NEW p \in Player, InWorld(p) PROVE Ledger!LedgerNext
  <2>1. ASSUME NEW n \in Node, Learn(p, n) PROVE Ledger!LedgerNext
    BY <2>1, LearnIsBuy DEF Ledger!LedgerNext
  <2>2. CASE BrokerRespec(p) \/ GmRespec(p)
    BY <2>2, RespecIsUnlearn DEF Ledger!LedgerNext
  <2>3. ASSUME char' = char, \A x \in Player : Settled(x)'.rows = Settled(x).rows
        PROVE  Ledger!LedgerNext
    BY <1>1, <2>3 DEF Build, BuildOf, Known, Elsewhere, Purse
  <2>4. CASE OnPlayerLogin(p)
    <3>1. /\ \A x \in Player : Settled(x)' = Settled(x)
          /\ Settled(p) = disk[p] /\ ~online[p] /\ BookKept(p)
      BY <2>4 DEF OnPlayerLogin, Settled, PaidInv, BookInv
    <3>2. char' = char
      BY <1>0, <2>4, <3>1 DEF OnPlayerLogin, BookKept, TypeOK
    <3>3. QED
      BY <2>3, <3>1, <3>2
  <2>5. CASE OnPlayerLogout(p) \/ PeriodicSave(p)
    <3>1. SaveToDB(p) /\ UNCHANGED <<disk, char>>
      BY <2>5 DEF OnPlayerLogout, PeriodicSave
    <3>2. Settled(p)' = [Settled(p) EXCEPT !.char = char[p]]
      BY <1>0, <3>1, SaveFacts
    <3>3. Settled(p) \in Disk /\ char[p] \in Character
      BY <1>0, SettledType DEF TypeOK
    <3>4. Settled(p)'.rows = Settled(p).rows
      BY <3>2, <3>3 DEF Disk
    <3>5. QED
      BY <1>0, <2>3, <3>1, <3>4, SaveFacts
  <2>6. CASE WriteBack(p)
    BY <1>0, <2>3, <2>6, WriteBackSettles DEF WriteBack
  <2>7. CASE LevelUp(p)
    BY <1>0, <1>1, <2>7, LessonFacts DEF Build, BuildOf, Known, Elsewhere, Purse
  <2>8. ASSUME NEW s \in Spell, LearnElsewhere(p, s) PROVE Ledger!LedgerNext
    <3>1. CASE s \notin char[p].spells
      BY <2>8, <3>1, LessonIsTeach DEF Ledger!LedgerNext
    <3>2. CASE s \in char[p].spells
      <4>1. /\ char'[p].spells = char[p].spells \cup {s}
            /\ char'[p].native = char[p].native \cup ({s} \ char[p].spells)
            /\ char'[p].money = char[p].money
            /\ \A x \in Player \ {p} : char'[x] = char[x]
            /\ \A x \in Player : Settled(x)' = Settled(x)
        BY <1>0, <2>8, LessonFacts
      <4>2. char'[p].spells = char[p].spells /\ char'[p].native = char[p].native
        BY <3>2, <4>1
      <4>3. QED
        BY <1>1, <4>1, <4>2 DEF Build, BuildOf, Known, Elsewhere, Purse
    <3>3. QED
      BY <3>1, <3>2
  <2>9. QED
    BY <1>3, <2>1, <2>2, <2>4, <2>5, <2>6, <2>7, <2>8 DEF InWorld
<1>4. QED
  BY <1>2, <1>3 DEF Next

\* The module keeps the promise of the ledger for any realm, any catalogue and
\* any history of edits, saves and re-tunings, as long as the server does not
\* crash and the module is not switched on or off under its players.
THEOREM RefinesLedger ==
  ASSUME "crash" \notin Disturbances, "toggle" \notin Disturbances
  PROVE  Spec => ImplementsLedger
<1>1. PaidInv => TypeOK
  BY DEF PaidInv, BookInv, CacheInv
<1>2. QED
  BY <1>1, LedgerStarts, LedgerStep, AllPaid, PTL DEF Spec, ImplementsLedger, Ledger!LedgerSpec
=============================================================================
