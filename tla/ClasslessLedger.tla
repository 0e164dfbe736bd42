--------------------------- MODULE ClasslessLedger ---------------------------
(***************************************************************************)
(* What the ability ledger promises, with no cache, no database, no        *)
(* session and no write in flight: a character has a build it paid for,    *)
(* knows what it paid for and what it was taught before that, and may undo *)
(* the whole build. Classless implements it as long as the server does not     *)
(* crash and the module is not switched on or off under its players.       *)
(***************************************************************************)
EXTENDS Integers, Functions

CONSTANTS Player, Node, Spell, NoNode, SpellOf, Requires, Costs, Fees

VARIABLES
  build,      \* build[p]: node -> points paid for it
  known,      \* spells in the book
  elsewhere,  \* those something else taught first
  points,     \* skill points the character is entitled to
  money

ledgerVars == <<build, known, elsewhere, points, money>>

Paid(b) == SumFunction(b)
SpellsIn(b) == {SpellOf[n] : n \in DOMAIN b}

LedgerInit ==
  /\ build = [p \in Player |-> [n \in {} |-> n]]
  /\ known = elsewhere

\* A new ability, on top of its foundation. Unless it is free the whole build is
\* then within what the character is entitled to, wherever a re-tuning left it.
Buy(p, n, cost) ==
  /\ n \notin DOMAIN build[p]
  /\ Requires[n] = NoNode \/ Requires[n] \in DOMAIN build[p]
  /\ SpellOf[n] \notin known[p]
  /\ cost > 0 => Paid(build[p]) + cost <= points[p]
  /\ build' = [build EXCEPT ![p] =
                 [m \in DOMAIN build[p] \cup {n} |-> IF m = n THEN cost ELSE build[p][m]]]
  /\ known' = [known EXCEPT ![p] = @ \cup {SpellOf[n]}]
  /\ UNCHANGED <<elsewhere, points, money>>

\* Every point back, every bought spell gone - one that was taught again after it
\* was bought with them - and nothing else touched.
Unlearn(p, fee) ==
  /\ DOMAIN build[p] # {}
  /\ fee <= money[p]
  /\ build' = [build EXCEPT ![p] = [n \in {} |-> n]]
  /\ known' = [known EXCEPT ![p] = elsewhere[p]]
  /\ money' = [money EXCEPT ![p] = @ - fee]
  /\ UNCHANGED <<elsewhere, points>>

Teach(p, s) ==
  /\ s \notin known[p]
  /\ known' = [known EXCEPT ![p] = @ \cup {s}]
  /\ elsewhere' = [elsewhere EXCEPT ![p] = @ \cup {s}]
  /\ UNCHANGED <<build, points, money>>

\* A level gained, or the curve re-tuned under everybody.
Entitle ==
  /\ points' \in [Player -> Nat]
  /\ UNCHANGED <<build, known, elsewhere, money>>

LedgerNext ==
  \/ \E p \in Player, n \in Node, cost \in Costs : Buy(p, n, cost)
  \/ \E p \in Player, fee \in Fees : Unlearn(p, fee)
  \/ \E p \in Player, s \in Spell : Teach(p, s)
  \/ Entitle

LedgerSpec == LedgerInit /\ [][LedgerNext]_ledgerVars
=============================================================================
