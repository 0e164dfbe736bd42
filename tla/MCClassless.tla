----------------------------- MODULE MCClassless -----------------------------
(* Small realms for the runs of Classless. *)
EXTENDS Classless, TLC

CONSTANTS n1, n2, t1, s1, s2

OneTree == [n \in Node |-> t1]

\* A tree of two abilities, the second founded on the first.
ChainSpells   == n1 :> s1 @@ n2 :> s2
ChainRequires == n1 :> NoNode @@ n2 :> n1

\* Two abilities that have nothing to do with each other.
PairSpells   == n1 :> s1 @@ n2 :> s2
PairRequires == [n \in Node |-> NoNode]

\* Two abilities that grant the same spell.
TwinSpells   == [n \in Node |-> s1]
TwinRequires == [n \in Node |-> NoNode]

Conf(enable, first, bonus) ==
  [enable |-> enable, firstLevel |-> first, perLevel |-> 1, bonus |-> bonus, respecCost |-> 1]

\* At level 1 a bonus and no points yet; or the first points and no bonus.
Toggled == {Conf(e, 2, 2) : e \in BOOLEAN}
Retuned == {Conf(TRUE, 2, 2), Conf(TRUE, 1, 0)}
AnyConf == Toggled \cup Retuned
=============================================================================
