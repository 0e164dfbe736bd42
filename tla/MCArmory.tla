------------------------------ MODULE MCArmory ------------------------------
(* Instances of Armory for TLC: three trees of one ability each. *)
EXTENDS Armory

CONSTANTS arms, fire, frost, n1, n2, n3, hero, r1

MCTree == <<arms, fire, frost>>
MCTreeOf == n1 :> frost @@ n2 :> fire @@ n3 :> arms
MCCurve == [firstLevel |-> 3, perLevel |-> 2, bonus |-> 1]
MCInitialRows == {NoRows, n1 :> 1 @@ n2 :> 1}
=============================================================================
