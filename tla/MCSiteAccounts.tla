--------------------------- MODULE MCSiteAccounts ---------------------------
(* A small site for the runs of SiteAccounts. *)
EXTENDS SiteAccounts, TLC

CONSTANTS v1, v2, p1, p2

\* One answer made of two sources: the launcher's manifest and its recipes.
Manifest == [manifest |-> {"client", "recipes"}]
Forms == {"register", "login", "forgot", "reset", "change"}

Symmetric == Permutations(Visitor) \cup Permutations(Password)
=============================================================================
