------------------------------ MODULE MCSignIn ------------------------------
(* Instances of SignIn for TLC. *)
EXTENDS SignIn, TLC

CONSTANTS r1, r2, chrome

\* Two tabs of one browser.
OneBrowser == [r \in Request |-> chrome]

Symmetric == Permutations(Request)
=============================================================================
