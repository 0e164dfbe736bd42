----------------------------- MODULE MCLauncher -----------------------------
(* Instances of Launcher for TLC: one client of the right build, one of     *)
(* another; manifests with and without DXVK and patches.                    *)
EXTENDS Launcher, TLC

CONSTANTS wow, tbc, realm, lan, v1, v2

Builds == (wow :> 12340) @@ (tbc :> 8606)

M(runtime, patches) ==
  [build |-> 12340, address |-> realm, runtime |-> runtime, patches |-> patches]

Plain == M(Absent, <<>>)
Dxvk1 == M(v1, <<>>)
Patched1 == M(Absent, <<[path |-> "a", version |-> v1], [path |-> "b", version |-> v1]>>)

OnlyPlain == {Plain}
Published == {Plain, Dxvk1, Patched1}
OnePatched == {Patched1}
=============================================================================
