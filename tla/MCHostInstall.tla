--------------------------- MODULE MCHostInstall ---------------------------
(* One to three installers on one work directory.                           *)
EXTENDS HostInstall, TLC

CONSTANTS i1, i2, i3

JustOne         == {i1}
TwoInstallers   == {i1, i2}
ThreeInstallers == {i1, i2, i3}

Symmetry == Permutations(Installers)
=============================================================================
