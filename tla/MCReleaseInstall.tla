------------------------------ MODULE MCReleaseInstall ----------------------------
(* A small instance of ReleaseInstall for TLC.                                       *)
EXTENDS ReleaseInstall, TLC

Symmetry == Permutations(Installers) \cup Permutations(Revisions)
===================================================================================
