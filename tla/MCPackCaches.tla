---------------------------- MODULE MCPackCaches ----------------------------
(* Two processes, a module of two files and packs of two versions. *)
EXTENDS PackCaches, TLC

CONSTANTS p1, p2, symspell, v1, v2

MCProcess == {p1, p2}
MCArtifact == {Sqlite, symspell}
MCSymmetry == Permutations(MCProcess) \cup Permutations(Version)
=============================================================================
