-------------------------- MODULE MCDirectoryReplica --------------------------
(* Instances of DirectoryReplica for TLC. *)
EXTENDS DirectoryReplica, TLC

\* Neither the workspaces nor, while none are quiet, their values differ.
Symmetry == Permutations(Ids) \cup Permutations(Contents)
==============================================================================
