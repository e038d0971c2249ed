---------------------------- MODULE MCWorkspace -----------------------------
(***************************************************************************)
(* A small instance of each part of a workspace.  Actors, things and texts *)
(* are exchangeable in every part.                                         *)
(***************************************************************************)
EXTENDS Workspace, TLC

ASSUME WorkspaceAssumption

Exchangeable == Permutations(Publishers) \cup Permutations(Names) \cup Permutations(Bodies)
=============================================================================
