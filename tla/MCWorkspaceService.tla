---------------------- MODULE MCWorkspaceService ----------------------
(* Instances of WorkspaceService for TLC. *)
EXTENDS WorkspaceService
=============================================================================
