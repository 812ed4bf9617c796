------------------------ MODULE MCPreviewEnvironments ------------------------
(***************************************************************************)
(* Deployment digests of two commits, for TLC.                             *)
(***************************************************************************)
EXTENDS PreviewEnvironments

SameInputs == <<1, 1>>
OwnInputs == <<1, 2>>
=============================================================================
