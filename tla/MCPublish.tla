------------------------------- MODULE MCPublish -------------------------------
(***************************************************************************)
(* Launches of a worker that produces one file and a manifest.             *)
(***************************************************************************)
EXTENDS StagedPublish

CONSTANTS Raw  \* the file

RunFiles == <<Raw>>
==============================================================================
