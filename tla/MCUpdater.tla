----------------------------- MODULE MCUpdater -----------------------------
(* Instances of Updater: three releases, the first of which is installed. *)
EXTENDS Updater

CONSTANTS v1, v2, v3
=============================================================================
