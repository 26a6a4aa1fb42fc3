----------------------------- MODULE MCWatcher ------------------------------
(* Watcher over one log in a directory of a project directory.              *)
EXTENDS Watcher, TLC

CONSTANTS root, project, session, log

MCParent == project :> root @@ session :> project @@ log :> session
=============================================================================
