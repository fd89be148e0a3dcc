----------------------- MODULE MCApplicationShutdown -----------------------
(***************************************************************************)
(* The instance of ApplicationShutdown for TLC: a duty of each kind.       *)
(***************************************************************************)
EXTENDS ApplicationShutdown

MCOneShot == {"forgejo polling"}
MCInterval == {"publication"}
=============================================================================
