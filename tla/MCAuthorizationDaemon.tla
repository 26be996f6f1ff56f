----------------------- MODULE MCAuthorizationDaemon ------------------------
(* TLC instance of AuthorizationDaemon: sets and bounds are in the .cfg files. *)
EXTENDS AuthorizationDaemon, TLC
=============================================================================
