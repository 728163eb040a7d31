---------------------------- MODULE MCMaintenance ----------------------------
(* Two updates, a shell that one of them may have forked, and cygctl.         *)
EXTENDS Maintenance

MCUpdater == <<"apt1", "apt2">>
=============================================================================
