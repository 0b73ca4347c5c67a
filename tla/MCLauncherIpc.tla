---------------------------- MODULE MCLauncherIpc ----------------------------
(* A small instance of LauncherIpc.                                         *)
EXTENDS LauncherIpc

CONSTANTS c1, c2
=============================================================================
