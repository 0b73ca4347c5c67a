-------------------------- MODULE MCInstalledEngine --------------------------
(* A small instance of InstalledEngine: three releases on two channels.    *)
EXTENDS InstalledEngine

ThreeReleases ==
  {[seq |-> 1, channel |-> "stable"], [seq |-> 2, channel |-> "beta"], [seq |-> 3, channel |-> "stable"]}
=============================================================================
