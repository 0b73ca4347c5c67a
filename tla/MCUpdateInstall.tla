--------------------------- MODULE MCUpdateInstall ---------------------------
(* Small instances of UpdateInstall: two channels that share one sequence. *)
EXTENDS UpdateInstall

Rel(n, ch) == [seq |-> n, channel |-> ch]

TwoChannels == {"stable", "beta"}
ThreeReleases == {Rel(1, "stable"), Rel(2, "stable"), Rel(2, "beta")}
FourReleases == ThreeReleases \union {Rel(3, "beta")}
RevokeNewest == {Rel(2, "stable")}
NoRevocations == {}
=============================================================================
