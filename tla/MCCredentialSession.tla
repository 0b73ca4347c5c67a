------------------------ MODULE MCCredentialSession ------------------------
(* Small instances of CredentialSession.  Invocations of goat are separate *)
(* processes with a client each; OneClient are launches within one.        *)
EXTENDS CredentialSession, TLC

CONSTANTS a, b, c

OwnClient == [p \in Callers |-> p]
OneClient == [p \in Callers |-> "client"]
Refreshers == {"launch", "usage", "logout"}
AllButLogin == AllCommands \ {"login"}
Online == Refreshers \union {"login"}
Symmetry == Permutations(Callers)
=============================================================================
