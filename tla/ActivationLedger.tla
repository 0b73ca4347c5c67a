--------------------------- MODULE ActivationLedger ---------------------------
(***************************************************************************)
(* What launcher-owned updates promise, without a word of how: releases    *)
(* are authenticated in rising sequence, an update installs the newest     *)
(* authenticated one and never an older one again, a rollback returns to   *)
(* the activation just before, and nothing revoked is ever activated.      *)
(* (docs/security/v0.4.0-update-trust-design.md, "Rollback and Recovery"   *)
(* and "Invariants"; the code is translated in UpdateInstall.)             *)
(***************************************************************************)
EXTENDS Naturals, Sequences

CONSTANT Releases   (* [seq, channel] records *)

VARIABLES
  authenticated,  (* releases with a verified receipt                      *)
  revoked,        (* releases the newest trusted metadata revokes          *)
  history         (* the activated releases, oldest first                  *)

ledger == <<authenticated, revoked, history>>

Above(r, rels) == \A q \in rels : q.seq < r.seq
Installed == {history[g] : g \in DOMAIN history}

Init ==
  /\ authenticated = {}
  /\ revoked = {}
  /\ history = <<>>

Authenticate(r) ==
  /\ r \notin revoked
  /\ Above(r, authenticated)
  /\ authenticated' = authenticated \union {r}
  /\ UNCHANGED <<revoked, history>>

Revoke(rels) ==
  /\ revoked' = revoked \union rels
  /\ UNCHANGED <<authenticated, history>>

Install(r) ==
  /\ r \in authenticated \ revoked
  /\ Above(r, authenticated \ {r})
  /\ Above(r, Installed)
  /\ history' = Append(history, r)
  /\ UNCHANGED <<authenticated, revoked>>

RollBack ==
  /\ Len(history) > 1
  /\ LET r == history[Len(history) - 1] IN
       /\ r # history[Len(history)]
       /\ r \notin revoked
       /\ history' = Append(history, r)
  /\ UNCHANGED <<authenticated, revoked>>

Next ==
  \/ \E r \in Releases : Authenticate(r) \/ Install(r)
  \/ \E rels \in SUBSET Releases : Revoke(rels)
  \/ RollBack

Spec == Init /\ [][Next]_ledger
=============================================================================
