----------------------------- MODULE UpdateStore -----------------------------
(***************************************************************************)
(* What launcher-owned updates keep on disk, and what the code computes    *)
(* from it: the transaction journals (journal.ts), the activation chain    *)
(* (activation-record.ts), the metadata checkpoints, the target receipts,  *)
(* the updater state (state.ts), the release slots and the temporary       *)
(* directories.  UpdateRecovery and UpdateTransaction act on it.           *)
(*                                                                         *)
(* Records are chained by SHA-256 and written once; they are modelled by   *)
(* what a reader extracts from them.  A release stands for its target, its *)
(* artifact, its receipt and its slot, which name each other by digest.    *)
(* The seal of a slot is the transaction that placed it.                   *)
(***************************************************************************)
EXTENDS Naturals, Sequences, FiniteSets

CONSTANTS
  Channels,        (* update channels                                      *)
  DefaultChannel,  (* the channel of a fresh installation                  *)
  Releases,        (* what is ever published: [seq, channel] records       *)
  Revocable,       (* the releases metadata may ever revoke                *)
  MaxTransactions, (* bound: transaction ids drawn in a behaviour          *)
  MaxFaults,       (* bound: crashes, failed steps and deferred removals   *)
  MaxDamage,       (* bound: installed slots spoiled from outside          *)
  MaxStateLoss,    (* bound: updater states spoiled from outside           *)
  TornWrites       (* may a crash separate a record's link and unlink?     *)

ASSUME StoreAssumption ==
  /\ DefaultChannel \in Channels
  /\ Releases \subseteq [seq : Nat \ {0}, channel : Channels]
  /\ IsFiniteSet(Releases)
  /\ Revocable \subseteq Releases
  /\ MaxTransactions \in Nat
  /\ MaxFaults \in Nat
  /\ MaxDamage \in Nat
  /\ MaxStateLoss \in Nat
  /\ TornWrites \in BOOLEAN

VARIABLES
  journals,    (* transaction id |-> its journal, for every journal directory *)
  chain,       (* committed activations; a generation is an index          *)
  checkpoints, (* authenticated metadata, oldest first                     *)
  receipts,    (* releases whose target receipt is persisted               *)
  state,       (* the newest updater state record                          *)
  stateFile,   (* "absent", "readable" or "corrupt"                        *)
  linked,      (* the store whose record has just been linked, not unlinked *)
  torn,        (* stores whose newest record a crash left with two links   *)
  slots,       (* release |-> transaction that placed its slot, 0 if none  *)
  damaged,     (* releases whose slot no longer has the sealed content     *)
  pending,     (* .pending- directories: [tx, rel] records                 *)
  tmp,         (* transactions with a directory under updates/tmp          *)
  drawn,       (* transaction ids drawn so far                             *)
  pc,          (* what the launcher that owns the lock does next           *)
  cand,        (* the release the running update selected                  *)
  plan,        (* what recovery planned for the open journal               *)
  loadError,   (* did this recovery find an unreadable updater state?      *)
  faults,      (* faults so far                                            *)
  harms        (* outside damage so far: [slot, state] counters            *)

records == <<journals, chain, checkpoints, receipts, state, stateFile>>
trees == <<slots, damaged, pending, tmp, torn>>
memory == <<cand, plan, loadError>>
budget == <<faults, harms>>
vars == <<records, linked, trees, drawn, pc, memory, budget>>

-----------------------------------------------------------------------------
(* Data.                                                                   *)

NoRelease == [seq |-> 0, channel |-> DefaultChannel]

(* Phases are numbered as in UPDATE_PHASES; 0 is a journal directory with  *)
(* no record yet.  "recover" closes a journal whatever phase it reached.   *)
EmptyJournal == 0
SelectArtifact == 4
PrepareRollback == 9
PrepareActivation == 10
ValidateProvisionalSlot == 12
CommitActivation == 13
Recover == 15

(* rel stands for releaseSequence, receiptSha256 and slotName, which the   *)
(* journal names from phases 3, 6 and 10 on.                               *)
Journal == [phase : 0 .. Recover, rel : Releases \union {NoRelease}, generation : Nat]
Activation == [reason : {"update", "rollback"}, rel : Releases, seal : Nat]
Checkpoint == [version : [Channels -> Nat], revoked : SUBSET Releases]
State == [checkpoint : Nat, maxActivated : Nat, current : Nat, previous : Nat,
          known : SUBSET Releases, channel : Channels]

InitialState ==
  [checkpoint |-> 0, maxActivated |-> 0, current |-> 0, previous |-> 0,
   known |-> {}, channel |-> DefaultChannel]

RecoverySteps == {"plan", "materialize", "clean", "load", "sync", "validate",
                  "rolledback", "remove", "close", "prune"}
UpdateSteps == {"open", "check", "fetch", "checkpoint", "refresh", "authenticate",
                "select", "receipt", "advance", "current", "leave", "download",
                "verify", "stage", "compat", "prior", "prepare", "place", "move",
                "placed", "health", "commit", "committed", "record", "sweep",
                "supersede", "cleanup", "recover"}
Steps == {"idle", "ready"} \union RecoverySteps \union UpdateSteps

Seqs(rels) == {r.seq : r \in rels}
Highest(numbers) ==
  CHOOSE n \in numbers \union {0} : \A m \in numbers : m <= n

(* maxAuthenticatedReleaseSequence is the last known release's sequence,   *)
(* which validateStateRecord insists on.                                   *)
MaxAuthenticated(s) == Highest(Seqs(s.known))
Activated == {chain[g].rel : g \in DOMAIN chain}
MaxActivatedIn(c) == Highest({c[g].rel.seq : g \in DOMAIN c})

Revoked(generation) == IF generation = 0 THEN {} ELSE checkpoints[generation].revoked
NewestVersion(ch) ==
  IF checkpoints = <<>> THEN 0 ELSE checkpoints[Len(checkpoints)].version[ch]

OpenJournals == {t \in DOMAIN journals : journals[t].phase # Recover}

-----------------------------------------------------------------------------
(* validateInstalledActivation: the receipt is not revoked and the slot    *)
(* still is the sealed tree.                                               *)
Installed(g) ==
  /\ slots[chain[g].rel] = chain[g].seal
  /\ chain[g].rel \notin damaged

Valid(g, revoked) ==
  /\ chain[g].rel \notin revoked
  /\ Installed(g)

(* Wrong on purpose, as are all definitions named Wrong...: what the runs  *)
(* must notice if the code did it.                                         *)
WrongKeptIsOnlyTheCurrent == {r \in Activated : chain[Len(chain)].rel = r}

(* cleanupSupersededSlots keeps the newest two distinct slots of the chain. *)
Kept ==
  {r \in Activated :
    \E g \in DOMAIN chain :
      /\ chain[g].rel = r
      /\ Cardinality({chain[h].rel : h \in g .. Len(chain)}) <= 2}

Superseded == {r \in Releases : slots[r] # 0 /\ r \notin Kept}

(* Removal of a superseded slot may be deferred (the file is in use).      *)
Prune ==
  /\ pending = {}
  /\ \E stay \in {{}} \union (IF faults < MaxFaults THEN {Superseded} ELSE {}) :
       /\ slots' = [r \in Releases |-> IF r \in Superseded \ stay THEN 0 ELSE slots[r]]
       /\ damaged' = damaged \ (Superseded \ stay)
       /\ faults' = IF stay = {} THEN faults ELSE faults + 1

-----------------------------------------------------------------------------
(* The records an operation appends.  writeImmutableFile links a complete  *)
(* temporary file to its final name and then unlinks it; between the two   *)
(* the record has two links, which every reader rejects.                   *)

Stores == {"journal", "chain", "checkpoint", "receipt", "state"}

Wrote(store) == linked' = IF TornWrites THEN store ELSE "none"

SetJournal(t, j) ==
  journals' = [u \in DOMAIN journals \union {t} |-> IF u = t THEN j ELSE journals[u]]

WriteJournal(t, j) == SetJournal(t, j) /\ Wrote("journal")

(* A closed journal is read again only when it names a generation.         *)
Closed(j) ==
  [phase |-> Recover,
   rel |-> IF j.generation = 0 THEN NoRelease ELSE j.rel,
   generation |-> j.generation]

WriteState(s) ==
  /\ state' = s
  /\ stateFile' = "readable"
  /\ Wrote("state")

StateAfterRefresh(s) == [s EXCEPT !.checkpoint = Len(checkpoints)]
StateAfterAuthentication(s, r) == [s EXCEPT !.known = @ \union {r}]

MayRecordActivation(s, e) ==
  /\ e.rel.seq = MaxAuthenticated(s)
  /\ e.rel.seq > s.maxActivated
  /\ e.rel \in s.known

StateAfterActivation(s, g, e) ==
  [s EXCEPT !.channel = e.rel.channel, !.maxActivated = e.rel.seq,
            !.previous = s.current, !.current = g]

MayRecordRollback(s, g, e) ==
  /\ s.current # 0
  /\ g > s.current
  /\ e.rel.seq <= s.maxActivated
  /\ e.rel \in s.known

StateAfterAutomaticRollback(s, g, e) ==
  [s EXCEPT !.channel = e.rel.channel, !.previous = s.current, !.current = g]

-----------------------------------------------------------------------------
Init ==
  /\ journals = <<>>
  /\ chain = <<>>
  /\ checkpoints = <<>>
  /\ receipts = {}
  /\ state = InitialState
  /\ stateFile = "absent"
  /\ linked = "none"
  /\ torn = {}
  /\ slots = [r \in Releases |-> 0]
  /\ damaged = {}
  /\ pending = {}
  /\ tmp = {}
  /\ drawn = 0
  /\ pc = "idle"
  /\ cand = NoRelease
  /\ plan = "none"
  /\ loadError = FALSE
  /\ faults = 0
  /\ harms = [slot |-> 0, state |-> 0]

(* TypeOK: every store, tree and memory cell holds what the code's parsers *)
(* and validators admit, and every counter stays within its bound.         *)
TypeOK ==
  /\ DOMAIN journals \subseteq 1 .. drawn
  /\ journals \in [DOMAIN journals -> Journal]
  /\ chain \in Seq(Activation)
  /\ checkpoints \in Seq(Checkpoint)
  /\ receipts \subseteq Releases
  /\ state \in State
  /\ stateFile \in {"absent", "readable", "corrupt"}
  /\ linked \in Stores \union {"none"}
  /\ torn \subseteq Stores
  /\ slots \in [Releases -> Nat]
  /\ damaged \subseteq Releases
  /\ pending \subseteq [tx : 1 .. drawn, rel : Releases]
  /\ tmp \subseteq 1 .. drawn
  /\ drawn \in 0 .. MaxTransactions
  /\ pc \in Steps
  /\ cand \in Releases \union {NoRelease}
  /\ plan \in {"none", "empty", "precommit", "commit-gap", "committed"}
  /\ loadError \in BOOLEAN
  /\ faults \in 0 .. MaxFaults
  /\ harms \in [slot : 0 .. MaxDamage, state : 0 .. MaxStateLoss]
=============================================================================
