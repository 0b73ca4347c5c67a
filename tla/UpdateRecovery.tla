---------------------------- MODULE UpdateRecovery ----------------------------
(***************************************************************************)
(* recoverInstallation (recovery.ts): what a launcher that has just taken  *)
(* the update lock does before anything else.  Phase one reads every store *)
(* and decides; phase two completes the open journal and brings the state  *)
(* up to the checkpoints, the receipts and the activation chain; then the  *)
(* current activation is validated, or rolled back once, and what the      *)
(* interrupted transaction left behind is removed.                         *)
(*                                                                         *)
(* A check of the code that can fail has an action that refuses.  One that *)
(* guards against what never happens is only the guard of its action: if   *)
(* it could fail the model would deadlock, which every run looks for.      *)
(***************************************************************************)
EXTENDS UpdateStore

(* A recovery that throws has changed nothing since its last durable step; *)
(* the launcher gives the lock back and reports the error.                 *)
Refuse ==
  /\ pc' = "idle"
  /\ plan' = "none"
  /\ loadError' = FALSE
  /\ UNCHANGED <<records, linked, trees, drawn, cand, budget>>

-----------------------------------------------------------------------------
(* Phase one: journals against the activation chain.                       *)

Related(j) ==
  {g \in DOMAIN chain : chain[g].reason = "update" /\ chain[g].rel.seq = j.rel.seq}

WrongMatchesNeedsGeneration(g, t, j) ==
  chain[g].reason = "update" /\ chain[g].rel = j.rel /\ chain[g].seal = t /\ j.generation = g

Matches(g, t, j) ==
  /\ chain[g].reason = "update"
  /\ chain[g].rel = j.rel
  /\ chain[g].seal = t
  /\ j.generation \in {0, g}

(* What planSingleJournalRecovery decides for a journal, if it accepts it. *)
PlannedAction(t, j) ==
  CASE j.phase = EmptyJournal -> "empty"
    [] j.phase = Recover -> "none"
    [] j.phase \in EmptyJournal + 1 .. ValidateProvisionalSlot - 1 -> "precommit"
    [] j.phase = ValidateProvisionalSlot -> IF Related(j) = {} THEN "precommit" ELSE "commit-gap"
    [] OTHER -> "committed"

NamesCommitted(t, j) == \E g \in DOMAIN chain : g = j.generation /\ Matches(g, t, j)

JournalAccepted(t, j) ==
  CASE j.phase < PrepareActivation -> TRUE
    [] j.phase = Recover -> j.generation # 0 => NamesCommitted(t, j)
    [] j.phase \in PrepareActivation .. ValidateProvisionalSlot - 1 -> Related(j) = {}
    [] j.phase = ValidateProvisionalSlot ->
         Related(j) = {} \/ \E g \in DOMAIN chain : Related(j) = {g} /\ Matches(g, t, j)
    [] OTHER -> NamesCommitted(t, j)

JournalsAccepted ==
  /\ Cardinality(OpenJournals) <= 1
  /\ \A t \in DOMAIN journals : JournalAccepted(t, journals[t])

(* Receipts against the chain and the checkpoints.                         *)
ReceiptsAccepted ==
  /\ Activated \subseteq receipts
  /\ checkpoints # <<>> => \A r \in receipts : r.seq <= NewestVersion(r.channel)

WrongStateAcceptedOnlyUpToDate ==
  /\ state.checkpoint = Len(checkpoints)
  /\ state.known \subseteq receipts
  /\ \A k \in state.known, r \in receipts \ state.known : k.seq < r.seq

(* The state may be one checkpoint and some receipts behind.               *)
StateAccepted ==
  /\ state.checkpoint = Len(checkpoints) \/ state.checkpoint + 1 = Len(checkpoints)
  /\ state.known \subseteq receipts
  /\ \A k \in state.known, r \in receipts \ state.known : k.seq < r.seq

Reconstructible == checkpoints # <<>> \/ receipts # {}

(* loadUpdaterState rejects a record with a second link like any damage.   *)
StateUnreadable == stateFile = "corrupt" \/ "state" \in torn

(* The plan accepts a state record with two names, which carrying it out   *)
(* then refuses (RefuseTemporaries); any other such record fails its read. *)
Accepted ==
  /\ torn \subseteq {"state"}
  /\ JournalsAccepted
  /\ ReceiptsAccepted
  /\ IF StateUnreadable THEN Reconstructible ELSE stateFile = "readable" => StateAccepted

Plan ==
  /\ pc = "plan"
  /\ Accepted
  /\ plan' = IF OpenJournals = {} THEN "none"
             ELSE LET t == CHOOSE t \in OpenJournals : TRUE IN PlannedAction(t, journals[t])
  /\ loadError' = StateUnreadable
  /\ pc' = "materialize"
  /\ UNCHANGED <<records, linked, trees, drawn, cand, budget>>

RefusePlan == pc = "plan" /\ ~Accepted /\ Refuse

-----------------------------------------------------------------------------
(* Phase two.                                                              *)

(* materializeEmptyJournals, then materializeActivationCommitGaps: the open *)
(* journal gets the record the crash kept from it.                         *)
Materialize ==
  /\ pc = "materialize"
  /\ IF plan \in {"empty", "commit-gap"}
     THEN \E t \in OpenJournals :
            /\ WriteJournal(t,
                 IF plan = "empty"
                 THEN [journals[t] EXCEPT !.phase = 1]
                 ELSE [journals[t] EXCEPT !.phase = CommitActivation,
                                          !.generation = CHOOSE g \in Related(journals[t]) : TRUE])
            /\ plan' = IF plan = "empty" THEN "precommit" ELSE "committed"
     ELSE UNCHANGED <<journals, linked, plan>>
  /\ pc' = "clean"
  /\ UNCHANGED <<chain, checkpoints, receipts, state, stateFile, trees, drawn, cand,
                 loadError, budget>>

WrongCleanKeepsDirectories ==
  /\ pc = "clean"
  /\ torn = {}
  /\ pc' = "load"
  /\ UNCHANGED <<records, linked, trees, drawn, memory, budget>>

(* Orphan temporary files and interrupted transaction directories go.      *)
CleanTemporaries ==
  /\ pc = "clean"
  /\ torn = {}
  /\ tmp' = {}
  /\ pc' = "load"
  /\ UNCHANGED <<records, linked, slots, damaged, pending, torn, drawn, memory, budget>>

(* cleanupRecognizedTemporaryFiles unlinks no temporary name that is still *)
(* the second name of a record.                                            *)
RefuseTemporaries == pc = "clean" /\ torn # {} /\ Refuse

QuarantineCorruptState ==
  /\ pc = "load"
  /\ loadError
  /\ state' = InitialState
  /\ stateFile' = "absent"
  /\ loadError' = FALSE
  /\ UNCHANGED <<journals, chain, checkpoints, receipts, linked, trees, drawn, pc, cand,
                 plan, budget>>

WrongReconstructedFloor ==
  [checkpoint |-> Len(checkpoints),
   maxActivated |-> IF chain = <<>> THEN 0 ELSE chain[Len(chain)].rel.seq,
   current |-> Len(chain),
   previous |-> IF Len(chain) = 0 THEN 0 ELSE Len(chain) - 1,
   known |-> receipts,
   channel |-> IF chain = <<>> THEN DefaultChannel ELSE chain[Len(chain)].rel.channel]

WrongReconstructedPrevious ==
  [checkpoint |-> Len(checkpoints),
   maxActivated |-> MaxActivatedIn(chain),
   current |-> Len(chain),
   previous |-> Len(chain) - 1,
   known |-> receipts,
   channel |-> IF chain = <<>> THEN DefaultChannel ELSE chain[Len(chain)].rel.channel]

ReconstructedState ==
  [checkpoint |-> Len(checkpoints),
   maxActivated |-> MaxActivatedIn(chain),
   current |-> Len(chain),
   previous |-> IF Len(chain) = 0 THEN 0 ELSE Len(chain) - 1,
   known |-> receipts,
   channel |-> IF chain = <<>> THEN DefaultChannel ELSE chain[Len(chain)].rel.channel]

ReconstructState ==
  /\ pc = "load"
  /\ ~loadError
  /\ stateFile = "absent"
  /\ Reconstructible
  /\ WriteState(ReconstructedState)
  /\ pc' = "sync"
  /\ UNCHANGED <<journals, chain, checkpoints, receipts, trees, drawn, memory, budget>>

RefreshState ==
  /\ pc = "load"
  /\ ~loadError
  /\ stateFile = "readable"
  /\ state.checkpoint # Len(checkpoints)
  /\ WriteState(StateAfterRefresh(state))
  /\ UNCHANGED <<journals, chain, checkpoints, receipts, trees, drawn, pc, memory, budget>>

(* Receipts the state has not recorded yet, lowest sequence first.         *)
AdvanceReceipts ==
  /\ pc = "load"
  /\ ~loadError
  /\ stateFile = "readable"
  /\ state.checkpoint = Len(checkpoints)
  /\ \E r \in receipts \ state.known :
       /\ \A q \in receipts \ state.known : r.seq <= q.seq
       /\ WriteState(StateAfterAuthentication(state, r))
  /\ UNCHANGED <<journals, chain, checkpoints, receipts, trees, drawn, pc, memory, budget>>

(* Either the state is up to date, or there never was one ("pristine").    *)
StateLoaded ==
  /\ pc = "load"
  /\ ~loadError
  /\ \/ /\ stateFile = "readable"
        /\ state.checkpoint = Len(checkpoints)
        /\ receipts \subseteq state.known
        /\ pc' = "sync"
     \/ /\ stateFile = "absent"
        /\ ~Reconstructible
        /\ pc' = "remove"
  /\ UNCHANGED <<records, linked, trees, drawn, memory, budget>>

-----------------------------------------------------------------------------
(* synchronizeStateWithActivationChain: one state record per activation    *)
(* the state has not recorded.                                             *)

MayRecord(s, g) ==
  IF chain[g].reason = "update" THEN MayRecordActivation(s, chain[g])
  ELSE MayRecordRollback(s, g, chain[g])

StateAfter(s, g) ==
  IF chain[g].reason = "update" THEN StateAfterActivation(s, g, chain[g])
  ELSE StateAfterAutomaticRollback(s, g, chain[g])

SynchronizeState ==
  /\ pc = "sync"
  /\ state.current < Len(chain)
  /\ MayRecord(state, state.current + 1)
  /\ WriteState(StateAfter(state, state.current + 1))
  /\ UNCHANGED <<journals, chain, checkpoints, receipts, trees, drawn, pc, memory, budget>>

Synchronized ==
  /\ state.current = Len(chain)
  /\ chain # <<>> => state.channel = chain[Len(chain)].rel.channel

StateSynchronized ==
  /\ pc = "sync"
  /\ Synchronized
  /\ pc' = "validate"
  /\ UNCHANGED <<records, linked, trees, drawn, memory, budget>>

-----------------------------------------------------------------------------
(* The current activation is validated under the revocations the state has *)
(* recorded; if it fails, performAutomaticRollback.                        *)

CurrentValid == chain # <<>> => Valid(Len(chain), Revoked(state.checkpoint))

MayRollBack ==
  /\ state.previous # 0
  /\ chain[state.previous].rel # chain[Len(chain)].rel
  /\ Valid(state.previous, Revoked(state.checkpoint))

ValidateCurrent ==
  /\ pc = "validate"
  /\ CurrentValid
  /\ pc' = "remove"
  /\ UNCHANGED <<records, linked, trees, drawn, memory, budget>>

(* The rollback record repeats the identity of its source and is durable   *)
(* before the state that records it.                                       *)
AppendRollback ==
  /\ pc = "validate"
  /\ ~CurrentValid
  /\ MayRollBack
  /\ chain' = Append(chain, [chain[state.previous] EXCEPT !.reason = "rollback"])
  /\ Wrote("chain")
  /\ pc' = "rolledback"
  /\ UNCHANGED <<journals, checkpoints, receipts, state, stateFile, trees, drawn, memory, budget>>

WrongRollbackNotRecorded ==
  /\ pc = "rolledback"
  /\ pc' = "remove"
  /\ UNCHANGED <<records, linked, trees, drawn, memory, budget>>

RecordRollback ==
  /\ pc = "rolledback"
  /\ MayRecordRollback(state, Len(chain), chain[Len(chain)])
  /\ WriteState(StateAfterAutomaticRollback(state, Len(chain), chain[Len(chain)]))
  /\ pc' = "remove"
  /\ UNCHANGED <<journals, chain, checkpoints, receipts, trees, drawn, memory, budget>>

RefuseInstallation == pc = "validate" /\ ~CurrentValid /\ ~MayRollBack /\ Refuse

-----------------------------------------------------------------------------
(* recoverJournals: an uncommitted transaction loses its provisional slot  *)
(* and its temporary directory, and every open journal is closed.          *)

RemoveProvisionalSlot ==
  /\ pc = "remove"
  /\ \E t \in OpenJournals :
       LET j == journals[t] IN
       IF plan = "precommit" /\ j.phase >= PrepareActivation
       THEN /\ j.rel \notin Activated
            /\ slots' = [slots EXCEPT ![j.rel] = 0]
            /\ damaged' = damaged \ {j.rel}
            /\ pending' = pending \ {[tx |-> t, rel |-> j.rel]}
       ELSE UNCHANGED <<slots, damaged, pending>>
  /\ tmp' = tmp \ OpenJournals
  /\ pc' = "close"
  /\ UNCHANGED <<records, linked, torn, drawn, memory, budget>>

WrongCloseLeavesOpen ==
  /\ pc = "close"
  /\ plan' = "none"
  /\ pc' = "prune"
  /\ UNCHANGED <<records, linked, trees, drawn, cand, loadError, budget>>

CloseJournal ==
  /\ pc = "close"
  /\ \E t \in OpenJournals : WriteJournal(t, Closed(journals[t]))
  /\ plan' = "none"
  /\ pc' = "prune"
  /\ UNCHANGED <<chain, checkpoints, receipts, state, stateFile, trees, drawn, cand,
                 loadError, budget>>

NoOpenJournal ==
  /\ pc = "remove"
  /\ OpenJournals = {}
  /\ pc' = "prune"
  /\ UNCHANGED <<records, linked, trees, drawn, memory, budget>>

(* cleanupSupersededSlots: anything but a slot in a releases directory is  *)
(* an error.                                                               *)
PruneSlots ==
  /\ pc = "prune"
  /\ Prune
  /\ pc' = "ready"
  /\ UNCHANGED <<records, linked, torn, pending, tmp, drawn, memory, harms>>

-----------------------------------------------------------------------------
PhaseOne == Plan \/ RefusePlan
PhaseTwo ==
  \/ Materialize
  \/ CleanTemporaries
  \/ RefuseTemporaries
  \/ QuarantineCorruptState
  \/ ReconstructState
  \/ RefreshState
  \/ AdvanceReceipts
  \/ StateLoaded
Synchronize == SynchronizeState \/ StateSynchronized
Validate == ValidateCurrent \/ AppendRollback \/ RecordRollback \/ RefuseInstallation
CloseJournals ==
  \/ RemoveProvisionalSlot
  \/ CloseJournal
  \/ NoOpenJournal
  \/ PruneSlots

RecoveryStep == PhaseOne \/ PhaseTwo \/ Synchronize \/ Validate \/ CloseJournals
=============================================================================
