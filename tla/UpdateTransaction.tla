--------------------------- MODULE UpdateTransaction ---------------------------
(***************************************************************************)
(* runLockedUpdate (updater.ts) and activateCandidate (activation.ts): one *)
(* transaction, journaled phase by phase, from fetching the metadata to    *)
(* the closed journal.  Every durable write is a step of its own, so that  *)
(* a crash may come between any two.  Fetching, downloading, unpacking,    *)
(* signature and health checks are external: they succeed, or throw.       *)
(***************************************************************************)
EXTENDS UpdateStore

(* The transaction id is the newest drawn one.                             *)
Log(phase) ==
  WriteJournal(drawn, [journals[drawn] EXCEPT !.phase = phase, !.rel = cand])

Active == chain # <<>> /\ chain[Len(chain)].rel = cand

(* The catch block: the temporary directory goes, the journal stays open   *)
(* and so does whatever was placed.                                        *)
Throw ==
  /\ tmp' = tmp \ {drawn}
  /\ pc' = "idle"
  /\ cand' = NoRelease
  /\ UNCHANGED <<records, linked, slots, damaged, pending, torn, drawn, plan, loadError, harms>>

(* Anything external a step does may fail.                                 *)
Fail ==
  /\ pc \in UpdateSteps
  /\ faults < MaxFaults
  /\ faults' = faults + 1
  /\ Throw

-----------------------------------------------------------------------------
(* A pristine installation gets its first state record.                    *)
PristineLayout ==
  /\ journals = <<>> /\ checkpoints = <<>> /\ receipts = {} /\ chain = <<>>
  /\ \A r \in Releases : slots[r] = 0

InitializeState ==
  /\ pc = "ready"
  /\ stateFile = "absent"
  /\ PristineLayout
  /\ WriteState(InitialState)
  /\ UNCHANGED <<journals, chain, checkpoints, receipts, trees, drawn, pc, memory, budget>>

CreateTransactionPaths ==
  /\ pc = "ready"
  /\ stateFile = "readable"
  /\ state.checkpoint = Len(checkpoints)
  /\ drawn < MaxTransactions
  /\ drawn' = drawn + 1
  /\ tmp' = tmp \union {drawn + 1}
  /\ pc' = "open"
  /\ UNCHANGED <<records, linked, slots, damaged, pending, torn, memory, budget>>

(* No transaction id is left within the bound.                             *)
Stop ==
  /\ pc = "ready"
  /\ stateFile = "readable"
  /\ drawn = MaxTransactions
  /\ pc' = "idle"
  /\ UNCHANGED <<records, linked, trees, drawn, memory, budget>>

(* createTransactionJournal only makes a directory: no record is linked.   *)
CreateJournal ==
  /\ pc = "open"
  /\ SetJournal(drawn, [phase |-> EmptyJournal, rel |-> NoRelease, generation |-> 0])
  /\ pc' = "check"
  /\ UNCHANGED <<chain, checkpoints, receipts, state, stateFile, linked, trees, drawn, memory,
                 budget>>

-----------------------------------------------------------------------------
(* The transitions that only record a phase: step |-> phase and next step. *)
Transitions ==
  [check        |-> [phase |-> 1,  next |-> "fetch"],
   fetch        |-> [phase |-> 2,  next |-> "checkpoint"],
   authenticate |-> [phase |-> 3,  next |-> "select"],
   download     |-> [phase |-> 5,  next |-> "verify"],
   verify       |-> [phase |-> 6,  next |-> "stage"],
   stage        |-> [phase |-> 7,  next |-> "compat"],
   compat       |-> [phase |-> 8,  next |-> "prior"],
   prepare      |-> [phase |-> PrepareActivation, next |-> "place"],
   placed       |-> [phase |-> 11, next |-> "health"],
   health       |-> [phase |-> ValidateProvisionalSlot, next |-> "commit"],
   cleanup      |-> [phase |-> 14, next |-> "recover"]]

Transition ==
  /\ pc \in DOMAIN Transitions
  /\ Log(Transitions[pc].phase)
  /\ pc' = Transitions[pc].next
  /\ UNCHANGED <<chain, checkpoints, receipts, state, stateFile, trees, drawn, memory, budget>>

(* Fetched metadata authenticates when no version it names goes back and   *)
(* its revocations only grow; it is then the newest checkpoint.            *)
AuthenticateMetadata ==
  /\ pc = "checkpoint"
  /\ \E r \in Releases, more \in SUBSET Revocable :
       /\ r.seq >= NewestVersion(r.channel)
       /\ checkpoints' = Append(checkpoints,
            [version |-> [ch \in Channels |-> IF ch = r.channel THEN r.seq ELSE NewestVersion(ch)],
             revoked |-> Revoked(Len(checkpoints)) \union more])
       /\ cand' = r
  /\ Wrote("checkpoint")
  /\ pc' = "refresh"
  /\ UNCHANGED <<journals, chain, receipts, state, stateFile, trees, drawn, plan, loadError, budget>>

RefreshMetadata ==
  /\ pc = "refresh"
  /\ WriteState(StateAfterRefresh(state))
  /\ pc' = "authenticate"
  /\ UNCHANGED <<journals, chain, checkpoints, receipts, trees, drawn, memory, budget>>

-----------------------------------------------------------------------------
(* selectAuthenticatedArtifact: never a revoked release, never below the   *)
(* floor, and a sequence that is known keeps its release.                  *)
SequenceFloor == Highest({MaxAuthenticated(state), state.maxActivated})

WrongSelectableWithoutFloor ==
  /\ cand \notin Revoked(Len(checkpoints))
  /\ \A k \in state.known : k.seq = cand.seq => k = cand

Selectable ==
  /\ cand \notin Revoked(Len(checkpoints))
  /\ cand.seq >= SequenceFloor
  /\ \A k \in state.known : k.seq = cand.seq => k = cand
  /\ cand.seq = SequenceFloor => cand \in state.known

Select ==
  /\ pc = "select"
  /\ Selectable
  /\ Log(SelectArtifact)
  /\ pc' = "receipt"
  /\ UNCHANGED <<chain, checkpoints, receipts, state, stateFile, trees, drawn, memory, budget>>

FindOrPersistReceipt ==
  /\ pc = "receipt"
  /\ IF cand \in receipts
     THEN UNCHANGED <<receipts, linked>>
     ELSE receipts' = receipts \union {cand} /\ Wrote("receipt")
  /\ pc' = "advance"
  /\ UNCHANGED <<journals, chain, checkpoints, state, stateFile, trees, drawn, memory, budget>>

AdvanceState ==
  /\ pc = "advance"
  /\ IF cand.seq > MaxAuthenticated(state)
     THEN WriteState(StateAfterAuthentication(state, cand))
     ELSE UNCHANGED <<state, stateFile, linked>>
  /\ pc' = IF Active THEN "current" ELSE "download"
  /\ UNCHANGED <<journals, chain, checkpoints, receipts, trees, drawn, memory, budget>>

(* A required check that does not hold makes the code throw.               *)
RefuseSelection == pc = "select" /\ ~Selectable /\ Throw /\ UNCHANGED faults

-----------------------------------------------------------------------------
(* Already current: validated under the new revocations, then closed with  *)
(* no activation.                                                          *)
CurrentStillValid == Valid(Len(chain), Revoked(Len(checkpoints)))

ConfirmCurrent ==
  /\ pc = "current"
  /\ CurrentStillValid
  /\ tmp' = tmp \ {drawn}
  /\ pc' = "leave"
  /\ UNCHANGED <<records, linked, slots, damaged, pending, torn, drawn, memory, budget>>

(* activateCandidate: what is installed must be a sound rollback target.   *)
PriorValid == chain # <<>> => CurrentStillValid

PreparedRollback ==
  /\ pc = "prior"
  /\ PriorValid
  /\ Log(PrepareRollback)
  /\ pc' = "prepare"
  /\ UNCHANGED <<chain, checkpoints, receipts, state, stateFile, trees, drawn, memory, budget>>

(* The staged tree moves to a .pending- name and from there to its slot.   *)
DestinationFree == slots[cand] = 0 /\ [tx |-> drawn, rel |-> cand] \notin pending

PlacePending ==
  /\ pc = "place"
  /\ DestinationFree
  /\ pending' = pending \union {[tx |-> drawn, rel |-> cand]}
  /\ pc' = "move"
  /\ UNCHANGED <<records, linked, torn, slots, damaged, tmp, drawn, memory, budget>>

PlaceSlot ==
  /\ pc = "move"
  /\ pending' = pending \ {[tx |-> drawn, rel |-> cand]}
  /\ slots' = [slots EXCEPT ![cand] = drawn]
  /\ pc' = "placed"
  /\ UNCHANGED <<records, linked, torn, damaged, tmp, drawn, memory, budget>>

(* appendUpdateActivationRecord: the commit point.                         *)
CommitUpdate ==
  /\ pc = "commit"
  /\ cand.seq > MaxActivatedIn(chain)
  /\ chain' = Append(chain, [reason |-> "update", rel |-> cand, seal |-> drawn])
  /\ Wrote("chain")
  /\ pc' = "committed"
  /\ UNCHANGED <<journals, checkpoints, receipts, state, stateFile, trees, drawn, memory, budget>>

ActivationCommitted ==
  /\ pc = "committed"
  /\ WriteJournal(drawn, [journals[drawn] EXCEPT !.phase = CommitActivation,
                                                !.generation = Len(chain)])
  /\ pc' = "record"
  /\ UNCHANGED <<chain, checkpoints, receipts, state, stateFile, trees, drawn, memory, budget>>

RefuseCandidate ==
  /\ \/ pc = "current" /\ ~CurrentStillValid
     \/ pc = "prior" /\ ~PriorValid
     \/ pc = "place" /\ ~DestinationFree
  /\ Throw
  /\ UNCHANGED faults

-----------------------------------------------------------------------------
RecordActivation ==
  /\ pc = "record"
  /\ MayRecordActivation(state, chain[Len(chain)])
  /\ WriteState(StateAfterActivation(state, Len(chain), chain[Len(chain)]))
  /\ pc' = "sweep"
  /\ UNCHANGED <<journals, chain, checkpoints, receipts, trees, drawn, memory, budget>>

CleanupTransaction ==
  /\ pc = "sweep"
  /\ tmp' = tmp \ {drawn}
  /\ pc' = "supersede"
  /\ UNCHANGED <<records, linked, slots, damaged, pending, torn, drawn, memory, budget>>

PruneSuperseded ==
  /\ pc = "supersede"
  /\ Prune
  /\ pc' = "cleanup"
  /\ UNCHANGED <<records, linked, torn, pending, tmp, drawn, memory, harms>>

(* The last record closes the journal and the run returns.                 *)
Finish ==
  /\ pc \in {"leave", "recover"}
  /\ WriteJournal(drawn, Closed(journals[drawn]))
  /\ pc' = "idle"
  /\ cand' = NoRelease
  /\ UNCHANGED <<chain, checkpoints, receipts, state, stateFile, trees, drawn, plan,
                 loadError, budget>>

-----------------------------------------------------------------------------
Prologue == InitializeState \/ CreateTransactionPaths \/ Stop \/ CreateJournal
Choose ==
  \/ AuthenticateMetadata
  \/ RefreshMetadata
  \/ Select
  \/ FindOrPersistReceipt
  \/ AdvanceState
  \/ RefuseSelection
Activate ==
  \/ ConfirmCurrent
  \/ PreparedRollback
  \/ PlacePending
  \/ PlaceSlot
  \/ CommitUpdate
  \/ ActivationCommitted
  \/ RefuseCandidate
Epilogue == RecordActivation \/ CleanupTransaction \/ PruneSuperseded \/ Finish

UpdateStep == Prologue \/ Transition \/ Choose \/ Activate \/ Epilogue
=============================================================================
