------------------------- MODULE UpdateInstall_proofs -------------------------
(***************************************************************************)
(* What launcher-owned updates guarantee for every set of releases and     *)
(* channels and every number of transactions, crashes and damages: first   *)
(* of the journals and the chain, then of the stores that name one another *)
(* and of the ledger they implement.  The argument of the first part: at   *)
(* most one journal is open, it belongs to the newest transaction, and     *)
(* what pc says of the run in progress relates that journal to the chain   *)
(* it may commit to.                                                       *)
(***************************************************************************)
EXTENDS UpdateInstall, FiniteSetTheorems, WellFoundedInduction, TLAPS

-----------------------------------------------------------------------------
(* Facts about the helpers of UpdateStore: every floor the code computes   *)
(* (the newest known, authenticated or activated sequence) is the maximum  *)
(* of a finite set of sequences, and exists.                               *)

IsHighest(n, numbers) == n \in numbers /\ \A m \in numbers : m <= n

(* Lemma: a finite set of natural numbers that is not empty has a maximum; *)
(* else the smallest of its subsets without one loses an element and still *)
(* has none.                                                               *)
LEMMA FiniteSetHasMaximum ==
  ASSUME NEW S \in SUBSET Nat, IsFiniteSet(S), S # {}
  PROVE  \E n \in Nat : IsHighest(n, S)
<1> DEFINE Unbounded == {T \in SUBSET S : T # {} /\ ~ \E n \in Nat : IsHighest(n, T)}
<1>1. SUFFICES ASSUME Unbounded # {}
               PROVE  FALSE
  OBVIOUS
<1>2. IsWellFoundedOn(StrictSubsetOrdering(S), SUBSET S)
  BY FS_StrictSubsetOrderingWellFounded, FS_FiniteSubsetsOfFinite
<1>3. PICK T \in Unbounded : \A U \in Unbounded : ~ (<<U, T>> \in StrictSubsetOrdering(S))
  <2> HIDE DEF Unbounded
  <2>1. Unbounded \subseteq SUBSET S
    BY DEF Unbounded
  <2>2. QED
    BY <1>1, <1>2, <2>1, WFMin
<1>4. PICK x \in T : TRUE
  OBVIOUS
<1>5. T \ {x} \notin Unbounded
  BY <1>3, <1>4 DEF StrictSubsetOrdering
<1>6. CASE T \ {x} = {}
  <2>1. x \in Nat /\ IsHighest(x, T)
    BY <1>4, <1>6 DEF IsHighest
  <2>2. QED
    BY <2>1
<1>7. CASE T \ {x} # {}
  <2>1. PICK n \in Nat : IsHighest(n, T \ {x})
    BY <1>5, <1>7
  <2>2. x \in Nat
    BY <1>4
  <2>3. IsHighest(IF n < x THEN x ELSE n, T)
    BY <1>4, <2>1, <2>2 DEF IsHighest
  <2>4. QED
    BY <2>2, <2>3
<1>8. QED
  BY <1>6, <1>7

(* Lemma: Highest is 0 or the maximum of a finite set of numbers.          *)
LEMMA HighestProperties ==
  ASSUME NEW S \in SUBSET Nat, IsFiniteSet(S)
  PROVE  /\ Highest(S) \in Nat
         /\ Highest(S) \in S \union {0}
         /\ \A m \in S : m <= Highest(S)
<1>1. \E n \in S \union {0} : \A m \in S : m <= n
  <2>1. CASE S = {}
    BY <2>1
  <2>2. CASE S # {}
    <3>1. PICK n \in Nat : IsHighest(n, S)
      BY <2>2, FiniteSetHasMaximum
    <3>2. QED
      BY <3>1 DEF IsHighest
  <2>3. QED
    BY <2>1, <2>2
<1>2. Highest(S) \in S \union {0} /\ \A m \in S : m <= Highest(S)
  BY <1>1, Zenon DEF Highest
<1>3. S \union {0} \subseteq Nat
  OBVIOUS
<1>4. QED
  BY <1>2, <1>3, Zenon

(* Lemma: the sequences of the releases that are ever published, and so    *)
(* those of any set of them, are finitely many.                            *)
LEMMA SeqsFinite ==
  ASSUME NEW rels \in SUBSET Releases
  PROVE  /\ Seqs(rels) \in SUBSET Nat
         /\ IsFiniteSet(Seqs(rels))
<1>1. IsFiniteSet(rels)
  BY StoreAssumption, FS_Subset
<1>2. [r \in rels |-> r.seq] \in Surjection(rels, Seqs(rels))
  BY DEF Surjection, Seqs
<1>3. IsFiniteSet(Seqs(rels))
  BY <1>1, <1>2, FS_Surjection
<1>4. QED
  BY <1>3, StoreAssumption DEF Seqs

(* Lemma: the activation floor read off a chain of activations.            *)
LEMMA MaxActivatedInProperties ==
  ASSUME NEW c \in Seq(Activation)
  PROVE  /\ MaxActivatedIn(c) \in Nat
         /\ \A g \in DOMAIN c : c[g].rel.seq <= MaxActivatedIn(c)
<1> DEFINE R == {c[g].rel : g \in DOMAIN c}
<1>1. R \in SUBSET Releases
  <2>1. \A g \in DOMAIN c : c[g] \in Activation
    OBVIOUS
  <2>2. QED
    BY <2>1 DEF Activation
<1>2. {c[g].rel.seq : g \in DOMAIN c} = Seqs(R)
  BY DEF Seqs
<1>3. QED
  BY <1>1, <1>2, SeqsFinite, HighestProperties DEF MaxActivatedIn

-----------------------------------------------------------------------------
(* The inductive strengthening.                                            *)

(* A running transaction has the open journal; recovery leaves none.       *)
RunInv ==
  /\ pc \in UpdateSteps \ {"open"} => drawn \in OpenJournals
  /\ pc = "open" => drawn # 0 /\ drawn \notin DOMAIN journals
  /\ pc \in {"prune", "ready", "open"} => OpenJournals = {}

(* Metadata, once authenticated, names the candidate.                      *)
CandidateInv ==
  pc \in UpdateSteps \ {"open", "check", "fetch", "checkpoint"} => cand \in Releases

(* The activation whose journal record is due is this transaction's own.   *)
CommitInv ==
  /\ pc \in {"committed", "record", "rolledback"} => chain # <<>>
  /\ pc = "committed" => chain[Len(chain)].seal = drawn

(* The state never runs ahead of the chain.                                *)
StateInv == state.previous <= state.current /\ state.current <= Len(chain)

(* Where recovery planned to close a commit gap, the gap's activation is   *)
(* the open transaction's.                                                 *)
GapInv ==
  plan = "commit-gap" =>
    /\ pc = "materialize"
    /\ \A t \in OpenJournals :
         /\ Related(journals[t]) # {}
         /\ \A g \in Related(journals[t]) : chain[g].seal = t

InstallInv ==
  /\ TypeOK
  /\ RunInv
  /\ CandidateInv
  /\ CommitInv
  /\ StateInv
  /\ GapInv
  /\ JournalsAgree

-----------------------------------------------------------------------------
(* Lemmas about the records an operation appends.                          *)

(* Lemma: writing one journal keeps every journal typed and the others as  *)
(* they are.                                                               *)
LEMMA JournalWritten ==
  ASSUME TypeOK, NEW t \in 1 .. drawn, NEW j \in Journal, SetJournal(t, j), drawn' = drawn
  PROVE  /\ DOMAIN journals' \subseteq 1 .. drawn'
         /\ DOMAIN journals' = DOMAIN journals \union {t}
         /\ journals' \in [DOMAIN journals' -> Journal]
         /\ journals'[t] = j
         /\ \A u \in DOMAIN journals \ {t} : journals'[u] = journals[u]
  BY DEF TypeOK, SetJournal

(* Lemma: a step that writes one journal and touches nothing else that is  *)
(* durable stays within the types.                                         *)
LEMMA JournalStep ==
  ASSUME TypeOK, NEW t \in 1 .. drawn, NEW j \in Journal, SetJournal(t, j),
         linked' \in {linked, "none", "journal"},
         UNCHANGED <<chain, checkpoints, receipts, state, stateFile, trees, drawn, budget>>,
         pc' \in Steps, cand' \in Releases \union {NoRelease}, loadError' \in BOOLEAN,
         plan' \in {"none", "empty", "precommit", "commit-gap", "committed"}
  PROVE  TypeOK'
<1>1. /\ DOMAIN journals' \subseteq 1 .. drawn'
      /\ journals' \in [DOMAIN journals' -> Journal]
  BY JournalWritten
<1>2. linked' \in Stores \union {"none"}
  BY DEF TypeOK, Stores
<1>3. QED
  BY <1>1, <1>2 DEF TypeOK, trees, budget

(* Lemma: a journal record with another phase is a journal record, and so  *)
(* is a closed one.                                                        *)
LEMMA JournalRecords ==
  ASSUME NEW j \in Journal, NEW n \in 0 .. Recover, NEW g \in Nat,
         NEW r \in Releases \union {NoRelease}
  PROVE  /\ [j EXCEPT !.phase = n] \in Journal
         /\ [j EXCEPT !.phase = n, !.rel = r] \in Journal
         /\ [j EXCEPT !.phase = n, !.generation = g] \in Journal
  BY DEF Journal

(* Lemma: a closed journal is a journal, and is open no more.              *)
LEMMA ClosedJournal ==
  ASSUME NEW j \in Journal
  PROVE  Closed(j) \in Journal /\ Closed(j).phase = Recover /\ Closed(j).generation = j.generation
<1>1. j.rel \in Releases \union {NoRelease} /\ j.generation \in Nat /\ Recover \in 0 .. Recover
  BY DEF Journal, Recover
<1>2. QED
  BY <1>1 DEF Journal, Closed

(* Lemma: a written state is typed.                                        *)
LEMMA StateWritten ==
  ASSUME NEW s \in State, WriteState(s)
  PROVE  /\ state' \in State
         /\ stateFile' \in {"absent", "readable", "corrupt"}
         /\ linked' \in Stores \union {"none"}
  BY DEF WriteState, Wrote, Stores

(* Lemma: the successors of a typed state are typed.                       *)
LEMMA StateSuccessors ==
  ASSUME TypeOK
  PROVE  /\ InitialState \in State
         /\ ReconstructedState \in State
         /\ StateAfterRefresh(state) \in State
         /\ \A r \in Releases : StateAfterAuthentication(state, r) \in State
         /\ \A g \in Nat, e \in Activation :
              /\ StateAfterActivation(state, g, e) \in State
              /\ StateAfterAutomaticRollback(state, g, e) \in State
<1> USE StoreAssumption DEF State
<1>1. InitialState \in State
  BY DEF InitialState
<1>2. ReconstructedState \in State
  <2>1. chain \in Seq(Activation) /\ Len(chain) \in Nat /\ Len(checkpoints) \in Nat
        /\ receipts \in SUBSET Releases
    BY DEF TypeOK
  <2>2. MaxActivatedIn(chain) \in Nat
    BY <2>1, MaxActivatedInProperties
  <2>3. chain # <<>> => Len(chain) # 0 /\ chain[Len(chain)] \in Activation
    BY <2>1
  <2>4. (IF chain = <<>> THEN DefaultChannel ELSE chain[Len(chain)].rel.channel) \in Channels
    BY <2>3 DEF Activation
  <2>5. QED
    BY <2>1, <2>2, <2>4 DEF ReconstructedState
<1>3. StateAfterRefresh(state) \in State
  <2>1. state \in State /\ Len(checkpoints) \in Nat
    BY DEF TypeOK
  <2>2. QED
    BY <2>1 DEF StateAfterRefresh
<1>4. ASSUME NEW r \in Releases
      PROVE  StateAfterAuthentication(state, r) \in State
  BY DEF TypeOK, StateAfterAuthentication
<1>5. ASSUME NEW g \in Nat, NEW e \in Activation
      PROVE  /\ StateAfterActivation(state, g, e) \in State
             /\ StateAfterAutomaticRollback(state, g, e) \in State
  <2>1. e.rel.channel \in Channels /\ e.rel.seq \in Nat
    BY DEF Activation
  <2>2. QED
    BY <2>1 DEF TypeOK, StateAfterActivation, StateAfterAutomaticRollback
<1>6. QED
  BY <1>1, <1>2, <1>3, <1>4, <1>5

(* Lemma: a Transition records a phase short of the last and goes on       *)
(* inside the transaction, after the candidate is known if it was before.  *)
LEMMA TransitionTable ==
  ASSUME NEW s \in DOMAIN Transitions
  PROVE  /\ s \in UpdateSteps \ {"open"}
         /\ Transitions[s].phase \in 0 .. Recover /\ Transitions[s].phase # Recover
         /\ Transitions[s].next \in UpdateSteps \ {"open", "committed", "record"}
         /\ Transitions[s].next \in {"fetch", "checkpoint"} \/ s \notin {"check", "fetch"}
  BY DEF Transitions, UpdateSteps, Recover, ValidateProvisionalSlot, PrepareActivation

-----------------------------------------------------------------------------
(* Lemma: no step leaves the types.                                        *)
LEMMA TypeStep == InstallInv /\ [Next]_vars => TypeOK'
<1> SUFFICES ASSUME InstallInv, [Next]_vars
             PROVE  TypeOK'
  OBVIOUS
<1> USE StoreAssumption DEF records, trees, memory, budget, Steps, RecoverySteps, UpdateSteps
<1>1. TypeOK
  BY DEF InstallInv
<1>2. chain \in Seq(Activation) /\ Len(chain) \in Nat /\ \A g \in 1 .. Len(chain) : chain[g] \in Activation
  BY <1>1 DEF TypeOK
<1>3. pc \in UpdateSteps \ {"open"} =>
        drawn \in DOMAIN journals /\ drawn \in 1 .. drawn /\ journals[drawn] \in Journal
  BY <1>1 DEF InstallInv, RunInv, OpenJournals, TypeOK
<1>4. ASSUME Unlink \/ Start \/ Plan \/ RefusePlan \/ CleanTemporaries \/ RefuseTemporaries
             \/ StateLoaded \/ StateSynchronized \/ ValidateCurrent \/ RefuseInstallation
             \/ NoOpenJournal
      PROVE  TypeOK'
  <2>1. ASSUME Plan
        PROVE  TypeOK'
    <3>1. plan' \in {"none", "empty", "precommit", "commit-gap", "committed"}
      BY <2>1 DEF Plan, PlannedAction
    <3>2. loadError' \in BOOLEAN /\ pc' = "materialize"
      BY <2>1 DEF Plan, StateUnreadable
    <3>3. QED
      BY <1>1, <2>1, <3>1, <3>2 DEF TypeOK, Plan
  <2>2. ASSUME Unlink \/ Start
        PROVE  TypeOK'
    BY <1>1, <2>2 DEF TypeOK, Unlink, Start
  <2>3. ASSUME RefusePlan \/ RefuseTemporaries \/ RefuseInstallation
        PROVE  TypeOK'
    BY <1>1, <2>3 DEF TypeOK, RefusePlan, RefuseTemporaries, RefuseInstallation, Refuse
  <2>4. ASSUME CleanTemporaries
        PROVE  TypeOK'
    BY <1>1, <2>4 DEF TypeOK, CleanTemporaries
  <2>5. ASSUME StateLoaded \/ StateSynchronized \/ ValidateCurrent \/ NoOpenJournal
        PROVE  TypeOK'
    BY <1>1, <2>5 DEF TypeOK, StateLoaded, StateSynchronized, ValidateCurrent, NoOpenJournal
  <2>6. QED
    BY <1>4, <2>1, <2>2, <2>3, <2>4, <2>5
<1>5. ASSUME QuarantineCorruptState \/ RemoveProvisionalSlot
      PROVE  TypeOK'
  <2>1. ASSUME QuarantineCorruptState
        PROVE  TypeOK'
    BY <1>1, <2>1, StateSuccessors DEF TypeOK, QuarantineCorruptState
  <2>2. ASSUME RemoveProvisionalSlot
        PROVE  TypeOK'
    <3>1. slots' \in [Releases -> Nat] /\ damaged' \subseteq damaged /\ pending' \subseteq pending
      <4>1. PICK t \in OpenJournals :
              IF plan = "precommit" /\ journals[t].phase >= PrepareActivation
              THEN /\ slots' = [slots EXCEPT ![journals[t].rel] = 0]
                   /\ damaged' = damaged \ {journals[t].rel}
                   /\ pending' = pending \ {[tx |-> t, rel |-> journals[t].rel]}
              ELSE UNCHANGED <<slots, damaged, pending>>
        BY <2>2, Zenon DEF RemoveProvisionalSlot
      <4>2. QED
        BY <1>1, <4>1 DEF TypeOK
    <3>2. tmp' \subseteq tmp /\ pc' = "close"
      BY <2>2 DEF RemoveProvisionalSlot
    <3>3. UNCHANGED <<records, linked, torn, drawn, memory, budget>>
      BY <2>2 DEF RemoveProvisionalSlot
    <3>4. QED
      BY <1>1, <3>1, <3>2, <3>3 DEF TypeOK
  <2>3. QED
    BY <1>5, <2>1, <2>2
<1>6. ASSUME Materialize
      PROVE  TypeOK'
  <2>1. CASE plan = "empty"
    <3>1. PICK t \in OpenJournals : WriteJournal(t, [journals[t] EXCEPT !.phase = 1])
      BY <1>6, <2>1 DEF Materialize
    <3>2. t \in 1 .. drawn /\ t \in DOMAIN journals /\ journals[t] \in Journal
      BY <1>1 DEF OpenJournals, TypeOK
    <3>3. [journals[t] EXCEPT !.phase = 1] \in Journal
      <4>1. 1 \in 0 .. Recover
        BY DEF Recover
      <4>2. QED
        BY <3>2, <4>1, JournalRecords
    <3>4. QED
      BY <1>1, <1>6, <2>1, <3>1, <3>2, <3>3, JournalStep
         DEF TypeOK, Materialize, WriteJournal, Wrote
  <2>2. CASE plan = "commit-gap"
    <3> DEFINE Done(t) == [journals[t] EXCEPT !.phase = CommitActivation,
                                               !.generation = CHOOSE g \in Related(journals[t]) : TRUE]
    <3>1. PICK t \in OpenJournals : WriteJournal(t, Done(t))
      BY <1>6, <2>2 DEF Materialize
    <3>2. t \in 1 .. drawn /\ t \in DOMAIN journals /\ journals[t] \in Journal
      BY <1>1 DEF OpenJournals, TypeOK
    <3>3. (CHOOSE g \in Related(journals[t]) : TRUE) \in Nat
      BY <1>2, <2>2 DEF InstallInv, GapInv, Related
    <3>4. Done(t) \in Journal
      <4>1. CommitActivation \in 0 .. Recover
        BY DEF CommitActivation, Recover
      <4>2. QED
        BY <3>2, <3>3, <4>1, JournalRecords
    <3> HIDE DEF Done
    <3>5. QED
      BY <1>1, <1>6, <2>2, <3>1, <3>2, <3>4, JournalStep
         DEF TypeOK, Materialize, WriteJournal, Wrote
  <2>3. CASE plan \notin {"empty", "commit-gap"}
    BY <1>1, <1>6, <2>3 DEF TypeOK, Materialize
  <2>4. QED
    BY <2>1, <2>2, <2>3
<1>7. ASSUME ReconstructState \/ RefreshState \/ AdvanceReceipts \/ InitializeState \/ RefreshMetadata
      PROVE  TypeOK'
  <2>1. PICK s \in State : WriteState(s)
    BY <1>1, <1>7, StateSuccessors
       DEF TypeOK, ReconstructState, RefreshState, AdvanceReceipts, InitializeState, RefreshMetadata
  <2>2. QED
    BY <1>1, <1>7, <2>1, StateWritten
       DEF TypeOK, ReconstructState, RefreshState, AdvanceReceipts, InitializeState, RefreshMetadata
<1>8. ASSUME SynchronizeState \/ RecordRollback \/ RecordActivation
      PROVE  TypeOK'
  <2>1. chain # <<>> => Len(chain) \in 1 .. Len(chain)
    BY <1>2
  <2>2. state.current \in Nat
    BY <1>1 DEF TypeOK, State
  <2>3. PICK g \in 1 .. Len(chain) : WriteState(StateAfter(state, g))
                                   \/ WriteState(StateAfterActivation(state, g, chain[g]))
                                   \/ WriteState(StateAfterAutomaticRollback(state, g, chain[g]))
    <3>1. CASE SynchronizeState
      BY <1>2, <2>2, <3>1 DEF SynchronizeState
    <3>2. CASE RecordRollback
      BY <2>1, <3>2 DEF RecordRollback, InstallInv, CommitInv
    <3>3. CASE RecordActivation
      BY <2>1, <3>3 DEF RecordActivation, InstallInv, CommitInv
    <3>4. QED
      BY <1>8, <3>1, <3>2, <3>3
  <2>4. PICK s \in State : WriteState(s)
    BY <1>1, <1>2, <2>3, StateSuccessors DEF StateAfter
  <2>5. QED
    BY <1>1, <1>8, <2>4, StateWritten
       DEF TypeOK, SynchronizeState, RecordRollback, RecordActivation
<1>9. ASSUME AdvanceState
      PROVE  TypeOK'
  <2>1. CASE cand.seq > MaxAuthenticated(state)
    <3>1. StateAfterAuthentication(state, cand) \in State
      BY <1>1, <1>9, StateSuccessors DEF AdvanceState, InstallInv, CandidateInv
    <3>2. QED
      BY <1>1, <1>9, <2>1, <3>1, StateWritten DEF TypeOK, AdvanceState
  <2>2. CASE ~(cand.seq > MaxAuthenticated(state))
    BY <1>1, <1>9, <2>2 DEF TypeOK, AdvanceState
  <2>3. QED
    BY <2>1, <2>2
<1>10. ASSUME AppendRollback
       PROVE  TypeOK'
  <2>1. state.previous \in 1 .. Len(chain)
    BY <1>1, <1>2, <1>10 DEF AppendRollback, MayRollBack, InstallInv, StateInv, TypeOK, State
  <2>2. [chain[state.previous] EXCEPT !.reason = "rollback"] \in Activation
    BY <1>2, <2>1 DEF Activation
  <2>3. chain' \in Seq(Activation)
    BY <1>2, <1>10, <2>2 DEF AppendRollback
  <2>4. QED
    BY <1>1, <1>10, <2>3 DEF TypeOK, AppendRollback, Wrote, Stores
<1>11. ASSUME CloseJournal
       PROVE  TypeOK'
  <2>1. PICK t \in OpenJournals : WriteJournal(t, Closed(journals[t]))
    BY <1>11 DEF CloseJournal
  <2>2. t \in 1 .. drawn /\ t \in DOMAIN journals /\ journals[t] \in Journal
    BY <1>1 DEF OpenJournals, TypeOK
  <2>3. Closed(journals[t]) \in Journal
    BY <2>2, ClosedJournal
  <2>4. QED
    BY <1>1, <1>11, <2>1, <2>2, <2>3, JournalStep
       DEF TypeOK, CloseJournal, WriteJournal, Wrote
<1>12. ASSUME PruneSlots \/ PruneSuperseded
       PROVE  TypeOK'
  BY <1>1, <1>12 DEF TypeOK, PruneSlots, PruneSuperseded, Prune
<1>13. ASSUME CreateTransactionPaths \/ Stop
       PROVE  TypeOK'
  BY <1>1, <1>13 DEF TypeOK, CreateTransactionPaths, Stop
<1>14. ASSUME CreateJournal
       PROVE  TypeOK'
  <2> DEFINE j == [phase |-> EmptyJournal, rel |-> NoRelease, generation |-> 0]
  <2>1. j \in Journal /\ drawn \in 1 .. drawn
    BY <1>1, <1>14 DEF CreateJournal, InstallInv, RunInv, TypeOK, Journal, EmptyJournal, Recover
  <2>2. SetJournal(drawn, j)
    BY <1>14 DEF CreateJournal
  <2> HIDE DEF j
  <2>3. QED
    BY <1>1, <1>14, <2>1, <2>2, JournalStep DEF TypeOK, CreateJournal
<1>15. ASSUME Transition \/ Select \/ PreparedRollback
       PROVE  TypeOK'
  <2>1. PICK n \in 0 .. Recover : Log(n) /\ pc' \in UpdateSteps /\ drawn \in DOMAIN journals
    BY <1>3, <1>15, TransitionTable
       DEF Transition, Select, PreparedRollback, SelectArtifact, PrepareRollback, Recover
  <2>2. [journals[drawn] EXCEPT !.phase = n, !.rel = cand] \in Journal
    BY <1>1, <2>1 DEF TypeOK, Journal
  <2>3. QED
    <3>1. WriteJournal(drawn, [journals[drawn] EXCEPT !.phase = n, !.rel = cand])
      BY <2>1 DEF Log
    <3>2. UNCHANGED <<chain, checkpoints, receipts, state, stateFile, trees, drawn, memory, budget>>
      BY <1>15 DEF Transition, Select, PreparedRollback
    <3>3. drawn \in 1 .. drawn
      BY <1>1, <2>1 DEF TypeOK
    <3>4. QED
      BY <1>1, <2>1, <2>2, <3>1, <3>2, <3>3, JournalStep DEF TypeOK, WriteJournal, Wrote
<1>16. ASSUME AuthenticateMetadata
       PROVE  TypeOK'
  <2>1. PICK r \in Releases, more \in SUBSET Revocable :
          /\ checkpoints' = Append(checkpoints,
               [version |-> [ch \in Channels |-> IF ch = r.channel THEN r.seq ELSE NewestVersion(ch)],
                revoked |-> Revoked(Len(checkpoints)) \union more])
          /\ cand' = r
    BY <1>16 DEF AuthenticateMetadata
  <2>2. checkpoints # <<>> => checkpoints[Len(checkpoints)] \in Checkpoint
    BY <1>1 DEF TypeOK
  <2>3. checkpoints \in Seq(Checkpoint) /\ (checkpoints = <<>> <=> Len(checkpoints) = 0)
    BY <1>1 DEF TypeOK
  <2>4. \A ch \in Channels : NewestVersion(ch) \in Nat
    BY <2>2 DEF NewestVersion, Checkpoint
  <2>5. Revoked(Len(checkpoints)) \in SUBSET Releases
    BY <2>2, <2>3 DEF Revoked, Checkpoint
  <2>6. checkpoints' \in Seq(Checkpoint)
    BY <2>1, <2>3, <2>4, <2>5 DEF Checkpoint
  <2>7. QED
    BY <1>1, <1>16, <2>1, <2>6 DEF TypeOK, AuthenticateMetadata, Wrote, Stores
<1>17. ASSUME FindOrPersistReceipt
       PROVE  TypeOK'
  BY <1>1, <1>17 DEF TypeOK, FindOrPersistReceipt, InstallInv, CandidateInv, Wrote, Stores
<1>18. ASSUME RefuseSelection \/ RefuseCandidate \/ Fail
       PROVE  TypeOK'
  BY <1>1, <1>18 DEF TypeOK, RefuseSelection, RefuseCandidate, Fail, Throw
<1>19. ASSUME ConfirmCurrent \/ CleanupTransaction \/ PlacePending \/ PlaceSlot
       PROVE  TypeOK'
  BY <1>1, <1>3, <1>19
     DEF TypeOK, ConfirmCurrent, CleanupTransaction, PlacePending, PlaceSlot, InstallInv, CandidateInv
<1>20. ASSUME CommitUpdate
       PROVE  TypeOK'
  <2>1. cand \in Releases /\ drawn \in Nat
    BY <1>1, <1>20 DEF CommitUpdate, InstallInv, CandidateInv, TypeOK
  <2>2. [reason |-> "update", rel |-> cand, seal |-> drawn] \in Activation
    BY <2>1 DEF Activation
  <2>3. chain' \in Seq(Activation)
    BY <1>2, <1>20, <2>2 DEF CommitUpdate
  <2>4. QED
    BY <1>1, <1>20, <2>3 DEF TypeOK, CommitUpdate, Wrote, Stores
<1>21. ASSUME ActivationCommitted \/ Finish
       PROVE  TypeOK'
  <2>1. drawn \in DOMAIN journals /\ drawn \in 1 .. drawn /\ journals[drawn] \in Journal
    BY <1>3, <1>21 DEF ActivationCommitted, Finish
  <2>2. PICK j \in Journal : WriteJournal(drawn, j)
    <3>1. Closed(journals[drawn]) \in Journal
      BY <2>1, ClosedJournal
    <3>2. [journals[drawn] EXCEPT !.phase = CommitActivation, !.generation = Len(chain)] \in Journal
      <4>1. CommitActivation \in 0 .. Recover
        BY DEF CommitActivation, Recover
      <4>2. QED
        BY <1>2, <2>1, <4>1, JournalRecords
    <3>3. QED
      BY <1>21, <3>1, <3>2 DEF ActivationCommitted, Finish
  <2>3. QED
    BY <1>1, <1>21, <2>1, <2>2, JournalStep
       DEF TypeOK, ActivationCommitted, Finish, WriteJournal, Wrote
<1>22. ASSUME Crash \/ DamageSlot \/ LoseState
       PROVE  TypeOK'
  <2>1. ASSUME Crash
        PROVE  TypeOK'
    <3>1. torn' \subseteq Stores
      BY <1>1, <2>1 DEF TypeOK, Crash
    <3>2. faults' \in 0 .. MaxFaults
      BY <1>1, <2>1 DEF TypeOK, Crash
    <3>3. QED
      BY <1>1, <2>1, <3>1, <3>2 DEF TypeOK, Crash
  <2>2. ASSUME DamageSlot
        PROVE  TypeOK'
    <3>1. harms.slot + 1 \in 0 .. MaxDamage /\ harms \in [slot : 0 .. MaxDamage, state : 0 .. MaxStateLoss]
      BY <1>1, <2>2 DEF TypeOK, DamageSlot
    <3>2. harms' = [harms EXCEPT !.slot = harms.slot + 1]
      BY <2>2 DEF DamageSlot
    <3>3. harms' \in [slot : 0 .. MaxDamage, state : 0 .. MaxStateLoss]
      BY <3>1, <3>2
    <3>4. damaged' \subseteq Releases
      BY <1>1, <2>2 DEF TypeOK, DamageSlot
    <3>5. QED
      BY <1>1, <2>2, <3>3, <3>4 DEF TypeOK, DamageSlot
  <2>3. ASSUME LoseState
        PROVE  TypeOK'
    <3>1. harms.state + 1 \in 0 .. MaxStateLoss /\ harms \in [slot : 0 .. MaxDamage, state : 0 .. MaxStateLoss]
      BY <1>1, <2>3 DEF TypeOK, LoseState
    <3>2. harms' = [harms EXCEPT !.state = harms.state + 1]
      BY <2>3 DEF LoseState
    <3>3. harms' \in [slot : 0 .. MaxDamage, state : 0 .. MaxStateLoss]
      BY <3>1, <3>2
    <3>4. QED
      BY <1>1, <2>3, <3>3 DEF TypeOK, LoseState
  <2>4. QED
    BY <1>22, <2>1, <2>2, <2>3
<1>23. CASE UNCHANGED vars
  BY <1>1, <1>23 DEF TypeOK, vars
<1>24. QED
  BY <1>4, <1>5, <1>6, <1>7, <1>8, <1>9, <1>10, <1>11, <1>12, <1>13, <1>14, <1>15, <1>16,
     <1>17, <1>18, <1>19, <1>20, <1>21, <1>22, <1>23
     DEF Next, Launcher, RecoveryStep, PhaseOne, PhaseTwo, Synchronize, Validate, CloseJournals,
         UpdateStep, Prologue, Choose, Activate, Epilogue

-----------------------------------------------------------------------------
(* Lemmas about the open journal.                                          *)

(* Lemma: no two journals are open at once.                                *)
LEMMA OneOpenJournal ==
  ASSUME InstallInv, NEW t \in OpenJournals
  PROVE  OpenJournals = {t}
<1>1. \A u \in OpenJournals : u <= t /\ t <= u /\ u \in Nat /\ t \in Nat
  BY DEF InstallInv, JournalsAgree, OpenJournals, TypeOK
<1>2. QED
  BY <1>1

(* Lemma: a record written to the open journal leaves it the only open one, *)
(* or none, and keeps the journals in agreement with the chain if it names *)
(* no generation but one of its own.                                       *)
LEMMA OpenJournalWritten ==
  ASSUME InstallInv, NEW t \in OpenJournals, NEW j \in Journal, WriteJournal(t, j),
         UNCHANGED <<drawn, chain>>,
         j.generation # 0 => j.generation \in DOMAIN chain /\ chain[j.generation].seal = t
  PROVE  /\ JournalsAgree'
         /\ OpenJournals' = IF j.phase = Recover THEN {} ELSE {t}
<1>1. t \in 1 .. drawn /\ t \in DOMAIN journals /\ TypeOK
  BY DEF InstallInv, OpenJournals, TypeOK
<1>2. DOMAIN journals' = DOMAIN journals /\ journals'[t] = j
      /\ \A u \in DOMAIN journals \ {t} : journals'[u] = journals[u]
  BY <1>1, JournalWritten DEF WriteJournal
<1>3. OpenJournals = {t}
  BY OneOpenJournal
<1>4. OpenJournals' = IF j.phase = Recover THEN {} ELSE {t}
  BY <1>1, <1>2, <1>3 DEF OpenJournals
<1>5. ASSUME NEW u \in DOMAIN journals'
      PROVE  /\ u \in OpenJournals' => \A w \in DOMAIN journals' : w <= u
             /\ journals'[u].generation # 0 =>
                  /\ journals'[u].generation \in DOMAIN chain'
                  /\ chain'[journals'[u].generation].seal = u
  BY <1>1, <1>2, <1>3, <1>4, <1>5 DEF InstallInv, JournalsAgree, OpenJournals
<1>6. QED
  BY <1>4, <1>5 DEF JournalsAgree

(* Lemma: the open journal's own generation is one its record may keep.    *)
LEMMA OwnGeneration ==
  ASSUME InstallInv, NEW t \in OpenJournals
  PROVE  /\ journals[t] \in Journal
         /\ journals[t].phase # Recover
         /\ journals[t].generation # 0 =>
              journals[t].generation \in DOMAIN chain /\ chain[journals[t].generation].seal = t
  BY DEF InstallInv, JournalsAgree, OpenJournals, TypeOK

(* Lemma: as long as journals, transaction ids and chain stay, a step that *)
(* moves only inside recovery, only inside the transaction or ends the run *)
(* keeps both invariants.                                                  *)
LEMMA QuietStep ==
  ASSUME InstallInv, UNCHANGED <<journals, drawn, chain>>,
         \/ pc' = pc
         \/ pc' \in (RecoverySteps \ {"prune"}) \union {"idle"}
         \/ pc \in UpdateSteps \ {"open"} /\ pc' \in UpdateSteps \ {"open"}
  PROVE  RunInv' /\ JournalsAgree'
<1>1. OpenJournals' = OpenJournals /\ JournalsAgree'
  BY DEF InstallInv, OpenJournals, JournalsAgree
<1>2. QED
  BY <1>1 DEF InstallInv, RunInv, UpdateSteps, RecoverySteps

(* Lemma: the open journal is always the newest one and the run's own, and *)
(* every journal agrees with the chain, whatever step is taken.            *)
LEMMA RunStep == InstallInv /\ TypeOK' /\ [Next]_vars => RunInv' /\ JournalsAgree'
<1> SUFFICES ASSUME InstallInv, TypeOK', [Next]_vars
             PROVE  RunInv' /\ JournalsAgree'
  OBVIOUS
<1> USE DEF records, memory, trees, budget, RecoverySteps, UpdateSteps
<1>1. TypeOK /\ RunInv /\ JournalsAgree
  BY DEF InstallInv
<1>2. ASSUME Unlink \/ Start \/ Plan \/ RefusePlan \/ CleanTemporaries \/ RefuseTemporaries
             \/ QuarantineCorruptState \/ ReconstructState \/ RefreshState \/ AdvanceReceipts
      PROVE  RunInv' /\ JournalsAgree'
  BY <1>2, QuietStep
     DEF Unlink, Start, Plan, RefusePlan, Refuse, CleanTemporaries, RefuseTemporaries,
         QuarantineCorruptState, ReconstructState, RefreshState, AdvanceReceipts
<1>3. ASSUME StateLoaded \/ SynchronizeState \/ StateSynchronized \/ ValidateCurrent
             \/ RecordRollback \/ RefuseInstallation \/ RemoveProvisionalSlot
      PROVE  RunInv' /\ JournalsAgree'
  BY <1>3, QuietStep
     DEF StateLoaded, SynchronizeState, StateSynchronized, ValidateCurrent, RecordRollback,
         RefuseInstallation, Refuse, RemoveProvisionalSlot
<1>4. ASSUME InitializeState \/ Stop \/ AuthenticateMetadata \/ RefreshMetadata
             \/ FindOrPersistReceipt \/ AdvanceState
      PROVE  RunInv' /\ JournalsAgree'
  BY <1>4, QuietStep
     DEF InitializeState, Stop, AuthenticateMetadata, RefreshMetadata, FindOrPersistReceipt,
         AdvanceState
<1>5. ASSUME ConfirmCurrent \/ PlacePending \/ PlaceSlot \/ RecordActivation
             \/ CleanupTransaction \/ PruneSuperseded
      PROVE  RunInv' /\ JournalsAgree'
  BY <1>5, QuietStep
     DEF ConfirmCurrent, PlacePending, PlaceSlot, RecordActivation, CleanupTransaction,
         PruneSuperseded
<1>6. ASSUME RefuseSelection \/ RefuseCandidate \/ Fail \/ Crash \/ DamageSlot \/ LoseState
      PROVE  RunInv' /\ JournalsAgree'
  BY <1>6, QuietStep
     DEF RefuseSelection, RefuseCandidate, Fail, Throw, Crash, DamageSlot, LoseState
<1>7. ASSUME Materialize
      PROVE  RunInv' /\ JournalsAgree'
  <2>1. pc' = "clean" /\ UNCHANGED <<drawn, chain>>
    BY <1>7 DEF Materialize
  <2>2. CASE UNCHANGED journals
    BY <2>1, <2>2, QuietStep
  <2>3. CASE plan \in {"empty", "commit-gap"}
    <3>1. PICK t \in OpenJournals, j \in Journal :
            /\ WriteJournal(t, j)
            /\ j.generation # 0 => j.generation \in DOMAIN chain /\ chain[j.generation].seal = t
      <4>1. CASE plan = "empty"
        <5>1. PICK t \in OpenJournals : WriteJournal(t, [journals[t] EXCEPT !.phase = 1])
          BY <1>7, <4>1 DEF Materialize
        <5> DEFINE j == [journals[t] EXCEPT !.phase = 1]
        <5>2. j \in Journal /\ j.generation = journals[t].generation
          BY OwnGeneration DEF Journal, Recover
        <5>3. WriteJournal(t, j)
          BY <5>1
        <5> HIDE DEF j
        <5>4. QED
          BY <5>2, <5>3, OwnGeneration
      <4>2. CASE plan = "commit-gap"
        <5> DEFINE G(t) == CHOOSE g \in Related(journals[t]) : TRUE
        <5>1. PICK t \in OpenJournals :
                WriteJournal(t, [journals[t] EXCEPT !.phase = CommitActivation, !.generation = G(t)])
          BY <1>7, <4>2 DEF Materialize
        <5>2. G(t) \in DOMAIN chain /\ chain[G(t)].seal = t
          BY <4>2 DEF InstallInv, GapInv, Related
        <5>3. G(t) \in Nat
          BY <1>1, <5>2 DEF TypeOK
        <5> HIDE DEF G
        <5> DEFINE j == [journals[t] EXCEPT !.phase = CommitActivation, !.generation = G(t)]
        <5>4. journals[t] \in Journal /\ CommitActivation \in 0 .. Recover
          BY OwnGeneration DEF Recover, CommitActivation
        <5>5. j \in Journal
          BY <5>3, <5>4, JournalRecords
        <5>6. j.generation = G(t)
          BY <5>4 DEF Journal
        <5>7. WriteJournal(t, j)
          BY <5>1
        <5> HIDE DEF j
        <5>8. QED
          BY <5>2, <5>5, <5>6, <5>7
      <4>3. QED
        BY <2>3, <4>1, <4>2
    <3>2. JournalsAgree'
      BY <2>1, <3>1, OpenJournalWritten
    <3>3. QED
      BY <2>1, <3>2 DEF RunInv
  <2>4. QED
    BY <1>7, <2>2, <2>3 DEF Materialize
<1>8. ASSUME CloseJournal
      PROVE  RunInv' /\ JournalsAgree'
  <2>1. PICK t \in OpenJournals : WriteJournal(t, Closed(journals[t]))
    BY <1>8 DEF CloseJournal
  <2>2. pc' = "prune" /\ UNCHANGED <<drawn, chain>>
    BY <1>8 DEF CloseJournal
  <2>3. JournalsAgree' /\ OpenJournals' = {}
    BY <2>1, <2>2, OwnGeneration, ClosedJournal, OpenJournalWritten
  <2>4. QED
    BY <2>2, <2>3 DEF RunInv
<1>9. ASSUME NoOpenJournal \/ PruneSlots
      PROVE  RunInv' /\ JournalsAgree'
  <2>1. UNCHANGED <<journals, drawn, chain>> /\ OpenJournals = {} /\ pc' \in {"prune", "ready"}
    BY <1>1, <1>9 DEF NoOpenJournal, PruneSlots, RunInv
  <2>2. QED
    BY <1>1, <2>1 DEF RunInv, JournalsAgree, OpenJournals
<1>10. ASSUME CreateTransactionPaths
       PROVE  RunInv' /\ JournalsAgree'
  <2>1. UNCHANGED <<journals, chain>> /\ pc = "ready" /\ pc' = "open" /\ drawn' = drawn + 1
    BY <1>10 DEF CreateTransactionPaths
  <2>2. drawn' # 0 /\ drawn' \notin DOMAIN journals
    BY <1>1, <2>1 DEF TypeOK
  <2>3. QED
    BY <1>1, <2>1, <2>2 DEF RunInv, JournalsAgree, OpenJournals
<1>11. ASSUME CreateJournal
       PROVE  RunInv' /\ JournalsAgree'
  <2> DEFINE j == [phase |-> EmptyJournal, rel |-> NoRelease, generation |-> 0]
  <2>1. SetJournal(drawn, j) /\ pc = "open" /\ pc' = "check" /\ UNCHANGED <<drawn, chain>>
    BY <1>11 DEF CreateJournal
  <2>2. j \in Journal /\ j.generation = 0 /\ j.phase # Recover /\ drawn \in 1 .. drawn
    BY <1>1, <2>1 DEF Journal, EmptyJournal, Recover, TypeOK, RunInv
  <2> HIDE DEF j
  <2>3. DOMAIN journals' = DOMAIN journals \union {drawn} /\ journals'[drawn] = j
        /\ \A u \in DOMAIN journals : journals'[u] = journals[u]
    BY <1>1, <2>1, <2>2, JournalWritten DEF RunInv
  <2>4. OpenJournals' = {drawn}
    BY <1>1, <2>1, <2>2, <2>3 DEF RunInv, OpenJournals
  <2>5. \A u \in DOMAIN journals' : u <= drawn
    BY <1>1, <2>2, <2>3 DEF TypeOK
  <2>6. JournalsAgree'
    BY <1>1, <2>1, <2>2, <2>3, <2>4, <2>5 DEF JournalsAgree
  <2>7. QED
    BY <2>1, <2>4, <2>6 DEF RunInv
<1>12. ASSUME Transition \/ Select \/ PreparedRollback
       PROVE  RunInv' /\ JournalsAgree'
  <2>1. PICK n \in 0 .. Recover :
          /\ n # Recover
          /\ Log(n)
          /\ pc \in UpdateSteps \ {"open"} /\ pc' \in UpdateSteps \ {"open"}
    BY <1>12, TransitionTable
       DEF Transition, Select, PreparedRollback, SelectArtifact, PrepareRollback, Recover
  <2>2. UNCHANGED <<drawn, chain>> /\ drawn \in OpenJournals
    BY <1>1, <1>12, <2>1 DEF Transition, Select, PreparedRollback, RunInv
  <2> DEFINE j == [journals[drawn] EXCEPT !.phase = n, !.rel = cand]
  <2>3. j \in Journal /\ j.phase = n /\ j.generation = journals[drawn].generation
    BY <1>1, <2>2, OwnGeneration DEF Journal, TypeOK
  <2>4. WriteJournal(drawn, j)
    BY <2>1 DEF Log
  <2> HIDE DEF j
  <2>5. JournalsAgree' /\ OpenJournals' = {drawn}
    BY <2>1, <2>2, <2>3, <2>4, OwnGeneration, OpenJournalWritten
  <2>6. QED
    BY <2>1, <2>2, <2>5 DEF RunInv
<1>13. ASSUME ActivationCommitted \/ Finish
       PROVE  RunInv' /\ JournalsAgree'
  <2>1. UNCHANGED <<drawn, chain>> /\ drawn \in OpenJournals
    BY <1>1, <1>13 DEF ActivationCommitted, Finish, RunInv
  <2>2. CASE ActivationCommitted
    <3> DEFINE j == [journals[drawn] EXCEPT !.phase = CommitActivation, !.generation = Len(chain)]
    <3>1. Len(chain) \in DOMAIN chain /\ Len(chain) \in Nat /\ chain[Len(chain)].seal = drawn
      BY <1>1, <2>2 DEF ActivationCommitted, InstallInv, CommitInv, TypeOK
    <3>2. j \in Journal /\ j.phase # Recover /\ j.generation = Len(chain)
      <4>1. journals[drawn] \in Journal /\ CommitActivation \in 0 .. Recover /\ CommitActivation # Recover
        BY <2>1, OwnGeneration DEF Recover, CommitActivation
      <4>2. j \in Journal
        BY <3>1, <4>1, JournalRecords
      <4>3. QED
        BY <4>1, <4>2 DEF Journal
    <3>3. WriteJournal(drawn, j) /\ pc' = "record"
      BY <2>2 DEF ActivationCommitted
    <3> HIDE DEF j
    <3>4. JournalsAgree' /\ OpenJournals' = {drawn}
      BY <2>1, <3>1, <3>2, <3>3, OpenJournalWritten
    <3>5. QED
      BY <2>1, <3>3, <3>4 DEF RunInv
  <2>3. CASE Finish
    <3>1. WriteJournal(drawn, Closed(journals[drawn])) /\ pc' = "idle"
      BY <2>3 DEF Finish
    <3>2. JournalsAgree'
      BY <2>1, <3>1, OwnGeneration, ClosedJournal, OpenJournalWritten
    <3>3. QED
      BY <3>1, <3>2 DEF RunInv
  <2>4. QED
    BY <1>13, <2>2, <2>3
<1>14. ASSUME AppendRollback \/ CommitUpdate
       PROVE  RunInv' /\ JournalsAgree'
  <2>1. PICK e : chain' = Append(chain, e)
    BY <1>14 DEF AppendRollback, CommitUpdate
  <2>2. \A g \in DOMAIN chain : g \in DOMAIN chain' /\ chain'[g] = chain[g]
    BY <1>1, <2>1 DEF TypeOK
  <2>3. UNCHANGED <<journals, drawn>> /\ OpenJournals' = OpenJournals
    BY <1>14 DEF AppendRollback, CommitUpdate, OpenJournals
  <2>4. JournalsAgree'
    BY <1>1, <2>2, <2>3 DEF JournalsAgree
  <2>5. pc' = "rolledback" \/ (pc = "commit" /\ pc' = "committed")
    BY <1>14 DEF AppendRollback, CommitUpdate
  <2>6. QED
    BY <1>1, <2>3, <2>4, <2>5 DEF RunInv
<1>15. CASE UNCHANGED vars
  BY <1>15, QuietStep DEF vars
<1>16. QED
  BY <1>2, <1>3, <1>4, <1>5, <1>6, <1>7, <1>8, <1>9, <1>10, <1>11, <1>12, <1>13, <1>14, <1>15
     DEF Next, Launcher, RecoveryStep, PhaseOne, PhaseTwo, Synchronize, Validate, CloseJournals,
         UpdateStep, Prologue, Choose, Activate, Epilogue

-----------------------------------------------------------------------------
(* Lemma: whatever step is taken, a run past its metadata has a candidate, *)
(* and a run past its commit point has an activation of its own.           *)
LEMMA CommitStep == InstallInv /\ TypeOK' /\ [Next]_vars => CandidateInv' /\ CommitInv'
<1> SUFFICES ASSUME InstallInv, TypeOK', [Next]_vars
             PROVE  CandidateInv' /\ CommitInv'
  OBVIOUS
<1> USE DEF records, memory, trees, budget, UpdateSteps
<1>1. TypeOK /\ CandidateInv /\ CommitInv
  BY DEF InstallInv
<1>2. ASSUME UNCHANGED <<chain, drawn>>,
             \/ pc' = pc /\ cand' = cand
             \/ pc' \in (RecoverySteps \ {"rolledback"}) \union {"idle", "ready", "open", "check"}
             \/ pc \in UpdateSteps \ {"open", "check", "fetch", "checkpoint"}
                /\ pc' \in UpdateSteps \ {"committed", "record"} /\ cand' = cand
      PROVE  CandidateInv' /\ CommitInv'
  BY <1>1, <1>2 DEF CandidateInv, CommitInv, RecoverySteps
<1>3. ASSUME Unlink \/ Start \/ Plan \/ RefusePlan \/ CleanTemporaries \/ RefuseTemporaries
             \/ QuarantineCorruptState \/ ReconstructState \/ RefreshState \/ AdvanceReceipts
      PROVE  CandidateInv' /\ CommitInv'
  BY <1>2, <1>3
     DEF Unlink, Start, Plan, RefusePlan, Refuse, CleanTemporaries, RefuseTemporaries,
         QuarantineCorruptState, ReconstructState, RefreshState, AdvanceReceipts, RecoverySteps
<1>4. ASSUME StateLoaded \/ SynchronizeState \/ StateSynchronized \/ ValidateCurrent
             \/ RecordRollback \/ RefuseInstallation \/ RemoveProvisionalSlot
      PROVE  CandidateInv' /\ CommitInv'
  BY <1>2, <1>4
     DEF StateLoaded, SynchronizeState, StateSynchronized, ValidateCurrent, RecordRollback,
         RefuseInstallation, Refuse, RemoveProvisionalSlot, RecoverySteps
<1>5. ASSUME Materialize \/ CloseJournal \/ NoOpenJournal \/ PruneSlots
      PROVE  CandidateInv' /\ CommitInv'
  BY <1>2, <1>5 DEF Materialize, CloseJournal, NoOpenJournal, PruneSlots, RecoverySteps
<1>6. ASSUME InitializeState \/ Stop \/ CreateJournal \/ RefreshMetadata
             \/ FindOrPersistReceipt \/ AdvanceState
      PROVE  CandidateInv' /\ CommitInv'
  BY <1>2, <1>6
     DEF InitializeState, Stop, CreateJournal, RefreshMetadata, FindOrPersistReceipt, AdvanceState
<1>7. ASSUME ConfirmCurrent \/ PlacePending \/ PlaceSlot \/ RecordActivation \/ Select
             \/ PreparedRollback \/ CleanupTransaction \/ PruneSuperseded \/ Finish
      PROVE  CandidateInv' /\ CommitInv'
  BY <1>2, <1>7
     DEF ConfirmCurrent, PlacePending, PlaceSlot, RecordActivation, Select, PreparedRollback,
         CleanupTransaction, PruneSuperseded, Finish
<1>8. ASSUME RefuseSelection \/ RefuseCandidate \/ Fail \/ Crash \/ DamageSlot \/ LoseState
      PROVE  CandidateInv' /\ CommitInv'
  BY <1>2, <1>8
     DEF RefuseSelection, RefuseCandidate, Fail, Throw, Crash, DamageSlot, LoseState
<1>9. ASSUME CreateTransactionPaths
      PROVE  CandidateInv' /\ CommitInv'
  BY <1>9 DEF CreateTransactionPaths, CandidateInv, CommitInv
<1>10. ASSUME Transition
       PROVE  CandidateInv' /\ CommitInv'
  <2>1. pc' \in UpdateSteps \ {"open", "committed", "record"} /\ UNCHANGED <<chain, drawn, cand>>
        /\ pc \in UpdateSteps \ {"open"}
    BY <1>10, TransitionTable DEF Transition
  <2>2. pc \in {"check", "fetch"} => pc' \in {"fetch", "checkpoint"}
    BY <1>10, TransitionTable DEF Transition
  <2>3. pc # "checkpoint"
    BY <1>10 DEF Transition, Transitions
  <2>4. QED
    BY <1>1, <2>1, <2>2, <2>3 DEF CandidateInv, CommitInv
<1>11. ASSUME AuthenticateMetadata
       PROVE  CandidateInv' /\ CommitInv'
  BY <1>11 DEF AuthenticateMetadata, CandidateInv, CommitInv
<1>12. ASSUME CommitUpdate \/ AppendRollback
       PROVE  CandidateInv' /\ CommitInv'
  <2>1. PICK e : chain' = Append(chain, e) /\ (CommitUpdate => e.seal = drawn)
    BY <1>12 DEF CommitUpdate, AppendRollback
  <2>2. Len(chain') = Len(chain) + 1 /\ Len(chain) \in Nat /\ chain'[Len(chain) + 1] = e
    BY <1>1, <2>1 DEF TypeOK
  <2>3. chain' # <<>>
    BY <2>2
  <2>4. CASE CommitUpdate
    BY <1>1, <2>1, <2>2, <2>3, <2>4 DEF CommitUpdate, CandidateInv, CommitInv
  <2>5. CASE AppendRollback
    BY <2>3, <2>5 DEF AppendRollback, CandidateInv, CommitInv
  <2>6. QED
    BY <1>12, <2>4, <2>5
<1>13. ASSUME ActivationCommitted
       PROVE  CandidateInv' /\ CommitInv'
  BY <1>1, <1>13 DEF ActivationCommitted, CandidateInv, CommitInv
<1>14. CASE UNCHANGED vars
  BY <1>2, <1>14 DEF vars
<1>15. QED
  BY <1>3, <1>4, <1>5, <1>6, <1>7, <1>8, <1>9, <1>10, <1>11, <1>12, <1>13, <1>14
     DEF Next, Launcher, RecoveryStep, PhaseOne, PhaseTwo, Synchronize, Validate, CloseJournals,
         UpdateStep, Prologue, Choose, Activate, Epilogue

(* Lemma: whatever step is taken, the state names no activation the chain  *)
(* does not hold.                                                          *)
LEMMA StateStep == InstallInv /\ TypeOK' /\ [Next]_vars => StateInv'
<1> SUFFICES ASSUME InstallInv, TypeOK', [Next]_vars
             PROVE  StateInv'
  OBVIOUS
<1> USE DEF records, memory, trees, budget
<1>1. /\ state \in State /\ state.previous \in Nat /\ state.current \in Nat
      /\ state.previous <= state.current /\ state.current <= Len(chain)
      /\ Len(chain) \in Nat /\ (chain # <<>> => Len(chain) # 0)
  <2>1. state \in State /\ chain \in Seq(Activation) /\ StateInv
    BY DEF InstallInv, TypeOK
  <2>2. state.previous \in Nat /\ state.current \in Nat
    BY <2>1 DEF State
  <2>3. QED
    BY <2>1, <2>2 DEF StateInv
<1>2. ASSUME UNCHANGED chain,
             state'.previous <= state'.current /\ state'.current <= Len(chain)
      PROVE  StateInv'
  BY <1>2 DEF StateInv
<1>3. ASSUME UNCHANGED <<state, chain>>
      PROVE  StateInv'
  BY <1>1, <1>3 DEF StateInv
<1>4. ASSUME CommitUpdate \/ AppendRollback
      PROVE  StateInv'
  <2>1. PICK e : chain' = Append(chain, e) /\ state' = state
    BY <1>4 DEF CommitUpdate, AppendRollback
  <2>2. Len(chain') = Len(chain) + 1
    BY <2>1 DEF InstallInv, TypeOK
  <2>3. QED
    BY <1>1, <2>1, <2>2 DEF StateInv
<1>5. ASSUME QuarantineCorruptState \/ InitializeState \/ ReconstructState
      PROVE  StateInv'
  BY <1>1, <1>2, <1>5
     DEF QuarantineCorruptState, InitializeState, ReconstructState, WriteState, InitialState,
         ReconstructedState
<1>6. ASSUME RefreshState \/ AdvanceReceipts \/ RefreshMetadata \/ AdvanceState
      PROVE  StateInv'
  <2>1. state'.previous = state.previous /\ state'.current = state.current /\ chain' = chain
    BY <1>1, <1>6
       DEF RefreshState, AdvanceReceipts, RefreshMetadata, AdvanceState, WriteState,
           StateAfterRefresh, StateAfterAuthentication, State
  <2>2. QED
    BY <1>1, <2>1 DEF StateInv
<1>7. ASSUME SynchronizeState \/ RecordRollback \/ RecordActivation
      PROVE  StateInv'
  <2>1. PICK g \in 1 .. Len(chain) :
          /\ state.current <= g
          /\ state'.previous = state.current /\ state'.current = g
    <3>1. \A g \in Nat : \A e :
            /\ StateAfterActivation(state, g, e).previous = state.current
            /\ StateAfterActivation(state, g, e).current = g
            /\ StateAfterAutomaticRollback(state, g, e).previous = state.current
            /\ StateAfterAutomaticRollback(state, g, e).current = g
      BY <1>1 DEF StateAfterActivation, StateAfterAutomaticRollback, State
    <3>2. CASE SynchronizeState
      <4> DEFINE g == state.current + 1
      <4>1. g \in 1 .. Len(chain)
        BY <1>1, <3>2 DEF SynchronizeState
      <4>2. \/ state' = StateAfterActivation(state, g, chain[g])
            \/ state' = StateAfterAutomaticRollback(state, g, chain[g])
        BY <3>2 DEF SynchronizeState, StateAfter, WriteState
      <4>3. state.current <= g /\ g \in Nat
        BY <1>1
      <4> HIDE DEF g
      <4>4. QED
        BY <3>1, <4>1, <4>2, <4>3
    <3>3. CASE RecordRollback
      <4>1. Len(chain) \in 1 .. Len(chain)
        BY <1>1, <3>3 DEF RecordRollback, InstallInv, CommitInv
      <4>2. state' = StateAfterAutomaticRollback(state, Len(chain), chain[Len(chain)])
        BY <3>3 DEF RecordRollback, WriteState
      <4>3. QED
        BY <1>1, <3>1, <4>1, <4>2
    <3>4. CASE RecordActivation
      <4>1. Len(chain) \in 1 .. Len(chain)
        BY <1>1, <3>4 DEF RecordActivation, InstallInv, CommitInv
      <4>2. state' = StateAfterActivation(state, Len(chain), chain[Len(chain)])
        BY <3>4 DEF RecordActivation, WriteState
      <4>3. QED
        BY <1>1, <3>1, <4>1, <4>2
    <3>5. QED
      BY <1>7, <3>2, <3>3, <3>4
  <2>2. chain' = chain
    BY <1>7 DEF SynchronizeState, RecordRollback, RecordActivation
  <2>3. QED
    BY <1>1, <2>1, <2>2 DEF StateInv
<1>8. ASSUME PhaseOne \/ Materialize \/ CleanTemporaries \/ RefuseTemporaries \/ StateLoaded
             \/ StateSynchronized \/ ValidateCurrent \/ RefuseInstallation \/ CloseJournals
      PROVE  StateInv'
  BY <1>3, <1>8
     DEF PhaseOne, Plan, RefusePlan, Refuse, Materialize, CleanTemporaries, RefuseTemporaries,
         StateLoaded, StateSynchronized, ValidateCurrent, RefuseInstallation, CloseJournals,
         RemoveProvisionalSlot, CloseJournal, NoOpenJournal, PruneSlots
<1>9. ASSUME CreateTransactionPaths \/ Stop \/ CreateJournal \/ Transition
             \/ AuthenticateMetadata \/ Select \/ FindOrPersistReceipt \/ RefuseSelection
      PROVE  StateInv'
  BY <1>3, <1>9
     DEF CreateTransactionPaths, Stop, CreateJournal, Transition, AuthenticateMetadata, Select,
         FindOrPersistReceipt, RefuseSelection, Throw
<1>10. ASSUME ConfirmCurrent \/ PreparedRollback \/ PlacePending \/ PlaceSlot
              \/ ActivationCommitted \/ RefuseCandidate
       PROVE  StateInv'
  BY <1>3, <1>10
     DEF ConfirmCurrent, PreparedRollback, PlacePending, PlaceSlot, ActivationCommitted,
         RefuseCandidate, Throw
<1>11. ASSUME CleanupTransaction \/ PruneSuperseded \/ Finish \/ Unlink \/ Start
              \/ Fail \/ DamageSlot \/ LoseState \/ Crash
       PROVE  StateInv'
  BY <1>3, <1>11
     DEF CleanupTransaction, PruneSuperseded, Finish, Unlink, Start, Fail, Throw, DamageSlot,
         LoseState, Crash
<1>12. CASE UNCHANGED vars
  BY <1>3, <1>12 DEF vars
<1>13. QED
  BY <1>4, <1>5, <1>6, <1>7, <1>8, <1>9, <1>10, <1>11, <1>12
     DEF Next, Launcher, RecoveryStep, PhaseTwo, Synchronize, Validate,
         UpdateStep, Prologue, Choose, Activate, Epilogue

(* Lemma: whatever step is taken, a planned commit gap is one activation   *)
(* of the open journal's transaction.                                      *)
LEMMA GapStep == InstallInv /\ TypeOK' /\ [Next]_vars => GapInv'
<1> SUFFICES ASSUME InstallInv, TypeOK', [Next]_vars
             PROVE  GapInv'
  OBVIOUS
<1> USE DEF records, memory, trees, budget
<1>1. GapInv /\ (plan = "commit-gap" => pc = "materialize")
  BY DEF InstallInv, GapInv
<1>2. CASE Plan
  <2>1. SUFFICES ASSUME plan' = "commit-gap", NEW t \in OpenJournals
                 PROVE  /\ Related(journals[t]) # {}
                        /\ \A g \in Related(journals[t]) : chain[g].seal = t
    BY <1>2 DEF Plan, GapInv, Related, OpenJournals
  <2>2. OpenJournals = {t} /\ JournalAccepted(t, journals[t])
    BY <1>2, OneOpenJournal DEF Plan, Accepted, JournalsAccepted, OpenJournals
  <2>3. PlannedAction(t, journals[t]) = "commit-gap"
    BY <1>2, <2>1, <2>2 DEF Plan
  <2>4. journals[t].phase \in 0 .. Recover
    BY OwnGeneration DEF Journal
  <2>5. journals[t].phase = ValidateProvisionalSlot /\ Related(journals[t]) # {}
    BY <2>3, <2>4 DEF PlannedAction, ValidateProvisionalSlot, Recover, EmptyJournal
  <2>6. \E g \in DOMAIN chain : Related(journals[t]) = {g} /\ Matches(g, t, journals[t])
    BY <2>2, <2>5
       DEF JournalAccepted, ValidateProvisionalSlot, PrepareActivation, Recover, EmptyJournal
  <2>7. QED
    BY <2>5, <2>6 DEF Matches
<1>3. CASE Unlink \/ UNCHANGED vars
  BY <1>1, <1>3 DEF Unlink, vars, GapInv, Related, OpenJournals
<1>4. CASE Materialize
  BY <1>4 DEF Materialize, GapInv
<1>5. ASSUME RefusePlan \/ RefuseTemporaries \/ RefuseInstallation \/ CloseJournal \/ Crash
      PROVE  GapInv'
  BY <1>5 DEF RefusePlan, RefuseTemporaries, RefuseInstallation, Refuse, CloseJournal, Crash, GapInv
<1>6. ASSUME plan' = plan, pc # "materialize"
      PROVE  GapInv'
  BY <1>1, <1>6 DEF GapInv
<1>7. ASSUME CleanTemporaries \/ QuarantineCorruptState \/ ReconstructState \/ RefreshState
             \/ AdvanceReceipts \/ StateLoaded \/ Synchronize \/ ValidateCurrent
             \/ AppendRollback \/ RecordRollback
      PROVE  GapInv'
  BY <1>6, <1>7
     DEF CleanTemporaries, QuarantineCorruptState, ReconstructState, RefreshState, AdvanceReceipts,
         StateLoaded, Synchronize, SynchronizeState, StateSynchronized, ValidateCurrent,
         AppendRollback, RecordRollback
<1>8. ASSUME RemoveProvisionalSlot \/ NoOpenJournal \/ PruneSlots \/ Prologue \/ Transition
      PROVE  GapInv'
  BY <1>6, <1>8
     DEF RemoveProvisionalSlot, NoOpenJournal, PruneSlots, Prologue, InitializeState,
         CreateTransactionPaths, Stop, CreateJournal, Transition, Transitions
<1>9. ASSUME Choose \/ Activate
      PROVE  GapInv'
  BY <1>6, <1>9
     DEF Choose, AuthenticateMetadata, RefreshMetadata, Select, FindOrPersistReceipt, AdvanceState,
         RefuseSelection, Throw, Activate, ConfirmCurrent, PreparedRollback, PlacePending,
         PlaceSlot, CommitUpdate, ActivationCommitted, RefuseCandidate
<1>10. ASSUME Epilogue \/ Start \/ Fail \/ DamageSlot \/ LoseState
       PROVE  GapInv'
  BY <1>6, <1>10
     DEF Epilogue, RecordActivation, CleanupTransaction, PruneSuperseded, Finish, Start, Fail,
         UpdateSteps, Throw, DamageSlot, LoseState
<1>11. QED
  BY <1>2, <1>3, <1>4, <1>5, <1>7, <1>8, <1>9, <1>10
     DEF Next, Launcher, RecoveryStep, PhaseOne, PhaseTwo, Validate, CloseJournals, UpdateStep

-----------------------------------------------------------------------------
(* The strengthened invariant holds in every reachable state.              *)
THEOREM InstallInvariant == Spec => []InstallInv
<1>1. Init => InstallInv
  <2> SUFFICES ASSUME Init
               PROVE  InstallInv
    OBVIOUS
  <2>1. TypeOK
    <3>1. InitialState \in State
      BY StoreAssumption DEF InitialState, State
    <3>2. journals \in [DOMAIN journals -> Journal] /\ DOMAIN journals \subseteq 1 .. drawn
      BY DEF Init
    <3>3. chain \in Seq(Activation) /\ checkpoints \in Seq(Checkpoint)
      BY DEF Init
    <3>4. /\ harms \in [slot : 0 .. MaxDamage, state : 0 .. MaxStateLoss]
          /\ drawn \in 0 .. MaxTransactions /\ faults \in 0 .. MaxFaults
      BY StoreAssumption DEF Init
    <3>5. QED
      BY <3>1, <3>2, <3>3, <3>4 DEF Init, TypeOK, Steps
  <2>2. RunInv /\ CandidateInv /\ CommitInv /\ GapInv
    BY DEF Init, RunInv, CandidateInv, CommitInv, GapInv, UpdateSteps
  <2>3. StateInv /\ JournalsAgree
    BY DEF Init, StateInv, InitialState, JournalsAgree, OpenJournals
  <2>4. QED
    BY <2>1, <2>2, <2>3 DEF InstallInv
<1>2. InstallInv /\ [Next]_vars => InstallInv'
  BY TypeStep, RunStep, CommitStep, StateStep, GapStep DEF InstallInv
<1>3. QED
  BY <1>1, <1>2, PTL DEF Spec

(* Every store, tree and memory cell always holds what the code's parsers  *)
(* admit, whatever crashes, failures and damage happen.                    *)
THEOREM InstallTypeCorrect == Spec => []TypeOK
<1>1. InstallInv => TypeOK
  BY DEF InstallInv
<1>2. QED
  BY <1>1, InstallInvariant, PTL

(* No transaction ever begins over an interrupted one, and a journal names *)
(* no activation but the one its own transaction committed.                *)
THEOREM InstallJournalsAgree == Spec => []JournalsAgree
<1>1. InstallInv => JournalsAgree
  BY DEF InstallInv
<1>2. QED
  BY <1>1, InstallInvariant, PTL

-----------------------------------------------------------------------------
(* The stores that name one another (metadata checkpoints, receipts, the   *)
(* activation chain and the state that summarises them) stay in step       *)
(* through every crash, and together they implement ActivationLedger.  The *)
(* argument: what a run may append to a store depends on the state being   *)
(* up to date with that store, and pc says where it is.                    *)

Above(r, rels) == \A q \in rels : q.seq < r.seq

(* The steps of recovery after the state is loaded.                        *)
Loaded == {"sync", "validate", "rolledback"}
Settled == {"remove", "close", "prune", "ready"}

(* The steps of an update in which a selected candidate is not yet active. *)
Chosen == {"receipt", "advance", "current", "leave", "download", "verify", "stage", "compat",
           "prior", "prepare", "place", "move", "placed", "health", "commit"}

(* A spoiled state is met by the next recovery, and replaced.              *)
ReadInv ==
  /\ stateFile = "corrupt" =>
       \/ pc \in {"idle", "plan"}
       \/ pc \in {"materialize", "clean", "load"} /\ loadError
  /\ pc \in UpdateSteps \union Loaded => stateFile = "readable"

(* The state against the checkpoints.                                      *)
CheckpointLag ==
  stateFile = "readable" =>
    /\ state.checkpoint <= Len(checkpoints) /\ Len(checkpoints) <= state.checkpoint + 1
    /\ pc \in Loaded \union Settled \union (UpdateSteps \ {"refresh"})
         => state.checkpoint = Len(checkpoints)

(* The state against the receipts: what it misses is one, the newest.      *)
ReceiptLag ==
  stateFile = "readable" =>
    /\ state.known \subseteq receipts
    /\ \E r \in Releases \union {NoRelease} : receipts \ state.known \subseteq {r}
    /\ \A r \in receipts \ state.known : Above(r, state.known)
    /\ pc \in Loaded \union Settled \union (UpdateSteps \ {"advance"}) => receipts = state.known
    /\ pc = "advance" => receipts \subseteq state.known \union {cand}

(* The activation floor after the first n activations.                     *)
Floor(c, n) == Highest({c[g].rel.seq : g \in 1 .. n})

(* The state against the activation chain.                                 *)
ActivationLag ==
  stateFile = "readable" =>
    /\ state.current <= Len(chain) /\ Len(chain) <= state.current + 1
    /\ state.previous = IF state.current = 0 THEN 0 ELSE state.current - 1
    /\ state.maxActivated = Floor(chain, state.current)
    /\ pc \in Settled \union {"validate"} \union (UpdateSteps \ {"committed", "record"})
         => state.current = Len(chain)
    /\ pc \in {"rolledback", "committed", "record"} => Len(chain) = state.current + 1

(* A candidate once selected is not revoked and above all other receipts.  *)
ChosenInv ==
  /\ pc \in Chosen => cand \notin Revoked(Len(checkpoints)) /\ Above(cand, receipts \ {cand})
  /\ pc \in Chosen \ {"receipt"} => cand \in receipts

(* What was activated was authenticated.                                   *)
ActivatedInv == Activated \subseteq receipts

LedgerInv ==
  /\ ReadInv
  /\ CheckpointLag
  /\ ReceiptLag
  /\ ActivationLag
  /\ ChosenInv
  /\ ActivatedInv

-----------------------------------------------------------------------------
(* Lemmas about floors.                                                    *)

(* Lemma: Highest is determined by what it promises.                       *)
LEMMA HighestUnique ==
  ASSUME NEW S \in SUBSET Nat, IsFiniteSet(S), NEW n \in S \union {0}, \A m \in S : m <= n
  PROVE  Highest(S) = n
<1>1. Highest(S) \in Nat /\ Highest(S) \in S \union {0} /\ \A m \in S : m <= Highest(S)
  BY HighestProperties
<1>2. n \in Nat
  OBVIOUS
<1>3. n <= Highest(S) /\ Highest(S) <= n
  BY <1>1, <1>2
<1>4. QED
  BY <1>1, <1>2, <1>3

(* Lemma: the sequences of a chain's first activations are a finite set.   *)
LEMMA PrefixFinite ==
  ASSUME NEW c \in Seq(Activation), NEW n \in 0 .. Len(c)
  PROVE  /\ {c[g].rel.seq : g \in 1 .. n} \in SUBSET Nat
         /\ IsFiniteSet({c[g].rel.seq : g \in 1 .. n})
<1> DEFINE R == {c[g].rel : g \in 1 .. n}
<1>1. \A g \in 1 .. n : c[g] \in Activation
  OBVIOUS
<1>2. R \in SUBSET Releases
  BY <1>1 DEF Activation
<1>3. {c[g].rel.seq : g \in 1 .. n} = Seqs(R)
  BY DEF Seqs
<1>4. QED
  BY <1>2, <1>3, SeqsFinite

(* Lemma: an activation above the floor raises it to its own sequence, one *)
(* that is not leaves it.                                                  *)
LEMMA FloorStep ==
  ASSUME NEW c \in Seq(Activation), NEW n \in Nat, n + 1 <= Len(c)
  PROVE  /\ c[n + 1].rel.seq > Floor(c, n) => Floor(c, n + 1) = c[n + 1].rel.seq
         /\ c[n + 1].rel.seq <= Floor(c, n) => Floor(c, n + 1) = Floor(c, n)
<1> DEFINE S(k) == {c[g].rel.seq : g \in 1 .. k}
           x == c[n + 1].rel.seq
<1>1. n \in 0 .. Len(c) /\ n + 1 \in 0 .. Len(c)
  OBVIOUS
<1>2. S(n) \in SUBSET Nat /\ IsFiniteSet(S(n)) /\ S(n + 1) \in SUBSET Nat /\ IsFiniteSet(S(n + 1))
  BY <1>1, PrefixFinite
<1>3. S(n + 1) = S(n) \union {x}
  <2>1. 1 .. n + 1 = (1 .. n) \union {n + 1}
    OBVIOUS
  <2>2. QED
    BY <2>1
<1>4. Floor(c, n) \in Nat /\ Floor(c, n) \in S(n) \union {0} /\ \A m \in S(n) : m <= Floor(c, n)
  BY <1>2, HighestProperties DEF Floor
<1>5. Floor(c, n + 1) = Highest(S(n + 1))
  BY DEF Floor
<1> HIDE DEF S, x
<1>6. x \in Nat
  BY <1>2, <1>3
<1>7. ASSUME x > Floor(c, n)
      PROVE  Floor(c, n + 1) = x
  <2>1. x \in S(n + 1) \union {0} /\ \A m \in S(n + 1) : m <= x
    <3>1. \A m \in S(n) : m <= x
      BY <1>2, <1>4, <1>6, <1>7
    <3>2. QED
      BY <1>3, <1>6, <3>1
  <2>2. QED
    BY <1>2, <1>5, <2>1, HighestUnique
<1>8. ASSUME x <= Floor(c, n)
      PROVE  Floor(c, n + 1) = Floor(c, n)
  <2>1. Floor(c, n) \in S(n + 1) \union {0} /\ \A m \in S(n + 1) : m <= Floor(c, n)
    BY <1>3, <1>4, <1>8
  <2>2. QED
    BY <1>2, <1>5, <2>1, HighestUnique
<1>9. QED
  BY <1>7, <1>8 DEF x

(* Lemma: appending an activation leaves the floors of the chain before it, *)
(* and the floor of a whole chain is the one the code computes.            *)
LEMMA FloorOfAppended ==
  ASSUME NEW c \in Seq(Activation), NEW e \in Activation, NEW n \in 0 .. Len(c)
  PROVE  Floor(Append(c, e), n) = Floor(c, n)
<1>1. \A g \in 1 .. n : Append(c, e)[g] = c[g]
  OBVIOUS
<1>2. {Append(c, e)[g].rel.seq : g \in 1 .. n} = {c[g].rel.seq : g \in 1 .. n}
  BY <1>1
<1>3. QED
  BY <1>2 DEF Floor

(* Lemma: the floor of a whole chain, and of none of it.                   *)
LEMMA FloorOfChain ==
  ASSUME NEW c \in Seq(Activation)
  PROVE  Floor(c, Len(c)) = MaxActivatedIn(c) /\ Floor(c, 0) = 0
<1>1. DOMAIN c = 1 .. Len(c)
  OBVIOUS
<1>2. Floor(c, Len(c)) = MaxActivatedIn(c)
  BY <1>1 DEF Floor, MaxActivatedIn
<1>3. {c[g].rel.seq : g \in 1 .. 0} = {}
  OBVIOUS
<1>4. Highest({}) = 0
  BY HighestUnique, FS_EmptySet
<1>5. QED
  BY <1>2, <1>3, <1>4 DEF Floor

-----------------------------------------------------------------------------
(* Most steps write none of these stores: they only move the run on.       *)

Move ==
  \/ UNCHANGED <<pc, cand, loadError>>
  \/ pc' = "idle"
  \/ Start \/ Plan \/ StateLoaded \/ StateSynchronized \/ CreateTransactionPaths \/ Select
  \/ pc \in {"materialize", "clean"} /\ pc' \in {"clean", "load"} /\ loadError' = loadError
  \/ pc \in Settled \union {"validate"} /\ pc' \in Settled
  \/ pc = "open" /\ pc' = "check"
  \/ pc \in {"check", "fetch", "authenticate"} /\ pc' \in {"fetch", "checkpoint", "select"}
  \/ pc \in Chosen \ {"receipt", "advance"} /\ pc' \in Chosen \ {"receipt", "advance"} /\ cand' = cand
  \/ pc = "committed" /\ pc' = "record"
  \/ pc \in {"sweep", "supersede", "cleanup"} /\ pc' \in {"supersede", "cleanup", "recover"}

Quiet == Move /\ UNCHANGED <<chain, checkpoints, receipts, state, stateFile>>

(* Those that do.                                                          *)
StateWrites ==
  \/ QuarantineCorruptState \/ ReconstructState \/ InitializeState \/ LoseState
  \/ RefreshState \/ RefreshMetadata
  \/ AdvanceReceipts \/ AdvanceState
  \/ SynchronizeState \/ RecordRollback \/ RecordActivation

StoreWrites == AuthenticateMetadata \/ FindOrPersistReceipt \/ AppendRollback \/ CommitUpdate

(* Lemma: there are no other steps.                                        *)
LEMMA StepKinds == [Next]_vars => Quiet \/ StateWrites \/ StoreWrites
<1> SUFFICES ASSUME [Next]_vars, ~StateWrites, ~StoreWrites
             PROVE  Quiet
  OBVIOUS
<1> USE DEF records, memory, trees, budget, Quiet, Move
<1>1. ASSUME Unlink \/ DamageSlot \/ UNCHANGED vars
      PROVE  Quiet
  BY <1>1 DEF Unlink, DamageSlot, vars
<1>2. ASSUME RefusePlan \/ RefuseTemporaries \/ RefuseInstallation \/ RefuseSelection
             \/ RefuseCandidate \/ Fail \/ Crash \/ Stop \/ Finish
      PROVE  Quiet
  BY <1>2 DEF RefusePlan, RefuseTemporaries, RefuseInstallation, RefuseSelection, RefuseCandidate,
              Fail, Crash, Stop, Finish, Refuse, Throw
<1>3. ASSUME Start \/ Plan \/ StateLoaded \/ StateSynchronized \/ CreateTransactionPaths \/ Select
      PROVE  Quiet
  BY <1>3 DEF Start, Plan, StateLoaded, StateSynchronized, CreateTransactionPaths, Select
<1>4. ASSUME Materialize \/ CleanTemporaries
      PROVE  Quiet
  BY <1>4 DEF Materialize, CleanTemporaries
<1>5. ASSUME ValidateCurrent \/ CloseJournals
      PROVE  Quiet
  BY <1>5 DEF ValidateCurrent, CloseJournals, RemoveProvisionalSlot, CloseJournal, NoOpenJournal,
              PruneSlots, Settled
<1>6. ASSUME CreateJournal \/ ActivationCommitted \/ CleanupTransaction \/ PruneSuperseded
      PROVE  Quiet
  BY <1>6 DEF CreateJournal, ActivationCommitted, CleanupTransaction, PruneSuperseded
<1>7. ASSUME Transition
      PROVE  Quiet
  <2>1. /\ pc \in DOMAIN Transitions /\ pc' = Transitions[pc].next
        /\ UNCHANGED <<chain, checkpoints, receipts, state, stateFile, cand>>
    BY <1>7 DEF Transition
  <2>2. Move
    BY <2>1 DEF Transitions, Chosen
  <2>3. QED
    BY <2>1, <2>2
<1>8. ASSUME ConfirmCurrent \/ PreparedRollback \/ PlacePending \/ PlaceSlot
      PROVE  Quiet
  BY <1>8 DEF ConfirmCurrent, PreparedRollback, PlacePending, PlaceSlot, Chosen
<1>9. QED
  BY <1>1, <1>2, <1>3, <1>4, <1>5, <1>6, <1>7, <1>8
     DEF Next, Launcher, RecoveryStep, PhaseOne, PhaseTwo, Synchronize, Validate, CloseJournals,
         UpdateStep, Prologue, Choose, Activate, Epilogue, StateWrites, StoreWrites

(* Lemma: what a writer of the state changes in it.                        *)
LEMMA StateFields ==
  ASSUME NEW s \in State
  PROVE  /\ \A r \in Releases :
              /\ StateAfterAuthentication(s, r).known = s.known \union {r}
              /\ StateAfterAuthentication(s, r).checkpoint = s.checkpoint
              /\ StateAfterAuthentication(s, r).maxActivated = s.maxActivated
              /\ StateAfterAuthentication(s, r).current = s.current
              /\ StateAfterAuthentication(s, r).previous = s.previous
         /\ StateAfterRefresh(s).checkpoint = Len(checkpoints)
         /\ StateAfterRefresh(s).known = s.known
         /\ StateAfterRefresh(s).maxActivated = s.maxActivated
         /\ StateAfterRefresh(s).current = s.current
         /\ StateAfterRefresh(s).previous = s.previous
         /\ \A g \in Nat, e \in Activation :
              /\ StateAfterActivation(s, g, e).maxActivated = e.rel.seq
              /\ StateAfterAutomaticRollback(s, g, e).maxActivated = s.maxActivated
              /\ \A t \in {StateAfterActivation(s, g, e), StateAfterAutomaticRollback(s, g, e)} :
                   /\ t.checkpoint = s.checkpoint /\ t.known = s.known
                   /\ t.current = g /\ t.previous = s.current
  BY DEF State, StateAfterAuthentication, StateAfterRefresh, StateAfterActivation,
         StateAfterAutomaticRollback

(* Lemma: the stores and the state are typed, in the form the next lemmas  *)
(* use.                                                                    *)
LEMMA LedgerTypes ==
  ASSUME InstallInv
  PROVE  /\ chain \in Seq(Activation) /\ Len(chain) \in Nat /\ DOMAIN chain = 1 .. Len(chain)
         /\ \A g \in 1 .. Len(chain) : chain[g] \in Activation /\ chain[g].rel \in Releases
         /\ \A r \in Releases : r.seq \in Nat /\ r.seq # 0
         /\ checkpoints \in Seq(Checkpoint) /\ Len(checkpoints) \in Nat
         /\ receipts \in SUBSET Releases
         /\ state \in State /\ state.checkpoint \in Nat /\ state.current \in Nat
         /\ state.known \in SUBSET Releases /\ state.maxActivated \in Nat
<1>1. /\ chain \in Seq(Activation) /\ checkpoints \in Seq(Checkpoint)
      /\ receipts \in SUBSET Releases /\ state \in State
  BY DEF InstallInv, TypeOK
<1>2. Len(chain) \in Nat /\ DOMAIN chain = 1 .. Len(chain) /\ Len(checkpoints) \in Nat
  BY <1>1
<1>3. \A g \in 1 .. Len(chain) : chain[g] \in Activation
  BY <1>1
<1>4. \A e \in Activation : e.rel \in Releases
  BY DEF Activation
<1>5. \A r \in Releases : r.seq \in Nat /\ r.seq # 0
  BY StoreAssumption
<1>6. /\ state.checkpoint \in Nat /\ state.current \in Nat /\ state.maxActivated \in Nat
      /\ state.known \in SUBSET Releases
  BY <1>1 DEF State
<1>7. QED
  BY <1>1, <1>2, <1>3, <1>4, <1>5, <1>6

(* Lemma: what selection accepts is above every other known release.       *)
LEMMA SelectedIsTop ==
  ASSUME InstallInv, Selectable, cand \in Releases
  PROVE  /\ cand \notin Revoked(Len(checkpoints))
         /\ Above(cand, state.known \ {cand})
<1> DEFINE S == {MaxAuthenticated(state), state.maxActivated}
<1>1. \A k \in state.known : k.seq <= MaxAuthenticated(state) /\ k.seq \in Nat
  <2>1. Seqs(state.known) \in SUBSET Nat /\ IsFiniteSet(Seqs(state.known))
    BY LedgerTypes, SeqsFinite
  <2>2. \A m \in Seqs(state.known) : m <= MaxAuthenticated(state)
    BY <2>1, HighestProperties DEF MaxAuthenticated
  <2>3. QED
    BY <2>1, <2>2 DEF Seqs
<1>2. MaxAuthenticated(state) \in Nat
  BY LedgerTypes, SeqsFinite, HighestProperties DEF MaxAuthenticated
<1>3. MaxAuthenticated(state) <= SequenceFloor /\ SequenceFloor \in Nat
  <2>1. S \in SUBSET Nat /\ IsFiniteSet(S)
    <3>1. IsFiniteSet({MaxAuthenticated(state)})
      BY FS_Singleton
    <3>2. IsFiniteSet({MaxAuthenticated(state)} \union {state.maxActivated})
      BY <3>1, FS_AddElement
    <3>3. S = {MaxAuthenticated(state)} \union {state.maxActivated}
      OBVIOUS
    <3>4. QED
      BY <1>2, <3>2, <3>3, LedgerTypes
  <2>2. QED
    BY <2>1, HighestProperties DEF SequenceFloor
<1>4. cand.seq \in Nat /\ SequenceFloor <= cand.seq
  BY LedgerTypes DEF Selectable
<1>5. QED
  BY <1>1, <1>2, <1>3, <1>4 DEF Selectable, Above

(* Lemma: a quiet step keeps the stores in step.                           *)
LEMMA QuietKeeps == InstallInv /\ LedgerInv /\ Quiet => LedgerInv'
<1> SUFFICES ASSUME InstallInv, LedgerInv, Quiet
             PROVE  LedgerInv'
  OBVIOUS
<1> USE LedgerTypes DEF Loaded, Settled, UpdateSteps, Chosen
<1>1. UNCHANGED <<chain, checkpoints, receipts, state, stateFile>> /\ Move
  BY DEF Quiet
<1>2. ReadInv /\ CheckpointLag /\ ReceiptLag /\ ActivationLag /\ ChosenInv /\ ActivatedInv
  BY DEF LedgerInv
<1>3. ReadInv'
  BY <1>1, <1>2
     DEF Move, ReadInv, Start, Plan, StateUnreadable, StateLoaded, StateSynchronized,
         CreateTransactionPaths, Select
<1>4. CheckpointLag'
  BY <1>1, <1>2
     DEF Move, CheckpointLag, Start, Plan, StateLoaded, StateSynchronized, CreateTransactionPaths,
         Select
<1>5. ReceiptLag'
  BY <1>1, <1>2
     DEF Move, ReceiptLag, Start, Plan, StateLoaded, StateSynchronized, CreateTransactionPaths,
         Select
<1>6. ActivationLag'
  BY <1>1, <1>2
     DEF Move, ActivationLag, Start, Plan, StateLoaded, StateSynchronized, Synchronized,
         CreateTransactionPaths, Select
<1>7. ChosenInv'
  <2>1. CASE Select
    <3>1. cand \in Releases /\ receipts = state.known /\ Selectable
      BY <1>2, <2>1 DEF Select, InstallInv, CandidateInv, ReadInv, ReceiptLag
    <3>2. pc' = "receipt" /\ cand' = cand
      BY <2>1 DEF Select, memory
    <3>3. cand \notin Revoked(Len(checkpoints)) /\ Above(cand, receipts \ {cand})
      BY <3>1, SelectedIsTop
    <3>4. QED
      BY <1>1, <3>2, <3>3 DEF ChosenInv, Above, Revoked
  <2>2. CASE ~Select
    BY <1>1, <1>2, <2>2
       DEF Move, ChosenInv, Above, Revoked, Start, Plan, StateLoaded, StateSynchronized,
           CreateTransactionPaths
  <2>3. QED
    BY <2>1, <2>2
<1>8. ActivatedInv'
  BY <1>1, <1>2 DEF ActivatedInv, Activated
<1>9. QED
  BY <1>3, <1>4, <1>5, <1>6, <1>7, <1>8 DEF LedgerInv

-----------------------------------------------------------------------------
(* The writers of the state.                                               *)

(* Lemma: a step that writes no other store keeps what does not mention    *)
(* the state, if it stays in recovery or among the chosen.                 *)
LEMMA StateWriteKeeps ==
  ASSUME InstallInv, LedgerInv, StateWrites
  PROVE  ChosenInv' /\ ActivatedInv' /\ UNCHANGED <<chain, checkpoints, receipts>>
<1> USE DEF memory, Chosen, WriteState
<1>1. ChosenInv /\ ActivatedInv
  BY DEF LedgerInv
<1>2. UNCHANGED <<chain, checkpoints, receipts>>
  BY DEF StateWrites, QuarantineCorruptState, ReconstructState, InitializeState, LoseState,
         RefreshState, RefreshMetadata, AdvanceReceipts, AdvanceState, SynchronizeState,
         RecordRollback, RecordActivation
<1>3. /\ cand' = cand
      /\ pc' \in Chosen => pc \in Chosen /\ (pc = "receipt" => pc' = "receipt") /\ pc' # "receipt"
  <2>1. CASE QuarantineCorruptState \/ ReconstructState \/ InitializeState \/ LoseState
             \/ RefreshState \/ RefreshMetadata
    BY <2>1 DEF QuarantineCorruptState, ReconstructState, InitializeState, LoseState, RefreshState,
                RefreshMetadata
  <2>2. CASE AdvanceReceipts \/ AdvanceState \/ SynchronizeState \/ RecordRollback \/ RecordActivation
    BY <2>2 DEF AdvanceReceipts, AdvanceState, SynchronizeState, RecordRollback, RecordActivation
  <2>3. QED
    BY <2>1, <2>2 DEF StateWrites
<1>4. ChosenInv'
  BY <1>1, <1>2, <1>3 DEF ChosenInv, Above, Revoked
<1>5. ActivatedInv'
  BY <1>1, <1>2 DEF ActivatedInv, Activated
<1>6. QED
  BY <1>2, <1>4, <1>5

(* Lemma: replacing the state, or losing it, keeps the stores in step.     *)
LEMMA ReplacementKeeps ==
  ASSUME InstallInv, LedgerInv,
         QuarantineCorruptState \/ ReconstructState \/ InitializeState \/ LoseState
  PROVE  ReadInv' /\ CheckpointLag' /\ ReceiptLag' /\ ActivationLag'
<1> USE LedgerTypes DEF Loaded, Settled, UpdateSteps, WriteState, memory
<1>1. ReadInv
  BY DEF LedgerInv
<1>2. ASSUME QuarantineCorruptState \/ LoseState
      PROVE  ReadInv' /\ CheckpointLag' /\ ReceiptLag' /\ ActivationLag'
  BY <1>1, <1>2
     DEF QuarantineCorruptState, LoseState, ReadInv, CheckpointLag, ReceiptLag, ActivationLag
<1>3. ASSUME ReconstructState
      PROVE  ReadInv' /\ CheckpointLag' /\ ReceiptLag' /\ ActivationLag'
  <2>1. /\ pc' = "sync" /\ stateFile' = "readable"
        /\ UNCHANGED <<chain, checkpoints, receipts>>
        /\ state' = ReconstructedState
    BY <1>3 DEF ReconstructState
  <2>2. /\ state'.checkpoint = Len(checkpoints) /\ state'.known = receipts
        /\ state'.current = Len(chain)
        /\ state'.previous = (IF Len(chain) = 0 THEN 0 ELSE Len(chain) - 1)
        /\ state'.maxActivated = MaxActivatedIn(chain)
    BY <2>1 DEF ReconstructedState
  <2>3. state'.maxActivated = Floor(chain, Len(chain))
    BY <2>2, FloorOfChain
  <2>4. ReadInv' /\ CheckpointLag' /\ ReceiptLag'
    BY <2>1, <2>2 DEF ReadInv, CheckpointLag, ReceiptLag
  <2>5. ActivationLag'
    BY <2>1, <2>2, <2>3 DEF ActivationLag, Floor
  <2>6. QED
    BY <2>4, <2>5
<1>4. ASSUME InitializeState
      PROVE  ReadInv' /\ CheckpointLag' /\ ReceiptLag' /\ ActivationLag'
  <2>1. /\ pc = "ready" /\ pc' = "ready" /\ stateFile' = "readable"
        /\ chain = <<>> /\ checkpoints = <<>> /\ receipts = {}
        /\ UNCHANGED <<chain, checkpoints, receipts>>
        /\ state' = InitialState
    BY <1>4 DEF InitializeState, PristineLayout
  <2>2. Floor(chain, 0) = 0 /\ Len(chain) = 0 /\ Len(checkpoints) = 0
    BY <2>1, FloorOfChain
  <2>3. ReadInv' /\ CheckpointLag' /\ ReceiptLag'
    BY <2>1, <2>2 DEF ReadInv, CheckpointLag, ReceiptLag, InitialState
  <2>4. ActivationLag'
    BY <2>1, <2>2 DEF ActivationLag, Floor, InitialState
  <2>5. QED
    BY <2>3, <2>4
<1>5. QED
  BY <1>2, <1>3, <1>4

(* Lemma: bringing the state up to the checkpoints or the receipts keeps   *)
(* the stores in step.                                                     *)
LEMMA CatchingUpKeeps ==
  ASSUME InstallInv, LedgerInv, RefreshState \/ RefreshMetadata \/ AdvanceReceipts \/ AdvanceState
  PROVE  ReadInv' /\ CheckpointLag' /\ ReceiptLag' /\ ActivationLag'
<1> USE LedgerTypes, StateFields DEF Loaded, Settled, UpdateSteps, memory
<1>1. ReadInv /\ CheckpointLag /\ ReceiptLag /\ ActivationLag /\ ChosenInv
  BY DEF LedgerInv
<1>2. UNCHANGED <<chain, checkpoints, receipts, cand, loadError>>
  BY DEF RefreshState, RefreshMetadata, AdvanceReceipts, AdvanceState
<1>3. ASSUME RefreshState \/ RefreshMetadata
      PROVE  ReadInv' /\ CheckpointLag' /\ ReceiptLag' /\ ActivationLag'
  <2>1. /\ state' = StateAfterRefresh(state) /\ stateFile = "readable" /\ stateFile' = "readable"
        /\ \/ pc = "load" /\ pc' = "load"
           \/ pc = "refresh" /\ pc' = "authenticate"
    BY <1>1, <1>3 DEF RefreshState, RefreshMetadata, WriteState, ReadInv
  <2>2. ReadInv' /\ CheckpointLag'
    BY <1>2, <2>1 DEF ReadInv, CheckpointLag
  <2>3. ReceiptLag'
    BY <1>1, <1>2, <2>1 DEF ReceiptLag, Above
  <2>4. ActivationLag'
    BY <1>1, <1>2, <2>1 DEF ActivationLag
  <2>5. QED
    BY <2>2, <2>3, <2>4
<1>4. ASSUME AdvanceReceipts
      PROVE  ReadInv' /\ CheckpointLag' /\ ReceiptLag' /\ ActivationLag'
  <2>1. PICK r \in receipts \ state.known : state' = StateAfterAuthentication(state, r)
    BY <1>4 DEF AdvanceReceipts, WriteState
  <2>2. stateFile = "readable" /\ stateFile' = "readable" /\ pc = "load" /\ pc' = "load"
    BY <1>4 DEF AdvanceReceipts, WriteState
  <2>3. ReadInv' /\ CheckpointLag' /\ ActivationLag'
    BY <1>1, <1>2, <2>1, <2>2 DEF ReadInv, CheckpointLag, ActivationLag
  <2>4. state'.known = receipts
    <3>1. state'.known = state.known \union {r}
      BY <2>1
    <3>2. receipts \ state.known = {r} /\ state.known \subseteq receipts
      BY <1>1, <2>1, <2>2 DEF ReceiptLag
    <3>3. QED
      BY <3>1, <3>2
  <2>5. ReceiptLag'
    BY <1>2, <2>2, <2>4 DEF ReceiptLag
  <2>6. QED
    BY <2>3, <2>5
<1>5. ASSUME AdvanceState
      PROVE  ReadInv' /\ CheckpointLag' /\ ReceiptLag' /\ ActivationLag'
  <2>1. /\ pc = "advance" /\ pc' \in {"current", "download"}
        /\ stateFile = "readable" /\ stateFile' = "readable"
        /\ cand \in receipts /\ Above(cand, receipts \ {cand})
        /\ receipts \subseteq state.known \union {cand} /\ state.known \subseteq receipts
    BY <1>1, <1>5
       DEF AdvanceState, WriteState, ReadInv, ReceiptLag, ChosenInv, Chosen
  <2>2. /\ state'.known = receipts
        /\ state'.checkpoint = state.checkpoint
        /\ state'.current = state.current
        /\ state'.previous = state.previous
        /\ state'.maxActivated = state.maxActivated
    <3>1. CASE cand.seq > MaxAuthenticated(state)
      <4>1. state' = StateAfterAuthentication(state, cand) /\ cand \in Releases
        BY <1>5, <2>1, <3>1 DEF AdvanceState, WriteState
      <4>2. receipts = state.known \union {cand}
        BY <2>1
      <4>3. QED
        BY <4>1, <4>2
    <3>2. CASE ~(cand.seq > MaxAuthenticated(state))
      <4>1. state' = state
        BY <1>5, <3>2 DEF AdvanceState
      <4>2. cand \in state.known
        <5>1. SUFFICES ASSUME cand \notin state.known
                       PROVE  FALSE
          OBVIOUS
        <5>2. Seqs(state.known) \in SUBSET Nat /\ IsFiniteSet(Seqs(state.known))
          BY SeqsFinite
        <5>3. MaxAuthenticated(state) \in Seqs(state.known) \union {0}
          <6>1. Highest(Seqs(state.known)) \in Seqs(state.known) \union {0}
            BY ONLY <5>2, HighestProperties
          <6>2. QED
            BY ONLY <6>1 DEF MaxAuthenticated
        <5>4. \A n \in Seqs(state.known) \union {0} : n \in Nat /\ n < cand.seq
          <6>1. \A k \in state.known : k \in receipts \ {cand} /\ k.seq \in Nat
            BY <2>1, <5>1
          <6>2. \A k \in state.known : k.seq \in Nat /\ k.seq < cand.seq
            BY <2>1, <6>1 DEF Above
          <6>3. cand.seq \in Nat /\ 0 < cand.seq
            BY <2>1
          <6>4. QED
            BY ONLY <6>2, <6>3 DEF Seqs
        <5>5. QED
          BY <2>1, <3>2, <5>3, <5>4
      <4>3. QED
        BY <2>1, <4>1, <4>2
    <3>3. QED
      BY <3>1, <3>2
  <2>3. ReadInv' /\ CheckpointLag' /\ ActivationLag'
    BY <1>1, <1>2, <2>1, <2>2 DEF ReadInv, CheckpointLag, ActivationLag
  <2>4. ReceiptLag'
    BY <1>2, <2>1, <2>2 DEF ReceiptLag
  <2>5. QED
    BY <2>3, <2>4
<1>6. QED
  BY <1>3, <1>4, <1>5

(* Lemma: recording the next activation keeps the stores in step: the      *)
(* state's floor is that of the activations it has recorded.               *)
LEMMA RecordingKeeps ==
  ASSUME InstallInv, LedgerInv, SynchronizeState \/ RecordRollback \/ RecordActivation
  PROVE  ReadInv' /\ CheckpointLag' /\ ReceiptLag' /\ ActivationLag'
<1> USE LedgerTypes, StateFields DEF Loaded, Settled, UpdateSteps, memory
<1>1. ReadInv /\ CheckpointLag /\ ReceiptLag /\ ActivationLag
  BY DEF LedgerInv
<1>2. UNCHANGED <<chain, checkpoints, receipts, cand, loadError>>
  BY DEF SynchronizeState, RecordRollback, RecordActivation
<1>3. /\ stateFile = "readable" /\ stateFile' = "readable"
      /\ \/ pc = "sync" /\ pc' = "sync"
         \/ pc = "rolledback" /\ pc' = "remove"
         \/ pc = "record" /\ pc' = "sweep"
  BY <1>1 DEF SynchronizeState, RecordRollback, RecordActivation, WriteState, ReadInv
<1> DEFINE g == state.current + 1
           e == chain[g]
<1>4. g = Len(chain) /\ g \in Nat /\ e \in Activation
  BY <1>1, <1>3 DEF ActivationLag, SynchronizeState, RecordRollback, RecordActivation
<1>5. \/ state' = StateAfterActivation(state, g, e) /\ e.rel.seq > state.maxActivated
      \/ state' = StateAfterAutomaticRollback(state, g, e) /\ e.rel.seq <= state.maxActivated
  <2>1. CASE SynchronizeState
    <3>1. MayRecord(state, g) /\ state' = StateAfter(state, g)
      BY <2>1 DEF SynchronizeState, WriteState
    <3>2. QED
      BY <3>1, Zenon DEF StateAfter, MayRecord, MayRecordActivation, MayRecordRollback
  <2>2. CASE RecordRollback
    <3>1. MayRecordRollback(state, g, e) /\ state' = StateAfterAutomaticRollback(state, g, e)
      BY <1>4, <2>2 DEF RecordRollback, WriteState
    <3>2. QED
      BY <3>1 DEF MayRecordRollback
  <2>3. CASE RecordActivation
    <3>1. MayRecordActivation(state, e) /\ state' = StateAfterActivation(state, g, e)
      BY <1>4, <2>3 DEF RecordActivation, WriteState
    <3>2. QED
      BY <3>1 DEF MayRecordActivation
  <2>4. QED
    BY <2>1, <2>2, <2>3
<1>6. state.maxActivated = Floor(chain, state.current)
  BY <1>1, <1>3 DEF ActivationLag
<1>7. state'.maxActivated = Floor(chain, g)
  <2>1. state.maxActivated \in Nat /\ state.current \in Nat /\ chain \in Seq(Activation)
    OBVIOUS
  <2>2. /\ e.rel.seq > Floor(chain, state.current) => Floor(chain, g) = e.rel.seq
        /\ e.rel.seq <= Floor(chain, state.current) => Floor(chain, g) = Floor(chain, state.current)
    BY ONLY <1>4, <2>1, FloorStep
  <2>3. \/ state'.maxActivated = e.rel.seq /\ e.rel.seq > state.maxActivated
        \/ state'.maxActivated = state.maxActivated /\ e.rel.seq <= state.maxActivated
    BY <1>4, <1>5
  <2>4. QED
    BY ONLY <1>6, <2>2, <2>3
<1>8. state'.checkpoint = state.checkpoint /\ state'.known = state.known
      /\ state'.current = g /\ state'.previous = state.current
  BY <1>4, <1>5
<1> HIDE DEF e
<1>9. ReadInv' /\ CheckpointLag'
  BY <1>1, <1>2, <1>3, <1>8 DEF ReadInv, CheckpointLag
<1>10. ReceiptLag'
  BY <1>1, <1>2, <1>3, <1>8 DEF ReceiptLag, Above
<1>11. ActivationLag'
  BY <1>2, <1>3, <1>4, <1>7, <1>8 DEF ActivationLag
<1>12. QED
  BY <1>9, <1>10, <1>11

-----------------------------------------------------------------------------
(* The writers of the other stores.  They are the steps of the ledger.     *)

History(c) == [g \in DOMAIN c |-> c[g].rel]

(* Lemma: the releases of a chain are a sequence, which grows with it.     *)
LEMMA HistoryAppended ==
  ASSUME NEW c \in Seq(Activation), NEW e \in Activation
  PROVE  /\ History(c) \in Seq(Releases) /\ Len(History(c)) = Len(c)
         /\ Append(c, e) \in Seq(Activation) /\ Len(Append(c, e)) = Len(c) + 1
         /\ Append(c, e)[Len(c) + 1] = e
         /\ \A g \in 1 .. Len(c) : Append(c, e)[g] = c[g]
         /\ History(Append(c, e)) = Append(History(c), e.rel)
<1>1. DOMAIN c = 1 .. Len(c) /\ Len(c) \in Nat /\ \A g \in 1 .. Len(c) : c[g] \in Activation
  OBVIOUS
<1>2. \A d \in Activation : d.rel \in Releases
  BY DEF Activation
<1>3. History(c) \in [1 .. Len(c) -> Releases]
  BY <1>1, <1>2 DEF History
<1>4. History(c) \in Seq(Releases) /\ Len(History(c)) = Len(c)
  BY <1>1, <1>3
<1>5. /\ Append(c, e) \in Seq(Activation) /\ Len(Append(c, e)) = Len(c) + 1
      /\ Append(c, e)[Len(c) + 1] = e
      /\ \A g \in 1 .. Len(c) : Append(c, e)[g] = c[g]
      /\ DOMAIN Append(c, e) = 1 .. Len(c) + 1
  BY <1>1
<1>6. History(Append(c, e)) = [g \in 1 .. Len(c) + 1 |-> Append(c, e)[g].rel]
  BY <1>5 DEF History
<1>7. Append(History(c), e.rel) = [g \in 1 .. Len(c) + 1 |-> IF g <= Len(c) THEN c[g].rel ELSE e.rel]
  BY <1>1, <1>2, <1>4 DEF History
<1>8. \A g \in 1 .. Len(c) + 1 : Append(c, e)[g].rel = IF g <= Len(c) THEN c[g].rel ELSE e.rel
  BY <1>1, <1>5
<1>9. QED
  BY <1>4, <1>5, <1>6, <1>7, <1>8

(* Lemma: metadata that authenticates only adds to what is revoked.        *)
LEMMA AuthenticationKeeps ==
  ASSUME InstallInv, LedgerInv, AuthenticateMetadata
  PROVE  LedgerInv' /\ \E rels \in SUBSET Releases : Ledger!Revoke(rels)
<1> USE DEF Loaded, Settled, UpdateSteps
<1>1. ReadInv /\ CheckpointLag /\ ReceiptLag /\ ActivationLag /\ ActivatedInv
  BY DEF LedgerInv
<1>2. /\ pc = "checkpoint" /\ pc' = "refresh" /\ stateFile = "readable"
      /\ UNCHANGED <<chain, receipts, state, stateFile>>
  BY <1>1 DEF AuthenticateMetadata, ReadInv
<1>3. PICK more \in SUBSET Revocable : \E version :
        checkpoints' = Append(checkpoints,
          [version |-> version, revoked |-> Revoked(Len(checkpoints)) \union more])
  BY DEF AuthenticateMetadata
<1>4. Len(checkpoints') = Len(checkpoints) + 1 /\ Len(checkpoints) \in Nat
      /\ Revoked(Len(checkpoints))' = Revoked(Len(checkpoints)) \union more
  <2>1. checkpoints \in Seq(Checkpoint) /\ Len(checkpoints) \in Nat
    BY LedgerTypes
  <2>2. Len(checkpoints') = Len(checkpoints) + 1
        /\ checkpoints'[Len(checkpoints')].revoked = Revoked(Len(checkpoints)) \union more
    BY <1>3, <2>1
  <2>3. Len(checkpoints') # 0
    BY <2>1, <2>2
  <2>4. Revoked(Len(checkpoints))' = checkpoints'[Len(checkpoints')].revoked
    BY <2>3 DEF Revoked
  <2>5. QED
    BY <2>1, <2>2, <2>4
<1>5. ReadInv' /\ ReceiptLag' /\ ActivationLag'
  BY <1>1, <1>2 DEF ReadInv, ReceiptLag, ActivationLag
<1>6. CheckpointLag'
  BY <1>1, <1>2, <1>4, LedgerTypes DEF CheckpointLag
<1>7. ChosenInv' /\ ActivatedInv'
  BY <1>1, <1>2 DEF ChosenInv, Chosen, ActivatedInv, Activated
<1>8. Ledger!Revoke(more) /\ more \in SUBSET Releases
  BY <1>2, <1>4, StoreAssumption DEF Ledger!Revoke
<1>9. QED
  BY <1>5, <1>6, <1>7, <1>8 DEF LedgerInv

(* Lemma: a receipt is persisted for the selected candidate only, above    *)
(* all there are.                                                          *)
LEMMA ReceiptKeeps ==
  ASSUME InstallInv, LedgerInv, FindOrPersistReceipt
  PROVE  LedgerInv' /\ (receipts' = receipts \/ \E r \in Releases : Ledger!Authenticate(r))
<1> USE DEF Loaded, Settled, UpdateSteps
<1>1. ReadInv /\ CheckpointLag /\ ReceiptLag /\ ActivationLag /\ ChosenInv /\ ActivatedInv
  BY DEF LedgerInv
<1>2. /\ pc = "receipt" /\ pc' = "advance" /\ stateFile = "readable"
      /\ cand' = cand /\ cand \in Releases
      /\ UNCHANGED <<chain, checkpoints, state, stateFile>>
      /\ receipts' = receipts \union {cand}
  BY <1>1 DEF FindOrPersistReceipt, memory, ReadInv, InstallInv, CandidateInv
<1>3. /\ receipts = state.known
      /\ cand \notin Revoked(Len(checkpoints))
      /\ Above(cand, receipts \ {cand})
  BY <1>1, <1>2 DEF ReceiptLag, ChosenInv, Chosen
<1>4. ReadInv' /\ CheckpointLag' /\ ActivationLag'
  BY <1>1, <1>2 DEF ReadInv, CheckpointLag, ActivationLag
<1>5. ReceiptLag'
  BY <1>2, <1>3 DEF ReceiptLag, Above
<1>6. ChosenInv'
  BY <1>2, <1>3 DEF ChosenInv, Chosen, Above, Revoked
<1>7. ActivatedInv'
  BY <1>1, <1>2 DEF ActivatedInv, Activated
<1>8. receipts' = receipts \/ Ledger!Authenticate(cand)
  BY <1>2, <1>3 DEF Ledger!Authenticate, Ledger!Above, Above, Revoked
<1>9. QED
  BY <1>2, <1>4, <1>5, <1>6, <1>7, <1>8 DEF LedgerInv

(* Lemma: a rollback goes back to the activation just before, which is not *)
(* revoked.                                                                *)
LEMMA RollbackKeeps ==
  ASSUME InstallInv, LedgerInv, AppendRollback
  PROVE  LedgerInv' /\ Ledger!RollBack
<1> USE DEF Loaded, Settled, UpdateSteps
<1>1. ReadInv /\ CheckpointLag /\ ReceiptLag /\ ActivationLag /\ ActivatedInv
  BY DEF LedgerInv
<1>2. /\ pc = "validate" /\ pc' = "rolledback" /\ stateFile = "readable"
      /\ UNCHANGED <<checkpoints, receipts, state, stateFile>>
  BY <1>1 DEF AppendRollback, ReadInv
<1>3. state.checkpoint = Len(checkpoints) /\ state.current = Len(chain)
      /\ state.previous = (IF state.current = 0 THEN 0 ELSE state.current - 1)
  BY <1>1, <1>2 DEF CheckpointLag, ActivationLag
<1> DEFINE n == Len(chain)
           r == chain[n - 1].rel
           e == [chain[n - 1] EXCEPT !.reason = "rollback"]
<1>4. n \in Nat /\ n > 1 /\ r # chain[n].rel /\ r \notin Revoked(Len(checkpoints))
      /\ chain' = Append(chain, e)
  <2>1. /\ state.previous # 0 /\ chain[state.previous].rel # chain[Len(chain)].rel
        /\ chain[state.previous].rel \notin Revoked(state.checkpoint)
        /\ chain' = Append(chain, [chain[state.previous] EXCEPT !.reason = "rollback"])
    BY DEF AppendRollback, MayRollBack, Valid
  <2>2. n \in Nat /\ n > 1 /\ state.previous = n - 1
    BY <1>3, <2>1, LedgerTypes
  <2>3. QED
    BY <1>3, <2>1, <2>2
<1>5. e \in Activation /\ e.rel = r /\ r \in Activated
  <2>1. n - 1 \in DOMAIN chain /\ chain[n - 1] \in Activation
    BY <1>4, LedgerTypes
  <2>2. QED
    BY <2>1 DEF Activation, Activated
<1> HIDE DEF e
<1>6. chain \in Seq(Activation)
  BY LedgerTypes
<1>7. /\ Len(chain') = n + 1 /\ chain' \in Seq(Activation)
      /\ \A g \in 1 .. n : chain'[g] = chain[g]
      /\ chain'[n + 1] = e
      /\ History(chain) \in Seq(Releases) /\ Len(History(chain)) = n
      /\ History(chain') = Append(History(chain), r)
  BY <1>4, <1>5, <1>6, HistoryAppended
<1>8. ReadInv' /\ CheckpointLag' /\ ReceiptLag'
  BY <1>1, <1>2 DEF ReadInv, CheckpointLag, ReceiptLag
<1>9. ActivationLag'
  <2>1. Floor(chain', n) = Floor(chain, n)
    BY <1>4, <1>5, <1>6, FloorOfAppended
  <2>2. QED
    BY <1>1, <1>2, <1>3, <1>4, <1>7, <2>1 DEF ActivationLag
<1>10. ChosenInv'
  BY <1>2 DEF ChosenInv, Chosen
<1>11. ActivatedInv'
  <2>1. \A g \in DOMAIN chain' : chain'[g].rel \in Activated
    BY <1>4, <1>5, <1>6, <1>7 DEF Activated
  <2>2. QED
    BY <1>1, <1>2, <2>1 DEF ActivatedInv, Activated
<1>12. Ledger!RollBack
  <2>1. History(chain)[n] = chain[n].rel /\ History(chain)[n - 1] = r
    BY <1>4, <1>6 DEF History
  <2>2. QED
    BY <1>2, <1>4, <1>7, <2>1 DEF Ledger!RollBack, Revoked, History
<1>13. QED
  BY <1>8, <1>9, <1>10, <1>11, <1>12 DEF LedgerInv

(* Lemma: an update commits the newest authenticated release, above all    *)
(* that were ever activated.                                               *)
LEMMA CommitKeeps ==
  ASSUME InstallInv, LedgerInv, CommitUpdate
  PROVE  LedgerInv' /\ \E r \in Releases : Ledger!Install(r)
<1> USE DEF Loaded, Settled, UpdateSteps
<1>1. ReadInv /\ CheckpointLag /\ ReceiptLag /\ ActivationLag /\ ChosenInv /\ ActivatedInv
  BY DEF LedgerInv
<1> DEFINE n == Len(chain)
           e == [reason |-> "update", rel |-> cand, seal |-> drawn]
<1>2. /\ pc = "commit" /\ pc' = "committed" /\ stateFile = "readable"
      /\ cand \in Releases /\ cand.seq > MaxActivatedIn(chain)
      /\ chain' = Append(chain, e)
      /\ UNCHANGED <<checkpoints, receipts, state, stateFile>>
  BY <1>1 DEF CommitUpdate, ReadInv, InstallInv, CandidateInv
<1>3. e \in Activation /\ e.rel = cand
  BY <1>2 DEF Activation, InstallInv, TypeOK
<1> HIDE DEF e
<1>4. chain \in Seq(Activation) /\ n \in Nat /\ DOMAIN chain = 1 .. n
  BY LedgerTypes
<1>5. /\ Len(chain') = n + 1 /\ chain' \in Seq(Activation)
      /\ \A g \in 1 .. n : chain'[g] = chain[g]
      /\ chain'[n + 1] = e
      /\ History(chain') = Append(History(chain), cand)
  BY <1>2, <1>3, <1>4, HistoryAppended
<1>6. state.current = n /\ cand \in receipts /\ cand \notin Revoked(Len(checkpoints))
      /\ Above(cand, receipts \ {cand})
  BY <1>1, <1>2 DEF ActivationLag, ChosenInv, Chosen
<1>7. ReadInv' /\ CheckpointLag' /\ ReceiptLag'
  BY <1>1, <1>2 DEF ReadInv, CheckpointLag, ReceiptLag
<1>8. ActivationLag'
  <2>1. Floor(chain', n) = Floor(chain, n)
    BY <1>2, <1>3, <1>4, FloorOfAppended
  <2>2. QED
    BY <1>1, <1>2, <1>4, <1>5, <1>6, <2>1 DEF ActivationLag
<1>9. ChosenInv'
  BY <1>2 DEF ChosenInv, Chosen
<1>10. ActivatedInv'
  <2>1. \A g \in DOMAIN chain' : chain'[g].rel \in Activated \union {cand}
    BY <1>3, <1>4, <1>5 DEF Activated
  <2>2. QED
    BY <1>1, <1>2, <1>6, <2>1 DEF ActivatedInv, Activated
<1>11. \E r \in Releases : Ledger!Install(r)
  <2> PICK r \in Releases : r = cand
    BY <1>2
  <2>1. \A g \in 1 .. n : chain[g].rel.seq < cand.seq
    <3>1. \A g \in 1 .. n : chain[g].rel.seq <= MaxActivatedIn(chain) /\ chain[g].rel.seq \in Nat
      BY <1>4, LedgerTypes, MaxActivatedInProperties
    <3>2. MaxActivatedIn(chain) \in Nat /\ cand.seq \in Nat
      BY <1>2, <1>4, LedgerTypes, MaxActivatedInProperties
    <3>3. QED
      BY <1>2, <3>1, <3>2
  <2>2. Ledger!Above(r, Ledger!Installed)
    BY <1>4, <2>1 DEF Ledger!Above, Ledger!Installed
  <2>3. Ledger!Above(r, receipts \ {cand})
    BY <1>6 DEF Above, Ledger!Above
  <2>4. QED
    <3>1. Ledger!Install(r)
      BY <1>2, <1>5, <1>6, <2>2, <2>3 DEF Ledger!Install, History, Revoked
    <3>2. QED
      BY <3>1
<1>12. LedgerInv'
  BY <1>7, <1>8, <1>9, <1>10 DEF LedgerInv
<1>13. QED
  BY <1>2, <1>11, <1>12

-----------------------------------------------------------------------------
(* Lemma: every step keeps the stores in step, and is a step of the ledger *)
(* or leaves it as it is.                                                  *)
LEMMA LedgerStep ==
  ASSUME InstallInv, LedgerInv, [Next]_vars
  PROVE  LedgerInv' /\ [Ledger!Next]_(Ledger!ledger)
<1>1. ASSUME UNCHANGED <<chain, checkpoints, receipts>>
      PROVE  UNCHANGED Ledger!ledger
  BY <1>1 DEF Ledger!ledger, Revoked
<1>2. CASE Quiet
  BY <1>1, <1>2, QuietKeeps DEF Quiet
<1>3. CASE StateWrites
  <2>1. ReadInv' /\ CheckpointLag' /\ ReceiptLag' /\ ActivationLag'
    BY <1>3, ReplacementKeeps, CatchingUpKeeps, RecordingKeeps DEF StateWrites
  <2>2. QED
    BY <1>1, <1>3, <2>1, StateWriteKeeps DEF LedgerInv
<1>4. CASE StoreWrites
  <2>1. CASE AuthenticateMetadata
    BY <2>1, AuthenticationKeeps DEF Ledger!Next
  <2>2. CASE FindOrPersistReceipt
    <3>1. UNCHANGED <<chain, checkpoints>>
      BY <2>2 DEF FindOrPersistReceipt
    <3>2. QED
      BY <1>1, <2>2, <3>1, ReceiptKeeps DEF Ledger!Next
  <2>3. CASE AppendRollback
    BY <2>3, RollbackKeeps DEF Ledger!Next
  <2>4. CASE CommitUpdate
    BY <2>4, CommitKeeps DEF Ledger!Next
  <2>5. QED
    BY <1>4, <2>1, <2>2, <2>3, <2>4 DEF StoreWrites
<1>5. QED
  BY <1>2, <1>3, <1>4, StepKinds

(* The strengthened invariant holds in every reachable state.              *)
THEOREM LedgerInvariant == Spec => []LedgerInv
<1>1. Init => LedgerInv
  BY DEF Init, LedgerInv, ReadInv, CheckpointLag, ReceiptLag, ActivationLag, ChosenInv, Chosen,
         ActivatedInv, Activated, UpdateSteps, Loaded
<1>2. InstallInv /\ LedgerInv /\ [Next]_vars => LedgerInv'
  BY LedgerStep
<1>3. QED
  BY <1>1, <1>2, InstallInvariant, PTL DEF Spec

(* Wherever a crash strikes, the state is never ahead of the checkpoints,  *)
(* receipts and activations it summarises, and never more than one behind. *)
THEOREM InstallStateLags == Spec => []StateLags
<1>1. InstallInv /\ LedgerInv => StateLags
  <2> SUFFICES ASSUME InstallInv, LedgerInv, stateFile = "readable"
               PROVE  /\ state.checkpoint <= Len(checkpoints)
                      /\ Len(checkpoints) <= state.checkpoint + 1
                      /\ state.current <= Len(chain) /\ Len(chain) <= state.current + 1
                      /\ state.known \subseteq receipts
                      /\ Cardinality(receipts \ state.known) <= 1
    BY DEF StateLags
  <2>1. PICK r : receipts \ state.known \subseteq {r}
    BY DEF LedgerInv, ReceiptLag
  <2>2. receipts \ state.known = {} \/ receipts \ state.known = {r}
    BY <2>1
  <2>3. Cardinality(receipts \ state.known) <= 1
    BY <2>2, FS_EmptySet, FS_Singleton
  <2>4. QED
    BY <2>3 DEF LedgerInv, CheckpointLag, ReceiptLag, ActivationLag
<1>2. QED
  BY <1>1, InstallInvariant, LedgerInvariant, PTL

(* Receipts, revocations and activations behave as the abstract ledger     *)
(* promises, through crashes, damage and recovery.                         *)
THEOREM InstallImplementsLedger == Spec => ImplementsLedger
<1>1. Init => Ledger!Init
  BY DEF Init, Ledger!Init, Revoked
<1>2. InstallInv /\ LedgerInv /\ [Next]_vars => [Ledger!Next]_(Ledger!ledger)
  BY LedgerStep
<1>3. QED
  BY <1>1, <1>2, InstallInvariant, LedgerInvariant, PTL DEF Spec, ImplementsLedger, Ledger!Spec
=============================================================================
