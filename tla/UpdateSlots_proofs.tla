--------------------------- MODULE UpdateSlots_proofs ---------------------------
(***************************************************************************)
(* What recovery and update promise about the release slots, for every set *)
(* of releases and every number of transactions, crashes and damages: the  *)
(* slots one may fall back to are never touched, recovery leaves nothing   *)
(* of an interrupted transaction behind and lets an update begin only from *)
(* a whole installation, and the next run accepts whatever a crash left.   *)
(* The argument: what an activation chain can look like, what the open     *)
(* journal says at each pc, and that a candidate that is placed was never  *)
(* activated before.                                                       *)
(***************************************************************************)
EXTENDS UpdateInstall_proofs

-----------------------------------------------------------------------------
(* The shape of an activation chain.                                       *)

Sealed(c, n) == \A g \in 1 .. Len(c) : c[g].seal \in 1 .. n

(* Every activation repeats one that an update committed.                  *)
Originated(c) ==
  \A g \in 1 .. Len(c) : \E u \in 1 .. g :
    c[u].reason = "update" /\ c[u].rel = c[g].rel /\ c[u].seal = c[g].seal

(* An update is above everything activated before it.                      *)
UpdatesRise(c) ==
  \A g, h \in 1 .. Len(c) : g < h /\ c[h].reason = "update" => c[g].rel.seq < c[h].rel.seq

(* Rollbacks only alternate between two neighbours.                        *)
Alternates(c) ==
  \A u \in 1 .. Len(c) :
    (\A h \in u + 1 .. Len(c) : c[h].reason = "rollback") =>
      \A h \in u .. Len(c) : c[h].rel = c[u].rel \/ (u > 1 /\ c[h].rel = c[u - 1].rel)

WellFormed(c, n) == Sealed(c, n) /\ Originated(c) /\ UpdatesRise(c) /\ Alternates(c)

ChainInv == WellFormed(chain, drawn)

Rollback(c) == [c[Len(c) - 1] EXCEPT !.reason = "rollback"]

(* Lemma: an appended sequence, index by index.                            *)
LEMMA Appended ==
  ASSUME NEW c \in Seq(Activation), NEW e \in Activation
  PROVE  /\ Len(c) \in Nat /\ Len(Append(c, e)) = Len(c) + 1
         /\ Append(c, e)[Len(c) + 1] = e
         /\ \A g \in 1 .. Len(c) : Append(c, e)[g] = c[g] /\ c[g] \in Activation
         /\ \A g \in 1 .. Len(c) + 1 : g \in 1 .. Len(c) \/ g = Len(c) + 1
  OBVIOUS

(* Lemma: rolling back to the activation just before keeps the shape.      *)
LEMMA RollbackChain ==
  ASSUME NEW c \in Seq(Activation), NEW n \in Nat, Len(c) > 1, WellFormed(c, n)
  PROVE  /\ Rollback(c) \in Activation
         /\ Rollback(c).rel = c[Len(c) - 1].rel /\ Rollback(c).seal = c[Len(c) - 1].seal
         /\ Rollback(c).reason = "rollback"
         /\ WellFormed(Append(c, Rollback(c)), n)
<1> DEFINE k == Len(c)
           e == Rollback(c)
           d == Append(c, e)
<1>1. k \in Nat /\ k - 1 \in 1 .. k /\ c[k - 1] \in Activation
  OBVIOUS
<1>2. e \in Activation /\ e.rel = c[k - 1].rel /\ e.seal = c[k - 1].seal /\ e.reason = "rollback"
  BY <1>1 DEF Activation, Rollback
<1> HIDE DEF e
<1>3. /\ Len(d) = k + 1 /\ d[k + 1] = e
      /\ \A g \in 1 .. k : d[g] = c[g]
      /\ \A g \in 1 .. k + 1 : g \in 1 .. k \/ g = k + 1
  BY <1>2, Appended
<1> HIDE DEF d, k
<1>4. Sealed(c, n) /\ Originated(c) /\ UpdatesRise(c) /\ Alternates(c)
  BY DEF WellFormed
<1>5. Sealed(d, n)
  BY <1>1, <1>2, <1>3, <1>4 DEF Sealed, k
<1>6. Originated(d)
  <2> SUFFICES ASSUME NEW g \in 1 .. k + 1
               PROVE  \E u \in 1 .. g :
                        d[u].reason = "update" /\ d[u].rel = d[g].rel /\ d[u].seal = d[g].seal
    BY <1>3 DEF Originated
  <2>1. PICK h \in 1 .. k : h <= g /\ d[g].rel = c[h].rel /\ d[g].seal = c[h].seal
    BY <1>1, <1>2, <1>3
  <2>2. PICK u \in 1 .. h : c[u].reason = "update" /\ c[u].rel = c[h].rel /\ c[u].seal = c[h].seal
    BY <1>4 DEF Originated, k
  <2>3. u \in 1 .. k /\ u \in 1 .. g
    BY <1>1, <2>1
  <2>4. QED
    BY <1>3, <2>1, <2>2, <2>3
<1>7. UpdatesRise(d)
  <2> SUFFICES ASSUME NEW g \in 1 .. k + 1, NEW h \in 1 .. k + 1, g < h, d[h].reason = "update"
               PROVE  d[g].rel.seq < d[h].rel.seq
    BY <1>3 DEF UpdatesRise
  <2>1. h \in 1 .. k /\ g \in 1 .. k
    BY <1>1, <1>2, <1>3
  <2>2. QED
    BY <1>3, <1>4, <2>1 DEF UpdatesRise, k
<1>8. Alternates(d)
  <2> SUFFICES ASSUME NEW u \in 1 .. k + 1, NEW h \in u .. k + 1,
                      \A i \in u + 1 .. k + 1 : d[i].reason = "rollback"
               PROVE  d[h].rel = d[u].rel \/ (u > 1 /\ d[h].rel = d[u - 1].rel)
    BY <1>3 DEF Alternates
  <2>1. CASE u = k + 1
    BY <1>1, <2>1
  <2>2. CASE u \in 1 .. k
    <3>1. \A i \in u + 1 .. k : c[i].reason = "rollback"
      BY <1>1, <1>3, <2>2
    <3>2. \A i \in u .. k : c[i].rel = c[u].rel \/ (u > 1 /\ c[i].rel = c[u - 1].rel)
      BY <1>4, <2>2, <3>1 DEF Alternates, k
    <3>3. \A i \in u .. k : d[i] = c[i]
      BY <1>1, <1>3, <2>2
    <3>4. d[u] = c[u] /\ (u > 1 => d[u - 1] = c[u - 1])
      BY <1>1, <1>3, <2>2
    <3>5. CASE h \in u .. k
      BY <3>2, <3>3, <3>4, <3>5
    <3>6. CASE h = k + 1
      <4>1. d[h].rel = c[k - 1].rel
        BY <1>2, <1>3, <3>6
      <4>2. k - 1 \in u .. k \/ u = k
        BY <1>1, <2>2
      <4>3. u = k => u > 1
        BY <1>1, <2>2 DEF k
      <4>4. QED
        BY <3>2, <3>4, <4>1, <4>2, <4>3
    <3>7. QED
      BY <1>1, <2>2, <3>5, <3>6
  <2>3. QED
    BY <1>3, <2>1, <2>2
<1>9. QED
  BY <1>2, <1>5, <1>6, <1>7, <1>8 DEF WellFormed, d, e, k

(* Lemma: committing a release above all activated ones keeps the shape.   *)
LEMMA UpdateChain ==
  ASSUME NEW c \in Seq(Activation), NEW n \in Nat, WellFormed(c, n), NEW e \in Activation,
         e.reason = "update", e.seal \in 1 .. n, \A g \in 1 .. Len(c) : c[g].rel.seq < e.rel.seq
  PROVE  WellFormed(Append(c, e), n)
<1> DEFINE k == Len(c)
           d == Append(c, e)
<1>1. /\ k \in Nat /\ Len(d) = k + 1 /\ d[k + 1] = e
      /\ \A g \in 1 .. k : d[g] = c[g]
      /\ \A g \in 1 .. k + 1 : g \in 1 .. k \/ g = k + 1
  BY Appended
<1> HIDE DEF d
<1>2. Sealed(c, n) /\ Originated(c) /\ UpdatesRise(c) /\ Alternates(c)
  BY DEF WellFormed
<1>3. Sealed(d, n)
  BY <1>1, <1>2 DEF Sealed
<1>4. Originated(d)
  <2> SUFFICES ASSUME NEW g \in 1 .. k + 1
               PROVE  \E u \in 1 .. g :
                        d[u].reason = "update" /\ d[u].rel = d[g].rel /\ d[u].seal = d[g].seal
    BY <1>1 DEF Originated
  <2>1. CASE g = k + 1
    BY <1>1, <2>1
  <2>2. CASE g \in 1 .. k
    <3>1. PICK u \in 1 .. g : c[u].reason = "update" /\ c[u].rel = c[g].rel /\ c[u].seal = c[g].seal
      BY <1>2, <2>2 DEF Originated
    <3>2. u \in 1 .. k
      BY <1>1, <2>2
    <3>3. QED
      BY <1>1, <2>2, <3>1, <3>2
  <2>3. QED
    BY <1>1, <2>1, <2>2
<1>5. UpdatesRise(d)
  <2> SUFFICES ASSUME NEW g \in 1 .. k + 1, NEW h \in 1 .. k + 1, g < h, d[h].reason = "update"
               PROVE  d[g].rel.seq < d[h].rel.seq
    BY <1>1 DEF UpdatesRise
  <2>1. g \in 1 .. k
    BY <1>1
  <2>2. CASE h = k + 1
    BY <1>1, <2>1, <2>2
  <2>3. CASE h \in 1 .. k
    BY <1>1, <1>2, <2>1, <2>3 DEF UpdatesRise
  <2>4. QED
    BY <1>1, <2>2, <2>3
<1>6. Alternates(d)
  <2> SUFFICES ASSUME NEW u \in 1 .. k + 1, NEW h \in u .. k + 1,
                      \A i \in u + 1 .. k + 1 : d[i].reason = "rollback"
               PROVE  d[h].rel = d[u].rel
    BY <1>1 DEF Alternates
  <2>1. u = k + 1
    <3>1. u \in 1 .. k => k + 1 \in u + 1 .. k + 1
      BY <1>1
    <3>2. QED
      BY <1>1, <3>1
  <2>2. QED
    BY <1>1, <2>1
<1>7. QED
  BY <1>3, <1>4, <1>5, <1>6 DEF WellFormed, d

(* Lemma: a release has one seal, whichever activation names it.           *)
LEMMA OneSeal ==
  ASSUME NEW c \in Seq(Activation), NEW n \in Nat, WellFormed(c, n),
         NEW g \in 1 .. Len(c), NEW h \in 1 .. Len(c), c[g].rel = c[h].rel
  PROVE  c[g].seal = c[h].seal
<1>1. PICK u \in 1 .. g : c[u].reason = "update" /\ c[u].rel = c[g].rel /\ c[u].seal = c[g].seal
  BY DEF WellFormed, Originated
<1>2. PICK v \in 1 .. h : c[v].reason = "update" /\ c[v].rel = c[h].rel /\ c[v].seal = c[h].seal
  BY DEF WellFormed, Originated
<1>3. u \in 1 .. Len(c) /\ v \in 1 .. Len(c)
  OBVIOUS
<1>4. c[u].rel.seq \in Nat
  <2>1. c[u] \in Activation
    BY <1>3
  <2>2. QED
    BY <2>1, StoreAssumption DEF Activation
<1>5. ~(u < v) /\ ~(v < u)
  BY <1>1, <1>2, <1>3, <1>4 DEF WellFormed, UpdatesRise
<1>6. u = v
  BY <1>3, <1>5
<1>7. QED
  BY <1>1, <1>2, <1>6
(* Lemma: only a rollback and a commit append to the chain.                *)
LEMMA ChainSteps ==
  ASSUME [Next]_vars
  PROVE  \/ chain' = chain
         \/ AppendRollback
         \/ CommitUpdate
  BY StepKinds DEF Quiet, StateWrites, StoreWrites, AuthenticateMetadata, FindOrPersistReceipt,
                   QuarantineCorruptState, ReconstructState, InitializeState, LoseState,
                   RefreshState, RefreshMetadata, AdvanceReceipts, AdvanceState,
                   SynchronizeState, RecordRollback, RecordActivation

(* Lemma: transaction ids are only ever drawn, one at a time.              *)
LEMMA DrawnSteps ==
  ASSUME [Next]_vars
  PROVE  drawn' = drawn \/ CreateTransactionPaths
<1> SUFFICES ASSUME ~CreateTransactionPaths
             PROVE  drawn' = drawn
  OBVIOUS
<1>1. ASSUME RecoveryStep
      PROVE  drawn' = drawn
  BY <1>1 DEF RecoveryStep, PhaseOne, PhaseTwo, Synchronize, Validate, CloseJournals, Plan,
     RefusePlan, Refuse, Materialize, CleanTemporaries, RefuseTemporaries,
     QuarantineCorruptState, ReconstructState,
     RefreshState, AdvanceReceipts, StateLoaded, SynchronizeState, StateSynchronized,
     ValidateCurrent, AppendRollback, RecordRollback, RefuseInstallation, RemoveProvisionalSlot,
     CloseJournal, NoOpenJournal, PruneSlots
<1>2. ASSUME UpdateStep
      PROVE  drawn' = drawn
  BY <1>2 DEF UpdateStep, Prologue, Choose, Activate, Epilogue, InitializeState, Stop,
     CreateJournal, Transition, AuthenticateMetadata, RefreshMetadata, Select, RefuseSelection,
     FindOrPersistReceipt, AdvanceState, Throw, ConfirmCurrent, PreparedRollback, PlacePending,
     PlaceSlot, CommitUpdate, ActivationCommitted, RefuseCandidate, RecordActivation,
     CleanupTransaction, PruneSuperseded, Finish
<1>3. ASSUME Unlink \/ Start \/ Fail \/ DamageSlot \/ LoseState \/ Crash \/ UNCHANGED vars
      PROVE  drawn' = drawn
  BY <1>3 DEF Unlink, Start, Fail, Throw, DamageSlot, LoseState, Crash, vars
<1>4. QED
  BY <1>1, <1>2, <1>3 DEF Next, Launcher

(* Lemma: the rollback that recovery appends is the one of RollbackChain.  *)
LEMMA RollbackAppended ==
  ASSUME InstallInv, LedgerInv, AppendRollback
  PROVE  /\ Len(chain) > 1 /\ chain' = Append(chain, Rollback(chain))
         /\ chain[Len(chain) - 1].rel # chain[Len(chain)].rel
         /\ Valid(Len(chain) - 1, Revoked(Len(checkpoints)))
<1>1. /\ pc = "validate" /\ stateFile = "readable"
      /\ state.previous # 0 /\ chain[state.previous].rel # chain[Len(chain)].rel
      /\ Valid(state.previous, Revoked(state.checkpoint))
      /\ chain' = Append(chain, [chain[state.previous] EXCEPT !.reason = "rollback"])
  BY DEF AppendRollback, MayRollBack, LedgerInv, ReadInv, Loaded
<1>2. state.checkpoint = Len(checkpoints) /\ state.current = Len(chain)
      /\ state.previous = (IF state.current = 0 THEN 0 ELSE state.current - 1)
  BY <1>1 DEF LedgerInv, CheckpointLag, ActivationLag, Loaded
<1>3. chain \in Seq(Activation)
  BY LedgerTypes
<1>4. state.previous = Len(chain) - 1 /\ Len(chain) > 1
  <2>1. state.previous # 0 /\ state.current = Len(chain)
    BY <1>1, <1>2
  <2>2. Len(chain) # 0 /\ state.previous = Len(chain) - 1
    BY <1>2, <2>1
  <2>3. Len(chain) - 1 # 0
    BY <2>1, <2>2
  <2>4. \A n \in Nat : n # 0 /\ n - 1 # 0 => n > 1
    OBVIOUS
  <2>5. Len(chain) > 1
    <3> DEFINE n == Len(chain)
    <3>1. n \in Nat
      BY <1>3
    <3>2. n # 0 /\ n - 1 # 0
      BY <2>2, <2>3
    <3> HIDE DEF n
    <3>3. n > 1
      BY <2>4, <3>1, <3>2
    <3>4. QED
      BY <3>3 DEF n
  <2>6. QED
    BY <2>2, <2>5
<1>5. QED
  BY <1>1, <1>2, <1>4 DEF Rollback

(* Lemma: what a commit appends is above all that was activated.           *)
LEMMA UpdateAppended ==
  ASSUME InstallInv, CommitUpdate
  PROVE  LET e == [reason |-> "update", rel |-> cand, seal |-> drawn] IN
         /\ cand \in Releases /\ drawn \in 1 .. drawn /\ drawn \in OpenJournals
         /\ e \in Activation
         /\ chain' = Append(chain, e)
         /\ \A g \in 1 .. Len(chain) : chain[g].rel.seq < cand.seq
<1> DEFINE e == [reason |-> "update", rel |-> cand, seal |-> drawn]
<1>1. pc = "commit" /\ cand.seq > MaxActivatedIn(chain) /\ chain' = Append(chain, e)
  BY DEF CommitUpdate
<1>2. cand \in Releases /\ drawn \in OpenJournals
  BY <1>1 DEF InstallInv, CandidateInv, RunInv, UpdateSteps
<1>3. drawn \in 1 .. drawn
  BY <1>2 DEF InstallInv, TypeOK, OpenJournals
<1>4. e \in Activation
  BY <1>2, <1>3 DEF Activation
<1>5. chain \in Seq(Activation)
  BY LedgerTypes
<1>6. \A g \in 1 .. Len(chain) : chain[g].rel.seq <= MaxActivatedIn(chain) /\ chain[g].rel.seq \in Nat
  BY <1>5, LedgerTypes, MaxActivatedInProperties
<1>7. MaxActivatedIn(chain) \in Nat /\ cand.seq \in Nat
  BY <1>2, <1>5, LedgerTypes, MaxActivatedInProperties
<1>8. \A g \in 1 .. Len(chain) : chain[g].rel.seq < cand.seq
  BY <1>1, <1>6, <1>7
<1>9. QED
  BY <1>1, <1>2, <1>3, <1>4, <1>8

(* The activation chain keeps its shape in every reachable state.          *)
THEOREM ChainInvariant == Spec => []ChainInv
<1>1. Init => ChainInv
  BY DEF Init, ChainInv, WellFormed, Sealed, Originated, UpdatesRise, Alternates
<1>2. ASSUME InstallInv, LedgerInv, ChainInv, [Next]_vars
      PROVE  ChainInv'
  <2>1. chain \in Seq(Activation) /\ drawn \in Nat
    BY <1>2, LedgerTypes DEF InstallInv, TypeOK
  <2>2. drawn' = drawn \/ drawn' = drawn + 1
    BY <1>2, DrawnSteps DEF CreateTransactionPaths
  <2>3. CASE chain' = chain
    <3>1. \A n \in 1 .. drawn : n \in 1 .. drawn'
      BY <2>1, <2>2
    <3>2. QED
      BY <1>2, <2>3, <3>1
         DEF ChainInv, WellFormed, Sealed, Originated, UpdatesRise, Alternates
  <2>4. CASE AppendRollback
    <3>1. drawn' = drawn
      BY <2>4 DEF AppendRollback
    <3>2. Len(chain) > 1 /\ chain' = Append(chain, Rollback(chain))
      BY <1>2, <2>4, RollbackAppended
    <3>3. WellFormed(Append(chain, Rollback(chain)), drawn)
      BY <1>2, <2>1, <3>2, RollbackChain DEF ChainInv
    <3>4. QED
      BY <3>1, <3>2, <3>3 DEF ChainInv
  <2>5. CASE CommitUpdate
    <3> DEFINE e == [reason |-> "update", rel |-> cand, seal |-> drawn]
    <3>1. drawn' = drawn
      BY <2>5 DEF CommitUpdate
    <3>2. /\ e \in Activation /\ drawn \in 1 .. drawn /\ chain' = Append(chain, e)
          /\ \A g \in 1 .. Len(chain) : chain[g].rel.seq < cand.seq
      BY <1>2, <2>5, UpdateAppended
    <3>3. e.reason = "update" /\ e.seal = drawn /\ e.rel = cand
      OBVIOUS
    <3> HIDE DEF e
    <3>4. WellFormed(Append(chain, e), drawn)
      BY <1>2, <2>1, <3>2, <3>3, UpdateChain DEF ChainInv
    <3>5. QED
      BY <3>1, <3>2, <3>4 DEF ChainInv
  <2>6. QED
    BY <1>2, <2>3, <2>4, <2>5, ChainSteps
<1>3. QED
  BY <1>1, <1>2, InstallInvariant, LedgerInvariant, PTL DEF Spec

-----------------------------------------------------------------------------
(* The receipts against the metadata: no sequence above the newest version *)
(* of its channel.                                                         *)

Authenticated(r) == r.seq <= NewestVersion(r.channel)

VersionInv ==
  /\ \A r \in receipts : Authenticated(r)
  /\ pc \in UpdateSteps \ {"open", "check", "fetch", "checkpoint"} => Authenticated(cand)

(* Lemma: the candidate is what the newest metadata named.                 *)
LEMMA CandidateSteps ==
  ASSUME [Next]_vars, pc' \in UpdateSteps \ {"open", "check", "fetch", "checkpoint"}
  PROVE  \/ AuthenticateMetadata
         \/ pc \in UpdateSteps \ {"open", "check", "fetch", "checkpoint"} /\ cand' = cand
<1>1. ASSUME RecoveryStep
      PROVE  FALSE
  BY <1>1 DEF RecoveryStep, PhaseOne, PhaseTwo, Synchronize, Validate, CloseJournals, Plan,
     RefusePlan, Refuse, Materialize, CleanTemporaries, RefuseTemporaries,
     QuarantineCorruptState, ReconstructState,
     RefreshState, AdvanceReceipts, StateLoaded, SynchronizeState, StateSynchronized,
     ValidateCurrent, AppendRollback, RecordRollback, RefuseInstallation, RemoveProvisionalSlot,
     CloseJournal, NoOpenJournal, PruneSlots, UpdateSteps
<1>2. ASSUME UpdateStep, ~Transition, ~AuthenticateMetadata
      PROVE  pc \in UpdateSteps \ {"open", "check", "fetch", "checkpoint"} /\ cand' = cand
  BY <1>2 DEF UpdateStep, Prologue, Choose, Activate, Epilogue, InitializeState, Stop,
     CreateTransactionPaths, memory,
     CreateJournal, RefreshMetadata, Select, RefuseSelection,
     FindOrPersistReceipt, AdvanceState, Throw, ConfirmCurrent, PreparedRollback, PlacePending,
     PlaceSlot, CommitUpdate, ActivationCommitted, RefuseCandidate, RecordActivation,
     CleanupTransaction, PruneSuperseded, Finish, UpdateSteps
<1>3. ASSUME Transition
      PROVE  pc \in UpdateSteps \ {"open", "check", "fetch", "checkpoint"} /\ cand' = cand
  <2>1. pc \in DOMAIN Transitions /\ pc' = Transitions[pc].next /\ cand' = cand
    BY <1>3 DEF Transition, memory
  <2>2. QED
    BY <2>1 DEF Transitions, UpdateSteps
<1>4. ASSUME Unlink \/ Start \/ Fail \/ DamageSlot \/ LoseState \/ Crash \/ UNCHANGED vars
      PROVE  pc \in UpdateSteps \ {"open", "check", "fetch", "checkpoint"} /\ cand' = cand
  BY <1>4 DEF Unlink, Start, Fail, Throw, DamageSlot, LoseState, Crash, vars, memory, UpdateSteps
<1>5. QED
  BY <1>1, <1>2, <1>3, <1>4 DEF Next, Launcher

(* Lemma: which steps write receipts and checkpoints.                      *)
LEMMA RecordSteps ==
  ASSUME [Next]_vars
  PROVE  /\ receipts' = receipts \/ FindOrPersistReceipt
         /\ checkpoints' = checkpoints \/ AuthenticateMetadata
  BY StepKinds DEF Quiet, StateWrites, StoreWrites, AuthenticateMetadata, FindOrPersistReceipt,
                   QuarantineCorruptState, ReconstructState, InitializeState, LoseState,
                   RefreshState, RefreshMetadata, AdvanceReceipts, AdvanceState,
                   SynchronizeState, RecordRollback, RecordActivation, AppendRollback, CommitUpdate

(* Lemma: no version ever goes back, and the metadata authenticates its    *)
(* own candidate.                                                          *)
LEMMA VersionsRise ==
  ASSUME InstallInv, AuthenticateMetadata
  PROVE  /\ \A ch \in Channels : NewestVersion(ch) \in Nat /\ NewestVersion(ch)' \in Nat
                                /\ NewestVersion(ch) <= NewestVersion(ch)'
         /\ cand' \in Releases /\ Authenticated(cand)'
<1>1. PICK r \in Releases, more \in SUBSET Revocable :
        /\ r.seq >= NewestVersion(r.channel)
        /\ checkpoints' = Append(checkpoints,
             [version |-> [ch \in Channels |-> IF ch = r.channel THEN r.seq ELSE NewestVersion(ch)],
              revoked |-> Revoked(Len(checkpoints)) \union more])
        /\ cand' = r
  BY DEF AuthenticateMetadata
<1> DEFINE v == [ch \in Channels |-> IF ch = r.channel THEN r.seq ELSE NewestVersion(ch)]
<1>2. checkpoints \in Seq(Checkpoint)
  BY LedgerTypes
<1>3. \A ch \in Channels : NewestVersion(ch)' = v[ch]
  <2> DEFINE e == [version |-> v, revoked |-> Revoked(Len(checkpoints)) \union more]
  <2>1. checkpoints' = Append(checkpoints, e)
    BY <1>1
  <2>2. e.version = v
    OBVIOUS
  <2> HIDE DEF e, v
  <2>3. checkpoints' # <<>> /\ checkpoints'[Len(checkpoints')] = e
    BY <1>2, <2>1
  <2>4. QED
    BY <2>2, <2>3 DEF NewestVersion
<1>4. r.seq \in Nat /\ r.channel \in Channels
  BY StoreAssumption
<1>5. \A ch \in Channels : NewestVersion(ch) \in Nat
  <2> SUFFICES ASSUME NEW ch \in Channels, checkpoints # <<>>
               PROVE  checkpoints[Len(checkpoints)].version[ch] \in Nat
    BY DEF NewestVersion
  <2>1. checkpoints[Len(checkpoints)] \in Checkpoint
    BY <1>2
  <2>2. QED
    BY <2>1 DEF Checkpoint
<1>6. \A ch \in Channels : v[ch] \in Nat /\ NewestVersion(ch) <= v[ch]
  BY <1>1, <1>4, <1>5
<1>7. Authenticated(cand)'
  BY <1>1, <1>3, <1>4 DEF Authenticated
<1>8. QED
  BY <1>1, <1>3, <1>5, <1>6, <1>7

(* Nothing is ever received above the newest metadata of its channel.      *)
THEOREM VersionInvariant == Spec => []VersionInv
<1>1. Init => VersionInv
  BY DEF Init, VersionInv, UpdateSteps
<1>2. ASSUME InstallInv, VersionInv, [Next]_vars
      PROVE  VersionInv'
  <2>1. /\ \A r \in Releases : r.channel \in Channels /\ r.seq \in Nat
        /\ receipts \in SUBSET Releases
    BY <1>2, LedgerTypes, StoreAssumption
  <2>2. \A r \in Releases : Authenticated(r) => Authenticated(r)'
    <3>1. CASE checkpoints' = checkpoints
      BY <3>1 DEF Authenticated, NewestVersion
    <3>2. CASE AuthenticateMetadata
      <4>1. \A ch \in Channels : NewestVersion(ch) \in Nat /\ NewestVersion(ch)' \in Nat
                                 /\ NewestVersion(ch) <= NewestVersion(ch)'
        BY <1>2, <3>2, VersionsRise
      <4>2. QED
        BY <2>1, <4>1 DEF Authenticated
    <3>3. QED
      BY <1>2, <3>1, <3>2, RecordSteps
  <2>3. \A r \in receipts' : Authenticated(r)'
    <3>1. receipts' = receipts \/ (receipts' = receipts \union {cand} /\ pc = "receipt")
      BY <1>2, RecordSteps DEF FindOrPersistReceipt
    <3>2. \A r \in receipts' : r \in Releases /\ Authenticated(r)
      BY <1>2, <2>1, <3>1 DEF VersionInv, InstallInv, CandidateInv, UpdateSteps
    <3>3. QED
      BY <2>2, <3>2
  <2>4. ASSUME pc' \in UpdateSteps \ {"open", "check", "fetch", "checkpoint"}
        PROVE  Authenticated(cand)'
    <3>1. CASE AuthenticateMetadata
      BY <1>2, <3>1, VersionsRise
    <3>2. CASE pc \in UpdateSteps \ {"open", "check", "fetch", "checkpoint"} /\ cand' = cand
      <4>1. PICK r \in Releases : r = cand /\ r = cand'
        BY <1>2, <3>2 DEF InstallInv, CandidateInv
      <4>2. Authenticated(r)
        BY <1>2, <3>2, <4>1 DEF VersionInv
      <4>3. Authenticated(r)'
        BY <2>2, <4>2
      <4>4. QED
        BY <4>1, <4>3 DEF Authenticated, NewestVersion
    <3>3. QED
      BY <1>2, <2>4, <3>1, <3>2, CandidateSteps
  <2>5. QED
    BY <2>3, <2>4 DEF VersionInv
<1>3. QED
  BY <1>1, <1>2, InstallInvariant, PTL DEF Spec

-----------------------------------------------------------------------------
(* What recovery has cleaned stays clean until the update begins.          *)

CleanInv ==
  /\ pc \in {"load"} \union Loaded \union Settled => tmp = {}
  /\ pc = "ready" => pending = {}

(* Theorem: no temporary is left from the clean-up on, no pending          *)
(* directory when the update begins.                                       *)
THEOREM CleanInvariant == Spec => []CleanInv
<1>1. Init => CleanInv
  BY DEF Init, CleanInv, Loaded, Settled
<1>2. ASSUME CleanInv, [Next]_vars
      PROVE  CleanInv'
  <2> USE DEF CleanInv, Loaded, Settled, trees
  <2>1. ASSUME PhaseOne \/ PhaseTwo \/ Synchronize
        PROVE  CleanInv'
    BY <1>2, <2>1 DEF PhaseOne, PhaseTwo, Synchronize, Plan, RefusePlan, Refuse, Materialize,
       CleanTemporaries, RefuseTemporaries,
       QuarantineCorruptState, ReconstructState, RefreshState, AdvanceReceipts,
       StateLoaded, SynchronizeState, StateSynchronized
  <2>2. ASSUME Validate \/ CloseJournals
        PROVE  CleanInv'
    BY <1>2, <2>2 DEF Validate, CloseJournals, ValidateCurrent, AppendRollback, RecordRollback,
       RefuseInstallation, Refuse, RemoveProvisionalSlot, CloseJournal, NoOpenJournal, PruneSlots,
       Prune
  <2>3. ASSUME UpdateStep, ~Transition
        PROVE  CleanInv'
    BY <1>2, <2>3 DEF UpdateStep, Prologue, Choose, Activate, Epilogue, InitializeState, Stop,
       CreateTransactionPaths, CreateJournal, AuthenticateMetadata, RefreshMetadata, Select,
       RefuseSelection, FindOrPersistReceipt, AdvanceState, Throw, ConfirmCurrent,
       PreparedRollback, PlacePending, PlaceSlot, CommitUpdate, ActivationCommitted,
       RefuseCandidate, RecordActivation, CleanupTransaction, PruneSuperseded, Finish
  <2>4. ASSUME Transition
        PROVE  CleanInv'
    <3>1. pc' \in UpdateSteps
      BY <2>4, TransitionTable DEF Transition
    <3>2. QED
      BY <3>1 DEF UpdateSteps
  <2>5. ASSUME Unlink \/ Start \/ Fail \/ DamageSlot \/ LoseState \/ Crash \/ UNCHANGED vars
        PROVE  CleanInv'
    BY <1>2, <2>5 DEF Unlink, Start, Fail, Throw, DamageSlot, LoseState, Crash, vars
  <2>6. QED
    BY <1>2, <2>1, <2>2, <2>3, <2>4, <2>5 DEF Next, Launcher, RecoveryStep
<1>3. QED
  BY <1>1, <1>2, PTL DEF Spec

-----------------------------------------------------------------------------
(* What the open journal says at each step of an update.                   *)

Preparing == {"receipt", "advance", "current", "leave", "download", "verify", "stage", "compat",
              "prior", "prepare"}
Fetching == {"check", "fetch", "checkpoint", "refresh", "authenticate", "select"}

PhaseInv ==
  /\ pc \in Fetching => journals[drawn].phase < SelectArtifact
  /\ pc \in Preparing => journals[drawn].phase \in SelectArtifact .. PrepareActivation - 1
  /\ pc \in {"place", "move", "placed"} => journals[drawn].phase = PrepareActivation
  /\ pc = "health" => journals[drawn].phase = PrepareActivation + 1
  /\ pc \in {"commit", "committed"} => journals[drawn].phase = ValidateProvisionalSlot
  /\ pc \in {"record", "sweep", "supersede", "cleanup"} => journals[drawn].phase = CommitActivation
  /\ pc = "recover" => journals[drawn].phase = CommitActivation + 1
  /\ pc \in UpdateSteps \ (Fetching \union {"open"}) => journals[drawn].rel = cand

Within(phase) == pc \in phase /\ pc' \in phase

(* Lemma: the steps of recovery that write a journal, and those of an      *)
(* update; every other step leaves the journals and moves the run inside   *)
(* one of the phases above, or out of the transaction.                     *)
LEMMA JournalSteps ==
  ASSUME [Next]_vars
  PROVE  \/ Materialize \/ CloseJournal
         \/ CreateJournal \/ Transition \/ Select \/ PreparedRollback \/ ActivationCommitted
         \/ Finish
         \/ /\ journals' = journals
            /\ \/ pc' \notin UpdateSteps \ {"open"}
               \/ /\ drawn' = drawn
                  /\ \/ Within(Fetching)
                     \/ cand' = cand /\ \/ pc' = pc
                                        \/ Within(Preparing)
                                        \/ Within({"place", "move", "placed"})
                                        \/ Within({"commit", "committed"})
                                        \/ Within({"record", "sweep", "supersede", "cleanup"})
<1> USE DEF records, memory, Fetching, Preparing, Within
<1>1. ASSUME RecoveryStep, ~Materialize, ~CloseJournal
      PROVE  journals' = journals /\ pc' \notin UpdateSteps \ {"open"}
  BY <1>1 DEF RecoveryStep, PhaseOne, PhaseTwo, Synchronize, Validate, CloseJournals, Plan,
     RefusePlan, Refuse, CleanTemporaries, RefuseTemporaries,
     QuarantineCorruptState, ReconstructState,
     RefreshState, AdvanceReceipts, StateLoaded, SynchronizeState, StateSynchronized,
     ValidateCurrent, AppendRollback, RecordRollback, RefuseInstallation, RemoveProvisionalSlot,
     NoOpenJournal, PruneSlots, UpdateSteps
<1>2. ASSUME \/ InitializeState \/ Stop \/ CreateTransactionPaths
             \/ RefuseSelection \/ RefuseCandidate \/ Fail \/ Crash \/ Start
      PROVE  journals' = journals /\ pc' \notin UpdateSteps \ {"open"}
  BY <1>2 DEF InitializeState, Stop, CreateTransactionPaths, RefuseSelection, RefuseCandidate,
     Fail, Throw, Crash, Start, UpdateSteps
<1>3. ASSUME \/ AuthenticateMetadata \/ RefreshMetadata \/ FindOrPersistReceipt \/ AdvanceState
             \/ ConfirmCurrent \/ PlacePending \/ PlaceSlot \/ CommitUpdate \/ RecordActivation
             \/ CleanupTransaction \/ PruneSuperseded
      PROVE  /\ journals' = journals /\ drawn' = drawn
             /\ \/ Within(Fetching)
                \/ cand' = cand /\ \/ Within(Preparing)
                                   \/ Within({"place", "move", "placed"})
                                   \/ Within({"commit", "committed"})
                                   \/ Within({"record", "sweep", "supersede", "cleanup"})
  BY <1>3 DEF AuthenticateMetadata, RefreshMetadata, FindOrPersistReceipt, AdvanceState,
     ConfirmCurrent, PlacePending, PlaceSlot, CommitUpdate, RecordActivation, CleanupTransaction,
     PruneSuperseded
<1>4. ASSUME Unlink \/ DamageSlot \/ LoseState \/ UNCHANGED vars
      PROVE  UNCHANGED <<journals, drawn, cand, pc>>
  BY <1>4 DEF Unlink, DamageSlot, LoseState, vars
<1>5. QED
  BY <1>1, <1>2, <1>3, <1>4
     DEF Next, Launcher, UpdateStep, Prologue, Choose, Activate, Epilogue

(* Lemma: what a transaction's own record says when it is written.         *)
LEMMA OwnJournalWritten ==
  ASSUME InstallInv, drawn \in OpenJournals, NEW j, WriteJournal(drawn, j), drawn' = drawn
  PROVE  journals'[drawn'] = j
  BY DEF WriteJournal, SetJournal, OpenJournals

(* Theorem: the open journal has the phase and the release of the running  *)
(* update's step.                                                          *)
THEOREM PhaseInvariant == Spec => []PhaseInv
<1> USE DEF PhaseInv, Fetching, Preparing, SelectArtifact, PrepareActivation,
            ValidateProvisionalSlot, CommitActivation, PrepareRollback
<1>1. Init => PhaseInv
  BY DEF Init, UpdateSteps
<1>2. ASSUME InstallInv, PhaseInv, [Next]_vars
      PROVE  PhaseInv'
  <2> USE DEF UpdateSteps
  <2>1. CASE Materialize \/ CloseJournal \/ Finish
    BY <2>1 DEF Materialize, CloseJournal, Finish
  <2>2. CASE CreateJournal
    <3> DEFINE j == [phase |-> EmptyJournal, rel |-> NoRelease, generation |-> 0]
    <3>1. SetJournal(drawn, j) /\ drawn' = drawn /\ pc' = "check"
      BY <2>2 DEF CreateJournal
    <3>2. journals'[drawn'] = j /\ j.phase = 0
      BY <3>1 DEF SetJournal, EmptyJournal
    <3>3. QED
      BY <3>1, <3>2
  <2>3. CASE Transition \/ Select \/ PreparedRollback
    <3>1. PICK n \in 0 .. Recover :
            /\ WriteJournal(drawn, [journals[drawn] EXCEPT !.phase = n, !.rel = cand])
            /\ \/ pc = "select" /\ n = 4 /\ pc' = "receipt"
               \/ pc = "prior" /\ n = 9 /\ pc' = "prepare"
               \/ pc \in DOMAIN Transitions /\ n = Transitions[pc].phase /\ pc' = Transitions[pc].next
      <4>1. CASE Transition
        <5> DEFINE n == Transitions[pc].phase
        <5>1. pc \in DOMAIN Transitions /\ pc' = Transitions[pc].next /\ Log(n)
          BY <4>1 DEF Transition
        <5>2. n \in 0 .. Recover
          BY <5>1, TransitionTable
        <5>3. WriteJournal(drawn, [journals[drawn] EXCEPT !.phase = n, !.rel = cand])
          BY <5>1 DEF Log
        <5>4. QED
          BY ONLY <5>1, <5>2, <5>3
      <4>2. CASE Select
        BY <4>2 DEF Select, Log, Recover
      <4>3. CASE PreparedRollback
        BY <4>3 DEF PreparedRollback, Log, Recover
      <4>4. QED
        BY <2>3, <4>1, <4>2, <4>3
    <3>2. drawn' = drawn /\ cand' = cand /\ pc \in UpdateSteps \ {"open"}
      BY <2>3, TransitionTable DEF Transition, Select, PreparedRollback, memory
    <3>3. drawn \in OpenJournals /\ journals[drawn] \in Journal
      BY <1>2, <3>2 DEF InstallInv, RunInv, OpenJournals, TypeOK
    <3>4. journals'[drawn'].phase = n /\ journals'[drawn'].rel = cand
      <4>1. journals'[drawn'] = [journals[drawn] EXCEPT !.phase = n, !.rel = cand]
        BY <1>2, <3>1, <3>2, <3>3, OwnJournalWritten
      <4>2. QED
        BY <3>3, <4>1 DEF Journal
    <3>5. CASE pc \in {"select", "prior"}
      BY <3>1, <3>2, <3>4, <3>5 DEF Transitions
    <3>6. CASE pc \in DOMAIN Transitions
      <4>1. n = Transitions[pc].phase /\ pc' = Transitions[pc].next
        BY <3>1, <3>6 DEF Transitions
      <4>2. QED
        BY <3>2, <3>4, <3>6, <4>1 DEF Transitions
    <3>7. QED
      BY <3>1, <3>5, <3>6
  <2>4. CASE ActivationCommitted
    <3>1. /\ pc = "committed" /\ pc' = "record" /\ drawn' = drawn /\ cand' = cand
          /\ WriteJournal(drawn, [journals[drawn] EXCEPT !.phase = CommitActivation,
                                                         !.generation = Len(chain)])
      BY <2>4 DEF ActivationCommitted, memory
    <3>2. drawn \in OpenJournals /\ journals[drawn] \in Journal
      BY <1>2, <3>1 DEF InstallInv, RunInv, OpenJournals, TypeOK
    <3>3. journals'[drawn'] = [journals[drawn] EXCEPT !.phase = CommitActivation,
                                                      !.generation = Len(chain)]
      BY <1>2, <3>1, <3>2, OwnJournalWritten
    <3>4. journals'[drawn'].phase = CommitActivation /\ journals'[drawn'].rel = journals[drawn].rel
      BY <3>2, <3>3 DEF Journal
    <3>5. QED
      BY <1>2, <3>1, <3>4
  <2>5. CASE journals' = journals /\ pc' \notin UpdateSteps \ {"open"}
    BY <2>5
  <2>6. CASE /\ journals' = journals /\ drawn' = drawn
             /\ \/ Within(Fetching)
                \/ cand' = cand /\ \/ pc' = pc
                                   \/ Within(Preparing)
                                   \/ Within({"place", "move", "placed"})
                                   \/ Within({"commit", "committed"})
                                   \/ Within({"record", "sweep", "supersede", "cleanup"})
    BY <1>2, <2>6 DEF Within
  <2>7. QED
    BY <1>2, <2>1, <2>2, <2>3, <2>4, <2>5, <2>6, JournalSteps
<1>3. QED
  BY <1>1, <1>2, InstallInvariant, PTL DEF Spec

-----------------------------------------------------------------------------
(* Slots.  A candidate that gets a slot was never activated, which is so   *)
(* because what it could replace has a slot that keeps it from being       *)
(* placed: the invariant and KeptSlotsIntact rest on each other.           *)

Fresh(r) == \A g \in 1 .. Len(chain) : chain[g].rel.seq < r.seq

Unplaced == {"download", "verify", "stage", "compat", "prior", "prepare", "place"}
Placing == {"move", "placed", "health", "commit"}

PlacedInv ==
  /\ pc \in Unplaced => ~Active
  /\ pc \in Placing => Fresh(cand)
  /\ pc \in Placing \ {"move"} => slots[cand] = drawn

(* Lemma: which steps change a slot.                                       *)
LEMMA SlotSteps ==
  ASSUME [Next]_vars
  PROVE  slots' = slots \/ PlaceSlot \/ RemoveProvisionalSlot \/ PruneSlots \/ PruneSuperseded
<1> SUFFICES ASSUME ~PlaceSlot, ~RemoveProvisionalSlot, ~PruneSlots, ~PruneSuperseded
             PROVE  slots' = slots
  OBVIOUS
<1> USE DEF trees
<1>1. ASSUME RecoveryStep
      PROVE  slots' = slots
  BY <1>1 DEF RecoveryStep, PhaseOne, PhaseTwo, Synchronize, Validate, CloseJournals, Plan,
     RefusePlan, Refuse, Materialize, CleanTemporaries, RefuseTemporaries,
     QuarantineCorruptState, ReconstructState,
     RefreshState, AdvanceReceipts, StateLoaded, SynchronizeState, StateSynchronized,
     ValidateCurrent, AppendRollback, RecordRollback, RefuseInstallation, CloseJournal,
     NoOpenJournal
<1>2. ASSUME UpdateStep
      PROVE  slots' = slots
  BY <1>2 DEF UpdateStep, Prologue, Choose, Activate, Epilogue, InitializeState, Stop,
     CreateTransactionPaths, CreateJournal, Transition, AuthenticateMetadata, RefreshMetadata,
     Select, RefuseSelection, FindOrPersistReceipt, AdvanceState, Throw, ConfirmCurrent,
     PreparedRollback, PlacePending, CommitUpdate, ActivationCommitted, RefuseCandidate,
     RecordActivation, CleanupTransaction, Finish
<1>3. ASSUME Unlink \/ Start \/ Fail \/ DamageSlot \/ LoseState \/ Crash \/ UNCHANGED vars
      PROVE  slots' = slots
  BY <1>3 DEF Unlink, Start, Fail, Throw, DamageSlot, LoseState, Crash, vars
<1>4. QED
  BY <1>1, <1>2, <1>3 DEF Next, Launcher

(* Lemma: how a run comes to place a candidate.                            *)
LEMMA PlacingSteps ==
  ASSUME [Next]_vars, pc' \in Unplaced \union Placing
  PROVE  /\ chain' = chain /\ drawn' = drawn /\ cand' = cand
         /\ pc' \in Unplaced => pc \in Unplaced \/ AdvanceState
         /\ pc' = "move" => pc = "move" \/ PlacePending
         /\ pc' \in Placing \ {"move"} =>
              PlaceSlot \/ (pc \in Placing \ {"move"} /\ slots' = slots)
<1> USE DEF Unplaced, Placing, records, memory, trees
<1> DEFINE Q == /\ chain' = chain /\ drawn' = drawn /\ cand' = cand
                /\ pc' \in Unplaced => pc \in Unplaced \/ AdvanceState
                /\ pc' = "move" => pc = "move" \/ PlacePending
                /\ pc' \in Placing \ {"move"} =>
                     PlaceSlot \/ (pc \in Placing \ {"move"} /\ slots' = slots)
<1>1. ASSUME RecoveryStep
      PROVE  FALSE
  BY <1>1 DEF RecoveryStep, PhaseOne, PhaseTwo, Synchronize, Validate, CloseJournals, Plan,
     RefusePlan, Refuse, Materialize, CleanTemporaries, RefuseTemporaries,
     QuarantineCorruptState, ReconstructState,
     RefreshState, AdvanceReceipts, StateLoaded, SynchronizeState, StateSynchronized,
     ValidateCurrent, AppendRollback, RecordRollback, RefuseInstallation, RemoveProvisionalSlot,
     CloseJournal, NoOpenJournal, PruneSlots
<1>2. ASSUME UpdateStep, ~Transition
      PROVE  Q
  BY <1>2 DEF UpdateStep, Prologue, Choose, Activate, Epilogue, InitializeState, Stop,
     CreateTransactionPaths, CreateJournal, AuthenticateMetadata, RefreshMetadata,
     Select, RefuseSelection, FindOrPersistReceipt, AdvanceState, Throw, ConfirmCurrent,
     PreparedRollback, PlacePending, PlaceSlot, CommitUpdate, ActivationCommitted,
     RefuseCandidate, RecordActivation, CleanupTransaction, PruneSuperseded, Finish
<1>3. ASSUME Transition
      PROVE  Q
  <2>1. /\ pc \in DOMAIN Transitions /\ pc' = Transitions[pc].next
        /\ UNCHANGED <<chain, drawn, cand, slots>>
    BY <1>3 DEF Transition
  <2>2. QED
    BY <2>1 DEF Transitions
<1>4. ASSUME Unlink \/ Start \/ Fail \/ DamageSlot \/ LoseState \/ Crash \/ UNCHANGED vars
      PROVE  Q
  BY <1>4 DEF Unlink, Start, Fail, Throw, DamageSlot, LoseState, Crash, vars
<1>5. QED
  BY <1>1, <1>2, <1>3, <1>4 DEF Next, Launcher

(* Lemma: an activation back to which only the current one and itself were *)
(* in use.                                                                 *)
Target(g) == \A h \in g .. Len(chain) : chain[h].rel \in {chain[g].rel, chain[Len(chain)].rel}

(* Lemma: pruning keeps what one may fall back to.                         *)
LEMMA TargetKept ==
  ASSUME InstallInv, NEW g \in 1 .. Len(chain), Target(g)
  PROVE  chain[g].rel \in Kept
<1> DEFINE a == chain[g].rel
           b == chain[Len(chain)].rel
           S == {chain[h].rel : h \in g .. Len(chain)}
<1>1. g \in DOMAIN chain
  BY LedgerTypes
<1>2. S \in SUBSET ({a} \union {b})
  BY DEF Target
<1>3. IsFiniteSet({a}) /\ Cardinality({a}) = 1
  BY FS_Singleton
<1>4. IsFiniteSet({a} \union {b}) /\ Cardinality({a} \union {b}) \in {1, 2}
  <2> HIDE DEF a, b
  <2> DEFINE T == {a} \union {b}
  <2>1. IsFiniteSet(T) /\ (Cardinality(T) = Cardinality({a}) \/ Cardinality(T) = Cardinality({a}) + 1)
    BY <1>3, FS_AddElement
  <2> HIDE DEF T
  <2>2. IsFiniteSet(T) /\ Cardinality(T) \in {1, 2}
    BY <1>3, <2>1
  <2>3. QED
    BY <2>2 DEF T
<1>5. IsFiniteSet(S) /\ Cardinality(S) <= Cardinality({a} \union {b})
  BY <1>2, <1>4, FS_Subset
<1>6. Cardinality(S) \in Nat
  BY <1>5, FS_CardinalityType
<1>7. Cardinality(S) <= 2
  BY <1>4, <1>5, <1>6
<1>8. a \in Activated
  BY <1>1 DEF Activated
<1>9. QED
  BY <1>1, <1>7, <1>8 DEF Kept

(* Lemma: pruning leaves what is kept as it was.                           *)
LEMMA PruneKeepsTargets ==
  ASSUME InstallInv, Prune, NEW r \in Releases, r \in Kept
  PROVE  slots'[r] = slots[r] /\ (r \notin damaged => r \notin damaged')
<1>1. PICK stay : /\ slots' = [q \in Releases |-> IF q \in Superseded \ stay THEN 0 ELSE slots[q]]
                  /\ damaged' = damaged \ (Superseded \ stay)
  BY DEF Prune
<1>2. r \notin Superseded
  BY DEF Superseded
<1>3. QED
  BY <1>1, <1>2

(* Lemma: what removal takes was never activated.                          *)
LEMMA RemovalKeepsActivated ==
  ASSUME InstallInv, RemoveProvisionalSlot, NEW r \in Releases, r \in Activated
  PROVE  slots'[r] = slots[r] /\ (r \notin damaged => r \notin damaged')
<1>1. slots \in [Releases -> Nat]
  BY DEF InstallInv, TypeOK
<1>2. PICK t \in OpenJournals :
        \/ UNCHANGED <<slots, damaged>>
        \/ /\ journals[t].rel \notin Activated
           /\ slots' = [slots EXCEPT ![journals[t].rel] = 0]
           /\ damaged' = damaged \ {journals[t].rel}
  BY Zenon DEF RemoveProvisionalSlot
<1>3. QED
  BY <1>1, <1>2

(* Lemma: a candidate that is not active, is above all receipts and has no *)
(* slot yet was never activated.                                           *)
LEMMA PlacedIsFresh ==
  ASSUME InstallInv, LedgerInv, ChainInv, PlacedInv, KeptSlotsIntact, PlacePending
  PROVE  Fresh(cand)
<1>1. /\ pc = "place" /\ slots[cand] = 0 /\ ~Active
      /\ cand \in Releases /\ cand \in receipts /\ Above(cand, receipts \ {cand})
      /\ Activated \subseteq receipts
  BY DEF PlacePending, DestinationFree, PlacedInv, Unplaced, LedgerInv, ChosenInv, Chosen,
         ActivatedInv, InstallInv, CandidateInv, UpdateSteps
<1>2. chain \in Seq(Activation) /\ DOMAIN chain = 1 .. Len(chain) /\ Len(chain) \in Nat
  BY LedgerTypes
<1>3. \A g \in 1 .. Len(chain) : chain[g].rel = cand \/ chain[g].rel.seq < cand.seq
  BY <1>1, <1>2 DEF Activated, Above
<1>4. ASSUME NEW g \in 1 .. Len(chain), chain[g].rel = cand
      PROVE  FALSE
  <2>1. PICK u \in 1 .. g :
          chain[u].reason = "update" /\ chain[u].rel = cand /\ chain[u].seal = chain[g].seal
    BY <1>4 DEF ChainInv, WellFormed, Originated
  <2>2. u \in 1 .. Len(chain)
    BY <1>2
  <2>3. \A h \in u + 1 .. Len(chain) : chain[h].reason = "rollback"
    <3> SUFFICES ASSUME NEW h \in u + 1 .. Len(chain), chain[h].reason # "rollback"
                 PROVE  FALSE
      OBVIOUS
    <3>1. h \in 1 .. Len(chain) /\ u < h
      BY <1>2
    <3>2. chain[h] \in Activation
      BY <3>1, LedgerTypes
    <3>3. chain[h].reason = "update"
      BY <3>2 DEF Activation
    <3>4. chain[u].rel.seq < chain[h].rel.seq
      BY <2>2, <3>1, <3>3 DEF ChainInv, WellFormed, UpdatesRise
    <3>5. chain[h].rel.seq \in Nat /\ cand.seq \in Nat
      BY <1>1, <3>1, LedgerTypes
    <3>6. chain[h].rel = cand \/ chain[h].rel.seq < cand.seq
      BY <1>3, <3>1
    <3>7. cand.seq < chain[h].rel.seq
      BY <2>1, <3>4
    <3>8. QED
      BY <3>5, <3>6, <3>7
  <2>4. \A h \in u .. Len(chain) :
          chain[h].rel = chain[u].rel \/ (u > 1 /\ chain[h].rel = chain[u - 1].rel)
    BY <2>2, <2>3 DEF ChainInv, WellFormed, Alternates
  <2>5. Len(chain) \in u .. Len(chain) /\ chain # <<>>
    BY <1>2, <2>2
  <2>6. chain[Len(chain)].rel # cand
    BY <1>1, <2>5 DEF Active
  <2>7. u > 1 /\ chain[Len(chain)].rel = chain[u - 1].rel
    BY <2>1, <2>4, <2>5, <2>6
  <2>8. \A h \in u .. Len(chain) : chain[h].rel \in {chain[u].rel, chain[Len(chain)].rel}
    BY <2>4, <2>7
  <2>9. slots[chain[u].rel] = chain[u].seal
    BY <1>2, <2>2, <2>8 DEF KeptSlotsIntact
  <2>10. chain[u].seal \in 1 .. drawn
    BY <2>2 DEF ChainInv, WellFormed, Sealed
  <2>11. QED
    BY <1>1, <2>1, <2>9, <2>10
<1>5. QED
  BY <1>3, <1>4 DEF Fresh
(* Lemma: a step that leaves the chain, and the slot of every target, and  *)
(* one that appends to the chain, keep every target's slot.                *)
LEMMA TargetsKept ==
  ASSUME InstallInv, KeptSlotsIntact, chain' = chain,
         \A g \in 1 .. Len(chain) : Target(g) => slots'[chain[g].rel] = slots[chain[g].rel]
  PROVE  KeptSlotsIntact'
  BY LedgerTypes DEF KeptSlotsIntact, Target

(* Lemma: a rollback makes its target current, and the release it leaves   *)
(* the target; both stood.                                                 *)
LEMMA RollbackKeepsTargets ==
  ASSUME InstallInv, LedgerInv, ChainInv, KeptSlotsIntact, AppendRollback
  PROVE  KeptSlotsIntact'
<1> DEFINE n == Len(chain)
           e == Rollback(chain)
<1>1. /\ n > 1 /\ chain' = Append(chain, e) /\ chain[n - 1].rel # chain[n].rel
      /\ slots[chain[n - 1].rel] = chain[n - 1].seal
      /\ slots' = slots
  BY RollbackAppended DEF Valid, Installed, AppendRollback, trees
<1>2. chain \in Seq(Activation) /\ DOMAIN chain = 1 .. n /\ n \in Nat /\ drawn \in Nat
  BY LedgerTypes DEF InstallInv, TypeOK
<1>3. e \in Activation /\ e.rel = chain[n - 1].rel /\ e.seal = chain[n - 1].seal
  BY <1>1, <1>2, RollbackChain DEF ChainInv
<1> HIDE DEF e
<1>4. /\ Len(chain') = n + 1 /\ DOMAIN chain' = 1 .. n + 1 /\ chain'[n + 1] = e
      /\ \A g \in 1 .. n : chain'[g] = chain[g]
      /\ \A g \in 1 .. n + 1 : g \in 1 .. n \/ g = n + 1
  BY <1>1, <1>2, <1>3, Appended
<1>5. slots[chain[n].rel] = chain[n].seal
  <2>1. n \in DOMAIN chain /\ \A h \in n .. n : chain[h].rel \in {chain[n].rel, chain[n].rel}
    BY <1>1, <1>2
  <2>2. QED
    BY <2>1 DEF KeptSlotsIntact
<1>6. SUFFICES ASSUME NEW g \in 1 .. n + 1,
                      \A h \in g .. n + 1 : chain'[h].rel \in {chain'[g].rel, e.rel}
               PROVE  slots[chain'[g].rel] = chain'[g].seal
  BY <1>1, <1>4 DEF KeptSlotsIntact
<1>7. CASE g = n + 1
  BY <1>1, <1>3, <1>4, <1>7
<1>8. CASE g \in 1 .. n
  <2>1. n \in 1 .. n /\ n \in g .. n + 1
    BY <1>1, <1>2, <1>8
  <2>2. chain[n].rel = chain[g].rel
    BY <1>1, <1>3, <1>4, <1>6, <1>8, <2>1
  <2>3. chain[n].seal = chain[g].seal
    BY <1>2, <1>8, <2>1, <2>2, OneSeal DEF ChainInv
  <2>4. QED
    BY <1>4, <1>5, <1>8, <2>2, <2>3
<1>9. QED
  BY <1>4, <1>6, <1>7, <1>8

(* Lemma: a commit activates a release that has its slot, and keeps the    *)
(* one before.                                                             *)
LEMMA CommitKeepsTargets ==
  ASSUME InstallInv, PlacedInv, KeptSlotsIntact, CommitUpdate
  PROVE  KeptSlotsIntact'
<1> DEFINE n == Len(chain)
           e == [reason |-> "update", rel |-> cand, seal |-> drawn]
<1>1. /\ cand \in Releases /\ e \in Activation /\ chain' = Append(chain, e)
      /\ \A g \in 1 .. n : chain[g].rel.seq < cand.seq
      /\ slots' = slots /\ slots[cand] = drawn
  BY UpdateAppended DEF CommitUpdate, trees, PlacedInv, Placing
<1>2. chain \in Seq(Activation) /\ DOMAIN chain = 1 .. n /\ n \in Nat
  BY LedgerTypes
<1>3. e.rel = cand /\ e.seal = drawn
  OBVIOUS
<1> HIDE DEF e
<1>4. /\ Len(chain') = n + 1 /\ DOMAIN chain' = 1 .. n + 1 /\ chain'[n + 1] = e
      /\ \A g \in 1 .. n : chain'[g] = chain[g]
      /\ \A g \in 1 .. n + 1 : g \in 1 .. n \/ g = n + 1
  BY <1>1, <1>2, Appended
<1>5. \A g \in 1 .. n : chain[g].rel # cand
  BY <1>1, LedgerTypes
<1>6. SUFFICES ASSUME NEW g \in 1 .. n + 1,
                      \A h \in g .. n + 1 : chain'[h].rel \in {chain'[g].rel, e.rel}
               PROVE  slots[chain'[g].rel] = chain'[g].seal
  BY <1>1, <1>4 DEF KeptSlotsIntact
<1>7. CASE g = n + 1
  BY <1>1, <1>3, <1>4, <1>7
<1>8. CASE g \in 1 .. n
  <2>1. \A h \in g .. n : h \in 1 .. n /\ h \in g .. n + 1
    BY <1>2, <1>8
  <2>2. \A h \in g .. n : chain[h].rel = chain[g].rel
    BY <1>3, <1>4, <1>5, <1>6, <1>8, <2>1
  <2>3. slots[chain[g].rel] = chain[g].seal
    BY <1>2, <1>8, <2>2 DEF KeptSlotsIntact
  <2>4. QED
    BY <1>4, <1>8, <2>3
<1>9. QED
  BY <1>4, <1>6, <1>7, <1>8

(* Lemma: every step keeps the slots of the targets.                       *)
LEMMA KeptStep ==
  ASSUME InstallInv, LedgerInv, ChainInv, PlacedInv, KeptSlotsIntact, [Next]_vars
  PROVE  KeptSlotsIntact'
<1>1. \A g \in 1 .. Len(chain) : chain[g].rel \in Releases /\ chain[g].rel \in Activated
  BY LedgerTypes DEF Activated
<1>2. slots \in [Releases -> Nat]
  BY DEF InstallInv, TypeOK
<1>3. CASE PruneSlots \/ PruneSuperseded
  <2>1. Prune /\ chain' = chain
    BY <1>3 DEF PruneSlots, PruneSuperseded, records
  <2>2. QED
    BY <1>1, <2>1, TargetKept, PruneKeepsTargets, TargetsKept
<1>4. CASE RemoveProvisionalSlot
  <2>1. chain' = chain
    BY <1>4 DEF RemoveProvisionalSlot, records
  <2>2. QED
    BY <1>1, <1>4, <2>1, RemovalKeepsActivated, TargetsKept
<1>5. CASE PlaceSlot
  <2>1. chain' = chain /\ slots' = [slots EXCEPT ![cand] = drawn] /\ Fresh(cand)
    BY <1>5 DEF PlaceSlot, records, PlacedInv, Placing
  <2>2. cand \in Releases
    BY <1>5 DEF PlaceSlot, InstallInv, CandidateInv, UpdateSteps
  <2>3. \A g \in 1 .. Len(chain) : chain[g].rel # cand
    BY <2>1, <2>2, LedgerTypes DEF Fresh
  <2>4. \A g \in 1 .. Len(chain) : slots'[chain[g].rel] = slots[chain[g].rel]
    BY <1>1, <1>2, <2>1, <2>3
  <2>5. QED
    BY <2>1, <2>4, TargetsKept
<1>6. CASE slots' = slots /\ chain' = chain
  BY <1>6, TargetsKept
<1>7. QED
  BY <1>3, <1>4, <1>5, <1>6, SlotSteps, ChainSteps, RollbackKeepsTargets, CommitKeepsTargets

(* Lemma: every step keeps a candidate that gets a slot fresh.             *)
LEMMA PlacedStep ==
  ASSUME InstallInv, LedgerInv, ChainInv, PlacedInv, KeptSlotsIntact, [Next]_vars
  PROVE  PlacedInv'
<1> SUFFICES ASSUME pc' \in Unplaced \union Placing
             PROVE  PlacedInv'
  BY DEF PlacedInv
<1>1. /\ chain' = chain /\ drawn' = drawn /\ cand' = cand
      /\ pc' \in Unplaced => pc \in Unplaced \/ AdvanceState
      /\ pc' = "move" => pc = "move" \/ PlacePending
      /\ pc' \in Placing \ {"move"} => PlaceSlot \/ (pc \in Placing \ {"move"} /\ slots' = slots)
  BY PlacingSteps
<1>2. (Active <=> Active') /\ (Fresh(cand) <=> Fresh(cand)')
  BY <1>1 DEF Active, Fresh
<1>3. pc' \in Unplaced => ~Active'
  BY <1>1, <1>2 DEF PlacedInv, AdvanceState, Unplaced
<1>4. pc' \in Placing => Fresh(cand)'
  BY <1>1, <1>2, PlacedIsFresh DEF PlacedInv, Placing, PlaceSlot
<1>5. pc' \in Placing \ {"move"} => slots'[cand'] = drawn'
  <2>1. CASE PlaceSlot
    <3>1. cand \in Releases /\ slots' = [slots EXCEPT ![cand] = drawn] /\ slots \in [Releases -> Nat]
      BY <2>1 DEF PlaceSlot, InstallInv, CandidateInv, TypeOK, UpdateSteps
    <3>2. QED
      BY <1>1, <3>1
  <2>2. QED
    BY <1>1, <2>1 DEF PlacedInv
<1>6. QED
  BY <1>3, <1>4, <1>5 DEF PlacedInv

(* Theorem: the two together are inductive.                                *)
THEOREM PlacedInvariant == Spec => [](PlacedInv /\ KeptSlotsIntact)
<1>1. Init => PlacedInv /\ KeptSlotsIntact
  BY DEF Init, PlacedInv, KeptSlotsIntact, Unplaced, Placing
<1>2. InstallInv /\ LedgerInv /\ ChainInv /\ (PlacedInv /\ KeptSlotsIntact) /\ [Next]_vars
        => (PlacedInv /\ KeptSlotsIntact)'
  BY KeptStep, PlacedStep
<1>3. QED
  BY <1>1, <1>2, InstallInvariant, LedgerInvariant, ChainInvariant, PTL DEF Spec

(* Wherever a crash strikes, the slot of the current activation and of     *)
(* every one back to the previous distinct release is the one its          *)
(* activation sealed.                                                      *)
THEOREM InstallKeepsSlots == Spec => []KeptSlotsIntact
  BY PlacedInvariant, PTL

-----------------------------------------------------------------------------
(* What recovery planned against the open journal.                         *)

Deciding == {"materialize", "clean", "load", "remove", "close"} \union Loaded

PlannedInv ==
  /\ plan = "empty" => pc = "materialize"
  /\ pc \in Deciding =>
       \A t \in OpenJournals :
         /\ plan # "none"
         /\ plan = "empty" => journals[t].phase = EmptyJournal
         /\ plan = "commit-gap" => journals[t].phase = ValidateProvisionalSlot
         /\ plan = "committed" => journals[t].phase >= CommitActivation

(* Lemma: nothing but these two steps changes what is planned, or the      *)
(* journal it is planned against, until the plan is carried out.           *)
LEMMA DecidingSteps ==
  ASSUME [Next]_vars, ~Plan, ~Materialize, plan = "empty" => pc = "materialize"
  PROVE  /\ plan' = "empty" => plan = "empty" /\ pc' = pc
         /\ pc' \in Deciding => pc \in Deciding /\ journals' = journals /\ plan' = plan
<1> USE DEF Deciding, Loaded, records, memory
<1> DEFINE Q == /\ plan' = "empty" => plan = "empty" /\ pc' = pc
                /\ pc' \in Deciding => pc \in Deciding /\ journals' = journals /\ plan' = plan
<1>1. ASSUME PhaseOne \/ PhaseTwo \/ Synchronize
      PROVE  Q
  BY <1>1 DEF PhaseOne, PhaseTwo, Synchronize, RefusePlan, Refuse,
       CleanTemporaries, RefuseTemporaries,
       QuarantineCorruptState, ReconstructState, RefreshState, AdvanceReceipts,
       StateLoaded, SynchronizeState, StateSynchronized
<1>2. ASSUME Validate \/ CloseJournals
      PROVE  Q
  BY <1>2 DEF Validate, CloseJournals, ValidateCurrent, AppendRollback, RecordRollback,
       RefuseInstallation, Refuse, RemoveProvisionalSlot, CloseJournal, NoOpenJournal, PruneSlots
<1>3. ASSUME UpdateStep, ~Transition
      PROVE  Q
  BY <1>3 DEF UpdateStep, Prologue, Choose, Activate, Epilogue, InitializeState, Stop,
       CreateTransactionPaths, CreateJournal, AuthenticateMetadata, RefreshMetadata, Select,
       RefuseSelection, FindOrPersistReceipt, AdvanceState, Throw, ConfirmCurrent,
       PreparedRollback, PlacePending, PlaceSlot, CommitUpdate, ActivationCommitted,
       RefuseCandidate, RecordActivation, CleanupTransaction, PruneSuperseded, Finish
<1>4. ASSUME Transition
      PROVE  Q
  <2>1. pc \in UpdateSteps /\ pc' \in UpdateSteps /\ plan' = plan
    BY <1>4, TransitionTable DEF Transition
  <2>2. QED
    BY <2>1 DEF UpdateSteps
<1>5. ASSUME Unlink \/ Start \/ Fail \/ DamageSlot \/ LoseState \/ Crash \/ UNCHANGED vars
      PROVE  Q
  BY <1>5 DEF Unlink, Start, Fail, Throw, DamageSlot, LoseState, Crash, vars, UpdateSteps
<1>6. QED
  BY <1>1, <1>2, <1>3, <1>4, <1>5 DEF Next, Launcher, RecoveryStep

(* Lemma: the decision, by the phase of the open journal.                  *)
LEMMA PlanDecides ==
  ASSUME InstallInv, Plan, NEW t \in OpenJournals
  PROVE  plan' = PlannedAction(t, journals[t]) /\ journals' = journals /\ pc' = "materialize"
<1>1. OpenJournals = {t}
  BY OneOpenJournal
<1>2. plan' = LET u == CHOOSE u \in OpenJournals : TRUE IN PlannedAction(u, journals[u])
  BY <1>1 DEF Plan
<1>3. (CHOOSE u \in OpenJournals : TRUE) = t
  BY <1>1
<1>4. QED
  BY <1>2, <1>3 DEF Plan, records

(* Lemma: what the missing record of the open journal is.                  *)
LEMMA MaterializeWrites ==
  ASSUME InstallInv, PlannedInv, Materialize, plan \in {"empty", "commit-gap"}
  PROVE  \E t \in OpenJournals, j \in Journal :
           /\ OpenJournals = {t} /\ t \in 1 .. drawn
           /\ WriteJournal(t, j) /\ j.rel = journals[t].rel
           /\ \/ /\ plan' = "precommit"
                 /\ journals[t].phase = EmptyJournal
                 /\ j.phase = 1 /\ j.generation = journals[t].generation
              \/ /\ plan' = "committed"
                 /\ journals[t].phase = ValidateProvisionalSlot
                 /\ j.phase = CommitActivation /\ j.generation \in Related(journals[t])
<1>1. PICK t \in OpenJournals :
        /\ WriteJournal(t,
             IF plan = "empty"
             THEN [journals[t] EXCEPT !.phase = 1]
             ELSE [journals[t] EXCEPT !.phase = CommitActivation,
                                      !.generation = CHOOSE g \in Related(journals[t]) : TRUE])
        /\ plan' = IF plan = "empty" THEN "precommit" ELSE "committed"
  BY DEF Materialize
<1>2. OpenJournals = {t} /\ journals[t] \in Journal /\ pc = "materialize" /\ t \in 1 .. drawn
  BY OneOpenJournal, OwnGeneration DEF Materialize, InstallInv, TypeOK, OpenJournals
<1>3. CASE plan = "empty"
  <2> DEFINE j == [journals[t] EXCEPT !.phase = 1]
  <2>1. journals[t].phase = EmptyJournal
    BY <1>2, <1>3 DEF PlannedInv, Deciding
  <2>2. /\ j \in Journal /\ j.phase = 1 /\ j.rel = journals[t].rel
        /\ j.generation = journals[t].generation
    BY <1>2 DEF Journal, Recover
  <2>3. WriteJournal(t, j) /\ plan' = "precommit"
    BY <1>1, <1>3
  <2> HIDE DEF j
  <2>4. QED
    BY <1>2, <2>1, <2>2, <2>3
<1>4. CASE plan = "commit-gap"
  <2> DEFINE g == CHOOSE g \in Related(journals[t]) : TRUE
             j == [journals[t] EXCEPT !.phase = CommitActivation, !.generation = g]
  <2>1. g \in Related(journals[t])
    BY <1>4 DEF InstallInv, GapInv
  <2>2. g \in Nat
    BY <2>1, LedgerTypes DEF Related
  <2>3. journals[t].phase = ValidateProvisionalSlot
    BY <1>2, <1>4 DEF PlannedInv, Deciding
  <2>4. WriteJournal(t, j) /\ plan' = "committed"
    BY <1>1, <1>4
  <2> HIDE DEF g
  <2>5. j \in Journal
    <3>1. CommitActivation \in 0 .. Recover
      BY DEF CommitActivation, Recover
    <3>2. QED
      BY <1>2, <2>2, <3>1, JournalRecords
  <2>6. j.phase = CommitActivation /\ j.rel = journals[t].rel /\ j.generation = g
    BY <1>2 DEF Journal
  <2> HIDE DEF j
  <2>7. QED
    BY <1>2, <2>1, <2>3, <2>4, <2>5, <2>6
<1>5. QED
  BY <1>3, <1>4

(* Theorem: until it is carried out, a plan fits the open journal.         *)
THEOREM PlannedInvariant == Spec => []PlannedInv
<1>1. Init => PlannedInv
  BY DEF Init, PlannedInv, Deciding, Loaded
<1>2. ASSUME InstallInv, PlannedInv, [Next]_vars
      PROVE  PlannedInv'
  <2>1. CASE Plan
    <3>1. ASSUME NEW t \in OpenJournals
          PROVE  /\ plan' # "none"
                 /\ plan' = "empty" => journals[t].phase = EmptyJournal
                 /\ plan' = "commit-gap" => journals[t].phase = ValidateProvisionalSlot
                 /\ plan' = "committed" => journals[t].phase >= CommitActivation
      <4>1. plan' = PlannedAction(t, journals[t])
        BY <1>2, <2>1, <3>1, PlanDecides
      <4>2. journals[t].phase \in 0 .. Recover /\ journals[t].phase # Recover
        BY <1>2, OwnGeneration DEF Journal
      <4>3. QED
        BY <4>1, <4>2 DEF PlannedAction, EmptyJournal, Recover, ValidateProvisionalSlot, CommitActivation
    <3>2. journals' = journals /\ pc' = "materialize"
      BY <2>1 DEF Plan, records
    <3>3. QED
      BY <3>1, <3>2 DEF PlannedInv, OpenJournals
  <2>2. CASE Materialize /\ plan \notin {"empty", "commit-gap"}
    BY <1>2, <2>2 DEF Materialize, PlannedInv, OpenJournals, Deciding
  <2>3. CASE Materialize /\ plan \in {"empty", "commit-gap"}
    <3>1. PICK t \in OpenJournals, j \in Journal :
            /\ OpenJournals = {t} /\ t \in 1 .. drawn
            /\ WriteJournal(t, j)
            /\ plan' = "precommit" \/ (plan' = "committed" /\ j.phase = CommitActivation)
      BY <1>2, <2>3, MaterializeWrites
    <3>2. journals'[t] = j /\ \A u \in OpenJournals' : u = t
      <4>1. /\ DOMAIN journals' = DOMAIN journals \union {t}
            /\ journals'[t] = j /\ \A u \in DOMAIN journals \ {t} : journals'[u] = journals[u]
        BY <3>1 DEF WriteJournal, SetJournal
      <4>2. QED
        BY <3>1, <4>1 DEF OpenJournals
    <3>3. CommitActivation \in Nat
      BY DEF CommitActivation
    <3>4. QED
      BY <3>1, <3>2, <3>3 DEF PlannedInv
  <2>4. CASE ~Plan /\ ~Materialize
    <3>1. /\ plan' = "empty" => plan = "empty" /\ pc' = pc
          /\ pc' \in Deciding => pc \in Deciding /\ journals' = journals /\ plan' = plan
      BY <1>2, <2>4, DecidingSteps DEF PlannedInv
    <3>2. QED
      BY <1>2, <3>1 DEF PlannedInv, OpenJournals
  <2>5. QED
    BY <2>1, <2>2, <2>3, <2>4
<1>3. QED
  BY <1>1, <1>2, InstallInvariant, PTL DEF Spec

-----------------------------------------------------------------------------
(* Every journal against the chain.  What recovery will accept: a journal  *)
(* that names a generation names its own, an open one does so from its     *)
(* commit record on, and just before it the commit may have happened.      *)

Sound(t, j) ==
  /\ j.generation # 0 => NamesCommitted(t, j)
  /\ j.phase # Recover =>
       /\ j.generation # 0 <=> j.phase >= CommitActivation
       /\ j.phase = PrepareActivation + 1 => Related(j) = {}
       /\ j.phase = ValidateProvisionalSlot =>
            Related(j) = {} \/ \E g \in DOMAIN chain : Related(j) = {g} /\ Matches(g, t, j)

AllSound == \A t \in DOMAIN journals : Sound(t, journals[t])

JournalInv ==
  /\ AllSound
  /\ pc = "committed" =>
       chain[Len(chain)].reason = "update" /\ chain[Len(chain)].rel = cand

(* Lemma: only a commit leads to the commit record.                        *)
LEMMA CommittedSteps ==
  ASSUME [Next]_vars, pc' = "committed"
  PROVE  CommitUpdate \/ (pc = "committed" /\ chain' = chain /\ cand' = cand)
<1> USE DEF records, memory
<1>1. ASSUME RecoveryStep
      PROVE  FALSE
  BY <1>1 DEF RecoveryStep, PhaseOne, PhaseTwo, Synchronize, Validate, CloseJournals, Plan,
     RefusePlan, Refuse, Materialize, CleanTemporaries, RefuseTemporaries,
     QuarantineCorruptState, ReconstructState,
     RefreshState, AdvanceReceipts, StateLoaded, SynchronizeState, StateSynchronized,
     ValidateCurrent, AppendRollback, RecordRollback, RefuseInstallation, RemoveProvisionalSlot,
     CloseJournal, NoOpenJournal, PruneSlots
<1>2. ASSUME UpdateStep, ~CommitUpdate, ~Transition
      PROVE  FALSE
  BY <1>2 DEF UpdateStep, Prologue, Choose, Activate, Epilogue, InitializeState, Stop,
     CreateTransactionPaths, CreateJournal, AuthenticateMetadata, RefreshMetadata,
     Select, RefuseSelection, FindOrPersistReceipt, AdvanceState, Throw, ConfirmCurrent,
     PreparedRollback, PlacePending, PlaceSlot, ActivationCommitted,
     RefuseCandidate, RecordActivation, CleanupTransaction, PruneSuperseded, Finish
<1>3. ~Transition
  BY TransitionTable DEF Transition
<1>4. ASSUME Unlink \/ Start \/ Fail \/ DamageSlot \/ LoseState \/ Crash \/ UNCHANGED vars
      PROVE  pc = "committed" /\ chain' = chain /\ cand' = cand
  BY <1>4 DEF Unlink, Start, Fail, Throw, DamageSlot, LoseState, Crash, vars
<1>5. QED
  BY <1>1, <1>2, <1>3, <1>4 DEF Next, Launcher

(* Lemma: a journal that names no generation and is not about to commit is *)
(* sound whatever the chain; a closed one if it was sound before.          *)
LEMMA EarlySound ==
  ASSUME NEW t, NEW j \in Journal, j.generation = 0, j.phase \in 0 .. PrepareActivation
  PROVE  Sound(t, j)
  BY DEF Sound, Recover, CommitActivation, PrepareActivation, ValidateProvisionalSlot

(* Lemma: closing a sound journal leaves it sound.                         *)
LEMMA ClosedSound ==
  ASSUME NEW t, NEW j \in Journal, Sound(t, j)
  PROVE  Sound(t, Closed(j))
<1> DEFINE k == Closed(j)
<1>1. k.phase = Recover /\ k.generation = j.generation /\ (j.generation # 0 => k.rel = j.rel)
  BY DEF Closed
<1> HIDE DEF k
<1>2. k.generation # 0 => NamesCommitted(t, k)
  BY <1>1 DEF Sound, NamesCommitted, Matches
<1>3. QED
  BY <1>1, <1>2 DEF Sound, k

(* Lemma: what is sound now stays so when the chain grows by a rollback.   *)
LEMMA RollbackKeepsSound ==
  ASSUME InstallInv, LedgerInv, ChainInv, AppendRollback, NEW t, NEW j \in Journal, Sound(t, j)
  PROVE  Sound(t, j)'
<1> DEFINE n == Len(chain)
           e == Rollback(chain)
<1>1. n > 1 /\ chain' = Append(chain, e)
  BY RollbackAppended
<1>2. chain \in Seq(Activation) /\ DOMAIN chain = 1 .. n /\ n \in Nat /\ drawn \in Nat
  BY LedgerTypes DEF InstallInv, TypeOK
<1>3. e \in Activation /\ e.reason = "rollback"
  BY <1>1, <1>2, RollbackChain DEF ChainInv
<1> HIDE DEF e
<1>4. /\ DOMAIN chain' = 1 .. n + 1 /\ chain'[n + 1] = e
      /\ \A g \in 1 .. n : chain'[g] = chain[g] /\ g \in 1 .. n + 1
      /\ \A g \in 1 .. n + 1 : g \in 1 .. n \/ g = n + 1
  BY <1>1, <1>2, <1>3, Appended
<1>5. Related(j)' = Related(j)
  BY <1>2, <1>3, <1>4 DEF Related
<1>6. \A g \in 1 .. n : Matches(g, t, j)' <=> Matches(g, t, j)
  BY <1>4 DEF Matches
<1>7. NamesCommitted(t, j) => NamesCommitted(t, j)'
  BY <1>2, <1>4, <1>6 DEF NamesCommitted
<1>8. ASSUME NEW g \in DOMAIN chain, Related(j) = {g}, Matches(g, t, j)
      PROVE  \E h \in DOMAIN chain' : Related(j)' = {h} /\ Matches(h, t, j)'
  BY <1>2, <1>4, <1>5, <1>6, <1>8
<1>9. QED
  BY <1>5, <1>7, <1>8 DEF Sound

(* Lemma: nor does a commit make a closed journal unsound, nor its own.    *)
LEMMA CommitKeepsSound ==
  ASSUME InstallInv, PhaseInv, PlacedInv, CommitUpdate, NEW t \in DOMAIN journals,
         Sound(t, journals[t])
  PROVE  \A j \in Journal : j = journals[t] => Sound(t, j)'
<1> SUFFICES ASSUME NEW j \in Journal, j = journals[t]
             PROVE  Sound(t, j)'
  OBVIOUS
<1> DEFINE n == Len(chain)
           e == [reason |-> "update", rel |-> cand, seal |-> drawn]
<1>1. /\ cand \in Releases /\ e \in Activation /\ chain' = Append(chain, e)
      /\ drawn \in OpenJournals
      /\ \A g \in 1 .. n : chain[g].rel.seq < cand.seq
  BY UpdateAppended
<1>2. chain \in Seq(Activation) /\ DOMAIN chain = 1 .. n /\ n \in Nat
  BY LedgerTypes
<1>3. e.reason = "update" /\ e.rel = cand /\ e.seal = drawn
  OBVIOUS
<1> HIDE DEF e
<1>4. /\ DOMAIN chain' = 1 .. n + 1 /\ chain'[n + 1] = e
      /\ \A g \in 1 .. n : chain'[g] = chain[g] /\ g \in 1 .. n + 1
      /\ \A g \in 1 .. n + 1 : g \in 1 .. n \/ g = n + 1
  BY <1>1, <1>2, Appended
<1>5. NamesCommitted(t, j) => NamesCommitted(t, j)'
  BY <1>2, <1>4 DEF NamesCommitted, Matches
<1>6. CASE j.phase = Recover
  BY <1>5, <1>6 DEF Sound
<1>7. CASE j.phase # Recover
  <2>1. t = drawn
    <3>1. t \in OpenJournals
      BY <1>7 DEF OpenJournals
    <3>2. QED
      BY <1>1, <3>1, OneOpenJournal
  <2>2. j.phase = ValidateProvisionalSlot /\ j.rel = cand
    BY <2>1 DEF CommitUpdate, PhaseInv, UpdateSteps, Fetching
  <2>3. j.generation = 0
    BY <1>7, <2>2 DEF Sound, ValidateProvisionalSlot, CommitActivation, Journal
  <2>4. Related(j)' = {n + 1}
    <3>1. \A g \in 1 .. n : chain[g].rel.seq # cand.seq
      BY <1>1, LedgerTypes
    <3>2. n + 1 \in 1 .. n + 1
      BY <1>2
    <3>3. QED
      BY <1>3, <1>4, <2>2, <3>1, <3>2 DEF Related
  <2>5. PICK g \in 1 .. n + 1 : g = n + 1
    BY <1>2
  <2>6. Matches(g, t, j)'
    BY <1>3, <1>4, <2>1, <2>2, <2>3, <2>5 DEF Matches
  <2>7. \E h \in DOMAIN chain' : Related(j)' = {h} /\ Matches(h, t, j)'
    BY <1>4, <2>4, <2>5, <2>6
  <2>8. QED
    BY <1>7, <2>2, <2>3, <2>7
       DEF Sound, ValidateProvisionalSlot, CommitActivation, PrepareActivation, Recover
<1>8. QED
  BY <1>6, <1>7

(* Lemma: how soundness is carried over a step, journal by journal.        *)
LEMMA SoundCarried ==
  ASSUME \A t \in DOMAIN journals' : \E j \in Journal : j = journals'[t] /\ Sound(t, j)'
  PROVE  AllSound'
<1> SUFFICES ASSUME NEW t \in DOMAIN journals'
             PROVE  Sound(t, journals[t])'
  BY DEF AllSound
<1>1. PICK j \in Journal : j = journals'[t] /\ Sound(t, j)'
  OBVIOUS
<1>2. QED
  BY <1>1 DEF Sound, NamesCommitted, Matches, Related

(* Lemma: soundness depends on the chain only.                             *)
LEMMA SoundUnchanged ==
  ASSUME chain' = chain, NEW t, NEW j, Sound(t, j)
  PROVE  Sound(t, j)'
  BY DEF Sound, NamesCommitted, Matches, Related

(* Lemma: a sound record leaves every journal sound.                       *)
LEMMA WrittenSound ==
  ASSUME InstallInv, AllSound, chain' = chain, NEW t \in 1 .. drawn, NEW j \in Journal,
         SetJournal(t, j), Sound(t, j), drawn' = drawn
  PROVE  AllSound'
<1>1. /\ DOMAIN journals' = DOMAIN journals \union {t}
      /\ journals'[t] = j /\ \A u \in DOMAIN journals \ {t} : journals'[u] = journals[u]
  BY JournalWritten DEF InstallInv
<1>2. \A u \in DOMAIN journals : journals[u] \in Journal /\ Sound(u, journals[u])
  BY DEF AllSound, InstallInv, TypeOK
<1>3. ASSUME NEW u \in DOMAIN journals'
      PROVE  \E k \in Journal : k = journals'[u] /\ Sound(u, k)'
  <2>1. PICK k \in Journal : k = journals'[u] /\ Sound(u, k)
    <3>1. CASE u = t
      BY <1>1, <3>1
    <3>2. CASE u # t
      BY <1>1, <1>2, <3>2
    <3>3. QED
      BY <3>1, <3>2
  <2>2. QED
    BY <2>1, SoundUnchanged
<1>4. QED
  BY <1>3, SoundCarried

(* Lemma: the phases an update records for its candidate.                  *)
LEMMA LoggedSound ==
  ASSUME InstallInv, PhaseInv, PlacedInv, AllSound, Transition \/ Select \/ PreparedRollback
  PROVE  AllSound'
<1>1. drawn \in OpenJournals /\ pc \in UpdateSteps \ {"open"}
  BY TransitionTable DEF Transition, Select, PreparedRollback, InstallInv, RunInv, UpdateSteps
<1>2. PICK n \in 0 .. CommitActivation + 1 :
        /\ WriteJournal(drawn, [journals[drawn] EXCEPT !.phase = n, !.rel = cand])
        /\ n > PrepareActivation /\ n <= ValidateProvisionalSlot => pc \in {"placed", "health"}
        /\ n > ValidateProvisionalSlot => pc = "cleanup"
        /\ n <= PrepareActivation => pc \in Fetching \union Preparing
  <2> USE DEF CommitActivation, PrepareActivation, ValidateProvisionalSlot, Fetching, Preparing
  <2>1. CASE Transition
    <3> DEFINE n == Transitions[pc].phase
    <3>1. pc \in DOMAIN Transitions /\ Log(n)
      BY <2>1 DEF Transition
    <3>2. /\ n \in 0 .. 14
          /\ n > 10 /\ n <= 12 => pc \in {"placed", "health"}
          /\ n > 12 => pc = "cleanup"
          /\ n <= 10 => pc \in Fetching \union Preparing
      BY <3>1 DEF Transitions
    <3>3. WriteJournal(drawn, [journals[drawn] EXCEPT !.phase = n, !.rel = cand])
      BY <3>1 DEF Log
    <3>4. 0 .. 14 = 0 .. CommitActivation + 1 /\ PrepareActivation = 10 /\ ValidateProvisionalSlot = 12
      OBVIOUS
    <3>5. QED
      BY ONLY <3>2, <3>3, <3>4
  <2>2. CASE Select
    BY <2>2 DEF Select, Log, SelectArtifact
  <2>3. CASE PreparedRollback
    BY <2>3 DEF PreparedRollback, Log, PrepareRollback
  <2>4. QED
    BY <2>1, <2>2, <2>3
<1> DEFINE i == journals[drawn]
           j == [i EXCEPT !.phase = n, !.rel = cand]
<1>3. drawn \in 1 .. drawn /\ drawn \in DOMAIN journals /\ i \in Journal /\ Sound(drawn, i)
      /\ i.phase # Recover /\ i.phase \in Nat
  <2>1. drawn \in 1 .. drawn /\ drawn \in DOMAIN journals /\ i \in Journal
    BY <1>1 DEF InstallInv, TypeOK, OpenJournals
  <2>2. QED
    BY <1>1, <2>1 DEF AllSound, OpenJournals, Journal
<1>4. chain' = chain /\ drawn' = drawn
  BY DEF Transition, Select, PreparedRollback
<1>5. /\ j \in Journal /\ j.phase = n /\ j.rel = cand /\ j.generation = i.generation
      /\ j.generation \in Nat
  <2>1. n \in 0 .. Recover /\ cand \in Releases \union {NoRelease}
    BY DEF CommitActivation, Recover, InstallInv, TypeOK
  <2>2. j \in Journal
    BY <1>3, <2>1, JournalRecords
  <2>3. QED
    BY <1>3, <2>2 DEF Journal
<1> HIDE DEF j
<1>6. CASE n <= PrepareActivation
  <2>1. i.phase < CommitActivation
    <3>1. i.phase < SelectArtifact \/ i.phase \in SelectArtifact .. PrepareActivation - 1
      BY <1>2, <1>6 DEF PhaseInv
    <3>2. QED
      BY <1>3, <3>1 DEF SelectArtifact, PrepareActivation, CommitActivation
  <2>2. j.generation = 0
    BY <1>3, <1>5, <2>1 DEF Sound, CommitActivation
  <2>3. Sound(drawn, j)
    BY <1>5, <1>6, <2>2, EarlySound DEF PrepareActivation
  <2>4. QED
    BY <1>2, <1>3, <1>4, <1>5, <2>3, WrittenSound DEF j, WriteJournal
<1>7. CASE n > PrepareActivation /\ n <= ValidateProvisionalSlot
  <2>1. pc \in {"placed", "health"}
    BY <1>2, <1>7
  <2>2. i.phase < CommitActivation
    BY <2>1 DEF PhaseInv, PrepareActivation, CommitActivation
  <2>3. j.generation = 0
    BY <1>3, <1>5, <2>2 DEF Sound, CommitActivation
  <2>4. Fresh(cand) /\ cand \in Releases
    BY <2>1 DEF PlacedInv, Placing, InstallInv, CandidateInv, UpdateSteps
  <2>5. Related(j) = {}
    BY <1>5, <2>4, LedgerTypes DEF Related, Fresh
  <2>6. Sound(drawn, j)
    BY <1>5, <1>7, <2>3, <2>5 DEF Sound, ValidateProvisionalSlot, CommitActivation, PrepareActivation
  <2>7. QED
    BY <1>2, <1>3, <1>4, <1>5, <2>6, WrittenSound DEF j, WriteJournal
<1>8. CASE n > ValidateProvisionalSlot
  <2>1. pc = "cleanup"
    BY <1>2, <1>8
  <2>2. i.phase = CommitActivation /\ i.rel = cand
    BY <2>1 DEF PhaseInv, UpdateSteps, Fetching
  <2>3. i.generation # 0 /\ NamesCommitted(drawn, i)
    BY <1>3, <2>2 DEF Sound, CommitActivation
  <2>4. NamesCommitted(drawn, j)
    BY <1>5, <2>2, <2>3 DEF NamesCommitted, Matches
  <2>5. Sound(drawn, j)
    BY <1>5, <1>8, <2>3, <2>4 DEF Sound, ValidateProvisionalSlot, CommitActivation, PrepareActivation
  <2>6. QED
    BY <1>2, <1>3, <1>4, <1>5, <2>5, WrittenSound DEF j, WriteJournal
<1>9. QED
  BY <1>6, <1>7, <1>8 DEF ValidateProvisionalSlot, PrepareActivation

(* Lemma: the other records of an update and of recovery.                  *)
(* Lemma: the commit record names the activation that was just committed.  *)
LEMMA CommitRecordSound ==
  ASSUME InstallInv, PhaseInv, JournalInv, ActivationCommitted
  PROVE  AllSound'
<1> DEFINE i == journals[drawn]
           n == Len(chain)
           j == [i EXCEPT !.phase = CommitActivation, !.generation = n]
<1>1. /\ pc = "committed" /\ chain' = chain /\ drawn' = drawn
      /\ WriteJournal(drawn, j)
  BY DEF ActivationCommitted
<1>2. /\ drawn \in OpenJournals /\ i.phase = ValidateProvisionalSlot /\ i.rel = cand
      /\ n \in DOMAIN chain /\ n # 0
      /\ chain[n].reason = "update" /\ chain[n].rel = cand /\ chain[n].seal = drawn
  BY <1>1, LedgerTypes DEF InstallInv, RunInv, CommitInv, PhaseInv, JournalInv, UpdateSteps, Fetching
<1>3. drawn \in 1 .. drawn /\ i \in Journal
  BY <1>2 DEF InstallInv, TypeOK, OpenJournals
<1>4. j \in Journal
  <2>1. CommitActivation \in 0 .. Recover /\ n \in Nat
    BY LedgerTypes DEF CommitActivation, Recover
  <2>2. QED
    BY <1>3, <2>1, JournalRecords
<1>5. j.phase = CommitActivation /\ j.rel = cand /\ j.generation = n
  BY <1>2, <1>3 DEF Journal
<1> HIDE DEF j
<1>6. NamesCommitted(drawn, j)
  BY <1>2, <1>5 DEF NamesCommitted, Matches
<1>7. Sound(drawn, j)
  BY <1>2, <1>5, <1>6 DEF Sound, CommitActivation, PrepareActivation, ValidateProvisionalSlot
<1>8. QED
  BY <1>1, <1>3, <1>4, <1>7, WrittenSound DEF JournalInv, WriteJournal

(* Lemma: recovery's records for an empty journal and for a commit gap.    *)
LEMMA MaterializedSound ==
  ASSUME InstallInv, PlannedInv, AllSound, Materialize
  PROVE  AllSound'
<1>1. chain' = chain /\ drawn' = drawn
  BY DEF Materialize
<1>2. CASE plan \notin {"empty", "commit-gap"}
  <2>1. journals' = journals
    BY <1>2 DEF Materialize
  <2>2. QED
    BY <1>1, <2>1 DEF AllSound, Sound, NamesCommitted, Matches, Related
<1>3. CASE plan \in {"empty", "commit-gap"}
  <2>1. PICK t \in OpenJournals, j \in Journal :
          /\ t \in 1 .. drawn
          /\ WriteJournal(t, j) /\ j.rel = journals[t].rel
          /\ \/ /\ journals[t].phase = EmptyJournal
                /\ j.phase = 1 /\ j.generation = journals[t].generation
             \/ /\ journals[t].phase = ValidateProvisionalSlot
                /\ j.phase = CommitActivation /\ j.generation \in Related(journals[t])
    BY <1>3, MaterializeWrites
  <2>2. Sound(t, journals[t]) /\ journals[t].phase # Recover /\ t \in DOMAIN journals
    BY DEF AllSound, OpenJournals
  <2>3. CASE journals[t].phase = EmptyJournal
    <3>1. j.phase = 1 /\ j.generation = 0
      BY <2>1, <2>2, <2>3 DEF Sound, EmptyJournal, ValidateProvisionalSlot, CommitActivation
    <3>2. Sound(t, j)
      BY <3>1, EarlySound DEF PrepareActivation
    <3>3. QED
      BY <1>1, <2>1, <3>2, WrittenSound DEF WriteJournal
  <2>4. CASE journals[t].phase = ValidateProvisionalSlot
    <3>1. j.phase = CommitActivation /\ j.generation \in Related(journals[t])
      BY <2>1, <2>4 DEF EmptyJournal, ValidateProvisionalSlot
    <3>2. PICK g \in DOMAIN chain : Related(journals[t]) = {g} /\ Matches(g, t, journals[t])
      BY <2>2, <2>4, <3>1 DEF Sound, ValidateProvisionalSlot
    <3>3. j.generation = g /\ Matches(g, t, j) /\ g # 0
      BY <2>1, <3>1, <3>2, LedgerTypes DEF Matches
    <3>4. NamesCommitted(t, j)
      BY <3>2, <3>3 DEF NamesCommitted
    <3>5. Sound(t, j)
      BY <3>1, <3>3, <3>4 DEF Sound, CommitActivation, PrepareActivation, ValidateProvisionalSlot
    <3>6. QED
      BY <1>1, <2>1, <3>5, WrittenSound DEF WriteJournal
  <2>5. QED
    BY <2>1, <2>3, <2>4
<1>4. QED
  BY <1>2, <1>3

(* Lemma: the last record of recovery and of an update.                    *)
LEMMA ClosingSound ==
  ASSUME InstallInv, AllSound, CloseJournal \/ Finish
  PROVE  AllSound'
<1>1. PICK t \in OpenJournals : WriteJournal(t, Closed(journals[t]))
  <2>1. CASE CloseJournal
    BY <2>1 DEF CloseJournal
  <2>2. CASE Finish
    <3>1. pc \in {"leave", "recover"} /\ WriteJournal(drawn, Closed(journals[drawn]))
      BY <2>2 DEF Finish
    <3>2. drawn \in OpenJournals
      BY <3>1 DEF InstallInv, RunInv, UpdateSteps
    <3>3. QED
      BY <3>1, <3>2
  <2>3. QED
    BY <2>1, <2>2
<1>2. /\ t \in 1 .. drawn /\ journals[t] \in Journal /\ Sound(t, journals[t])
  BY DEF InstallInv, TypeOK, OpenJournals, AllSound
<1>3. Closed(journals[t]) \in Journal /\ Sound(t, Closed(journals[t]))
  BY <1>2, ClosedJournal, ClosedSound
<1>4. chain' = chain /\ drawn' = drawn
  BY DEF CloseJournal, Finish, trees
<1>5. QED
  BY <1>1, <1>2, <1>3, <1>4, WrittenSound DEF WriteJournal

(* Lemma: a new journal.                                                   *)
LEMMA CreatedSound ==
  ASSUME InstallInv, AllSound, CreateJournal
  PROVE  AllSound'
<1> DEFINE j == [phase |-> EmptyJournal, rel |-> NoRelease, generation |-> 0]
<1>1. SetJournal(drawn, j) /\ chain' = chain /\ drawn' = drawn /\ pc = "open"
  BY DEF CreateJournal
<1>2. drawn \in 1 .. drawn
  BY <1>1 DEF InstallInv, RunInv, TypeOK
<1>3. j \in Journal /\ j.generation = 0 /\ j.phase \in 0 .. PrepareActivation
  BY DEF Journal, EmptyJournal, Recover, PrepareActivation
<1> HIDE DEF j
<1>4. Sound(drawn, j)
  BY <1>3, EarlySound
<1>5. QED
  BY <1>1, <1>2, <1>3, <1>4, WrittenSound

(* Theorem: every journal is sound in every reachable state.               *)
THEOREM JournalInvariant == Spec => []JournalInv
<1>1. Init => JournalInv
  BY DEF Init, JournalInv, AllSound
<1>2. ASSUME InstallInv, LedgerInv, ChainInv, PhaseInv, PlacedInv, PlannedInv, JournalInv,
             [Next]_vars
      PROVE  JournalInv'
  <2>1. AllSound'
    <3>1. AllSound
      BY <1>2 DEF JournalInv
    <3>2. \A t \in DOMAIN journals : journals[t] \in Journal /\ Sound(t, journals[t])
      BY <1>2, <3>1 DEF AllSound, InstallInv, TypeOK
    <3>3. CASE journals' = journals /\ chain' = chain
      BY <3>1, <3>3 DEF AllSound, Sound, NamesCommitted, Matches, Related
    <3>4. CASE journals' = journals /\ AppendRollback
      <4>1. \A t \in DOMAIN journals, j \in Journal : Sound(t, j) => Sound(t, j)'
        BY <1>2, <3>4, RollbackKeepsSound
      <4>2. QED
        BY <3>2, <3>4, <4>1, SoundCarried
    <3>5. CASE journals' = journals /\ CommitUpdate
      <4>1. \A t \in DOMAIN journals, j \in Journal : j = journals[t] => Sound(t, j)'
        BY <1>2, <3>2, <3>5, CommitKeepsSound
      <4>2. QED
        BY <3>2, <3>5, <4>1, SoundCarried
    <3>6. CASE Materialize \/ CloseJournal \/ CreateJournal \/ Finish
      BY <1>2, <3>1, <3>6, MaterializedSound, ClosingSound, CreatedSound
    <3>7. CASE Transition \/ Select \/ PreparedRollback \/ ActivationCommitted
      BY <1>2, <3>1, <3>7, LoggedSound, CommitRecordSound
    <3>8. QED
      BY <1>2, <3>3, <3>4, <3>5, <3>6, <3>7, JournalSteps, ChainSteps
  <2>2. ASSUME pc' = "committed"
        PROVE  chain'[Len(chain')].reason = "update" /\ chain'[Len(chain')].rel = cand'
    <3>1. CASE CommitUpdate
      <4> DEFINE e == [reason |-> "update", rel |-> cand, seal |-> drawn]
      <4>1. chain' = Append(chain, e) /\ e \in Activation /\ cand' = cand
        BY <1>2, <3>1, UpdateAppended DEF CommitUpdate, memory
      <4>2. e.reason = "update" /\ e.rel = cand
        OBVIOUS
      <4>3. chain \in Seq(Activation)
        BY <1>2, LedgerTypes
      <4> HIDE DEF e
      <4>4. chain'[Len(chain')] = e
        BY <4>1, <4>3, Appended
      <4>5. QED
        BY <4>1, <4>2, <4>4
    <3>2. CASE pc = "committed" /\ chain' = chain /\ cand' = cand
      BY <1>2, <3>2 DEF JournalInv
    <3>3. QED
      BY <1>2, <2>2, <3>1, <3>2, CommittedSteps
  <2>3. QED
    BY <2>1, <2>2 DEF JournalInv
<1>3. QED
  BY <1>1, <1>2, InstallInvariant, LedgerInvariant, ChainInvariant, PhaseInvariant,
     PlacedInvariant, PlannedInvariant, PTL DEF Spec

-----------------------------------------------------------------------------
(* Slots against the chain: a slot that belongs to no activation belongs   *)
(* to the open journal's candidate, and recovery removes it.               *)

Placed == {r \in Releases : slots[r] # 0}
Claimed == {journals[t].rel : t \in {u \in OpenJournals : journals[u].phase >= PrepareActivation}}

SlotInv ==
  /\ Placed \subseteq Activated \union Claimed
  /\ pc \in {"close", "prune", "ready"} => Placed \subseteq Activated

(* Lemma: a claim lasts until its release is activated or its slot gone.   *)
LEMMA ClaimsLast ==
  ASSUME InstallInv, PhaseInv, PlannedInv, JournalInv, [Next]_vars, ~CloseJournal
  PROVE  Claimed \subseteq Activated \union Claimed'
<1> SUFFICES ASSUME NEW t \in OpenJournals, journals[t].phase >= PrepareActivation,
                    journals[t].rel \notin Activated
             PROVE  journals[t].rel \in Claimed'
  BY DEF Claimed
<1>1. /\ OpenJournals = {t} /\ t \in DOMAIN journals /\ t \in 1 .. drawn
      /\ journals[t] \in Journal /\ journals[t].phase \in Nat /\ Sound(t, journals[t])
      /\ journals[t].phase # Recover
  <2>1. t \in DOMAIN journals /\ t \in 1 .. drawn /\ journals[t] \in Journal
        /\ journals[t].phase # Recover
    BY DEF OpenJournals, InstallInv, TypeOK
  <2>2. QED
    BY <2>1, OneOpenJournal DEF JournalInv, AllSound, Journal
<1>2. ASSUME NEW j \in Journal, WriteJournal(t, j), j.rel = journals[t].rel,
             j.phase \in PrepareActivation .. Recover - 1
      PROVE  journals[t].rel \in Claimed'
  <2>1. DOMAIN journals' = DOMAIN journals \union {t} /\ journals'[t] = j
    BY <1>2 DEF WriteJournal, SetJournal
  <2>2. j.phase >= PrepareActivation /\ j.phase # Recover
    BY <1>2 DEF PrepareActivation, Recover
  <2>3. t \in OpenJournals' /\ journals'[t].phase >= PrepareActivation
    BY <2>1, <2>2 DEF OpenJournals
  <2>4. QED
    BY <1>2, <2>1, <2>3 DEF Claimed
<1>3. CASE journals' = journals
  BY <1>3 DEF Claimed, OpenJournals
<1>4. CASE Materialize /\ plan \in {"empty", "commit-gap"}
  <2>1. PICK u \in OpenJournals, j \in Journal :
          /\ WriteJournal(u, j) /\ j.rel = journals[u].rel
          /\ journals[u].phase = EmptyJournal \/ j.phase = CommitActivation
    BY <1>4, MaterializeWrites
  <2>2. u = t /\ j.phase = CommitActivation
    BY <1>1, <2>1 DEF EmptyJournal, PrepareActivation
  <2>3. QED
    BY <1>2, <2>1, <2>2 DEF CommitActivation, PrepareActivation, Recover
<1>5. CASE CreateJournal
  BY <1>1, <1>5 DEF CreateJournal, InstallInv, RunInv
<1>6. CASE Transition \/ Select \/ PreparedRollback
  <2>1. /\ drawn \in OpenJournals /\ pc \in UpdateSteps \ {"open"}
    BY <1>6, TransitionTable DEF Transition, Select, PreparedRollback, InstallInv, RunInv, UpdateSteps
  <2>2. t = drawn
    BY <1>1, <2>1
  <2>3. pc \notin Fetching \union Preparing
    BY <1>1, <2>2 DEF PhaseInv, SelectArtifact, PrepareActivation
  <2>4. Transition /\ pc \in {"placed", "health", "cleanup"}
    BY <1>6, <2>3 DEF Fetching, Preparing, Transition, Transitions, Select, PreparedRollback
  <2> DEFINE n == Transitions[pc].phase
             j == [journals[t] EXCEPT !.phase = n, !.rel = cand]
  <2>5. n \in PrepareActivation .. Recover - 1 /\ WriteJournal(t, j)
    <3>1. Log(n)
      BY <2>4 DEF Transition
    <3>2. n \in PrepareActivation .. Recover - 1
      BY <2>4 DEF Transitions, PrepareActivation, Recover, ValidateProvisionalSlot
    <3>3. QED
      BY <2>2, <3>1, <3>2 DEF Log
  <2>6. journals[t].rel = cand
    BY <2>2, <2>4 DEF PhaseInv, UpdateSteps, Fetching
  <2>7. /\ j \in Journal /\ j.phase = n /\ j.rel = journals[t].rel
    <3> HIDE DEF n
    <3>1. n \in 0 .. Recover /\ cand \in Releases \union {NoRelease}
      BY <2>5 DEF PrepareActivation, Recover, InstallInv, TypeOK
    <3>2. j \in Journal
      BY <1>1, <3>1, JournalRecords
    <3>3. QED
      BY <1>1, <2>6, <3>2 DEF Journal
  <2> HIDE DEF j, n
  <2>8. QED
    BY <1>2, <2>5, <2>7
<1>7. CASE ActivationCommitted
  <2>1. drawn \in OpenJournals
    BY <1>7 DEF ActivationCommitted, InstallInv, RunInv, UpdateSteps
  <2> DEFINE j == [journals[t] EXCEPT !.phase = CommitActivation, !.generation = Len(chain)]
  <2>2. WriteJournal(t, j)
    BY <1>1, <1>7, <2>1 DEF ActivationCommitted
  <2>3. j \in Journal
    <3>1. CommitActivation \in 0 .. Recover /\ Len(chain) \in Nat
      BY LedgerTypes DEF CommitActivation, Recover
    <3>2. QED
      BY <1>1, <3>1, JournalRecords
  <2>4. j.phase = CommitActivation /\ j.rel = journals[t].rel
    BY <1>1 DEF Journal
  <2>5. j.phase \in PrepareActivation .. Recover - 1
    BY <2>4 DEF CommitActivation, PrepareActivation, Recover
  <2> HIDE DEF j
  <2>6. QED
    BY <1>2, <2>2, <2>3, <2>4, <2>5
<1>8. CASE Finish
  <2>1. drawn \in OpenJournals /\ pc \in {"leave", "recover"}
    BY <1>8 DEF Finish, InstallInv, RunInv, UpdateSteps
  <2>2. journals[t].phase = CommitActivation + 1
    BY <1>1, <2>1 DEF PhaseInv, Preparing, SelectArtifact, PrepareActivation
  <2>3. NamesCommitted(t, journals[t])
    BY <1>1, <2>2 DEF Sound, CommitActivation
  <2>4. journals[t].rel \in Activated
    BY <2>3 DEF NamesCommitted, Matches, Activated
  <2>5. QED
    BY <2>4
<1>9. CASE Materialize /\ plan \notin {"empty", "commit-gap"}
  BY <1>3, <1>9 DEF Materialize
<1>10. QED
  BY <1>3, <1>4, <1>5, <1>6, <1>7, <1>8, <1>9, JournalSteps

(* Lemma: what was activated stays activated.                              *)
LEMMA ActivatedGrows ==
  ASSUME InstallInv, LedgerInv, [Next]_vars
  PROVE  Activated \subseteq Activated'
<1>1. CASE chain' = chain
  BY <1>1 DEF Activated
<1>2. ASSUME NEW e, chain' = Append(chain, e)
      PROVE  Activated \subseteq Activated'
  <2>1. chain \in Seq(Activation) /\ DOMAIN chain = 1 .. Len(chain)
    BY LedgerTypes
  <2>2. \A g \in 1 .. Len(chain) : g \in DOMAIN chain' /\ chain'[g] = chain[g]
    BY <1>2, <2>1
  <2>3. QED
    BY <2>1, <2>2 DEF Activated
<1>3. QED
  BY <1>1, <1>2, ChainSteps DEF AppendRollback, CommitUpdate

(* Lemma: pruning gives no release a slot.                                 *)
LEMMA PruneEmpties ==
  ASSUME Prune
  PROVE  Placed' \subseteq Placed
<1>1. PICK stay : slots' = [q \in Releases |-> IF q \in Superseded \ stay THEN 0 ELSE slots[q]]
  BY DEF Prune
<1>2. QED
  BY <1>1 DEF Placed

(* Lemma: which steps lead to where recovery has removed what was left.    *)
LEMMA ClosingSteps ==
  ASSUME [Next]_vars, pc' \in {"close", "prune", "ready"}
  PROVE  \/ RemoveProvisionalSlot \/ CloseJournal \/ NoOpenJournal
         \/ pc \in {"close", "prune", "ready"} /\ (slots' = slots \/ PruneSlots)
<1> USE DEF trees
<1>1. ASSUME RecoveryStep, ~RemoveProvisionalSlot, ~CloseJournal, ~NoOpenJournal
      PROVE  pc \in {"close", "prune", "ready"} /\ (slots' = slots \/ PruneSlots)
  BY <1>1 DEF RecoveryStep, PhaseOne, PhaseTwo, Synchronize, Validate, CloseJournals, Plan,
     RefusePlan, Refuse, Materialize, CleanTemporaries, RefuseTemporaries,
     QuarantineCorruptState, ReconstructState,
     RefreshState, AdvanceReceipts, StateLoaded, SynchronizeState, StateSynchronized,
     ValidateCurrent, AppendRollback, RecordRollback, RefuseInstallation, PruneSlots
<1>2. ASSUME UpdateStep, ~Transition
      PROVE  pc \in {"close", "prune", "ready"} /\ slots' = slots
  BY <1>2 DEF UpdateStep, Prologue, Choose, Activate, Epilogue, InitializeState, Stop,
     CreateTransactionPaths, CreateJournal, AuthenticateMetadata, RefreshMetadata,
     Select, RefuseSelection, FindOrPersistReceipt, AdvanceState, Throw, ConfirmCurrent,
     PreparedRollback, PlacePending, PlaceSlot, CommitUpdate, ActivationCommitted,
     RefuseCandidate, RecordActivation, CleanupTransaction, PruneSuperseded, Finish
<1>3. ~Transition
  BY TransitionTable DEF Transition, UpdateSteps
<1>4. ASSUME Unlink \/ Start \/ Fail \/ DamageSlot \/ LoseState \/ Crash \/ UNCHANGED vars
      PROVE  pc \in {"close", "prune", "ready"} /\ slots' = slots
  BY <1>4 DEF Unlink, Start, Fail, Throw, DamageSlot, LoseState, Crash, vars
<1>5. QED
  BY <1>1, <1>2, <1>3, <1>4 DEF Next, Launcher

(* Lemma: once recovery has removed what an interrupted transaction        *)
(* placed, every slot is an activated release's.                           *)
LEMMA RemovalLeavesActivated ==
  ASSUME InstallInv, PlannedInv, JournalInv, SlotInv, RemoveProvisionalSlot
  PROVE  Placed' \subseteq Activated
<1>1. PICK t \in OpenJournals :
        IF plan = "precommit" /\ journals[t].phase >= PrepareActivation
        THEN slots' = [slots EXCEPT ![journals[t].rel] = 0]
        ELSE slots' = slots
  BY Zenon DEF RemoveProvisionalSlot
<1>2. /\ OpenJournals = {t} /\ Sound(t, journals[t]) /\ journals[t] \in Journal
      /\ journals[t].phase # Recover
  <2>1. t \in DOMAIN journals /\ journals[t] \in Journal /\ journals[t].phase # Recover
    BY DEF OpenJournals, InstallInv, TypeOK
  <2>2. QED
    BY <2>1, OneOpenJournal DEF JournalInv, AllSound
<1>3. slots \in [Releases -> Nat] /\ pc = "remove"
  BY DEF InstallInv, TypeOK, RemoveProvisionalSlot
<1>4. plan \in {"precommit", "committed"}
  <2>1. plan # "none" /\ plan # "empty" /\ plan # "commit-gap"
    BY <1>2, <1>3 DEF PlannedInv, Deciding, InstallInv, GapInv
  <2>2. QED
    BY <2>1 DEF InstallInv, TypeOK
<1>5. CASE plan = "precommit" /\ journals[t].phase >= PrepareActivation
  <2>1. slots' = [slots EXCEPT ![journals[t].rel] = 0]
    BY <1>1, <1>5
  <2>2. \A r \in Releases : slots'[r] # 0 => slots[r] # 0 /\ r # journals[t].rel
    BY <1>3, <2>1
  <2>3. Claimed \subseteq {journals[t].rel}
    BY <1>2 DEF Claimed
  <2>4. QED
    BY <2>2, <2>3 DEF Placed, SlotInv
<1>6. CASE plan = "precommit" /\ ~(journals[t].phase >= PrepareActivation)
  <2>1. slots' = slots /\ Claimed = {}
    BY <1>1, <1>2, <1>6 DEF Claimed
  <2>2. QED
    BY <2>1 DEF Placed, SlotInv
<1>7. CASE plan = "committed"
  <2>1. journals[t].phase >= CommitActivation
    BY <1>2, <1>3, <1>7 DEF PlannedInv, Deciding
  <2>2. NamesCommitted(t, journals[t])
    BY <1>2, <2>1 DEF Sound
  <2>3. journals[t].rel \in Activated
    BY <2>2 DEF NamesCommitted, Matches, Activated
  <2>4. slots' = slots /\ Claimed \subseteq Activated
    BY <1>1, <1>2, <1>7, <2>3 DEF Claimed
  <2>5. QED
    BY <2>4 DEF Placed, SlotInv
<1>8. QED
  BY <1>4, <1>5, <1>6, <1>7

(* Theorem: no slot is without an activation or a claim, and none with     *)
(* only a claim outlives recovery.                                         *)
THEOREM SlotInvariant == Spec => []SlotInv
<1>1. Init => SlotInv
  BY DEF Init, SlotInv, Placed
<1>2. ASSUME InstallInv, LedgerInv, PhaseInv, PlannedInv, JournalInv, SlotInv, [Next]_vars
      PROVE  SlotInv'
  <2>1. Activated \subseteq Activated'
    BY <1>2, ActivatedGrows
  <2>2. ASSUME pc' \in {"close", "prune", "ready"}
        PROVE  Placed' \subseteq Activated'
    <3>1. CASE RemoveProvisionalSlot
      BY <1>2, <2>1, <3>1, RemovalLeavesActivated
    <3>2. CASE CloseJournal
      BY <1>2, <2>1, <3>2 DEF CloseJournal, trees, Placed, SlotInv
    <3>3. CASE NoOpenJournal
      <4>1. Claimed = {} /\ slots' = slots
        BY <3>3 DEF NoOpenJournal, Claimed, trees
      <4>2. QED
        BY <1>2, <2>1, <4>1 DEF SlotInv, Placed
    <3>4. CASE pc \in {"close", "prune", "ready"} /\ (slots' = slots \/ PruneSlots)
      <4>1. Placed' \subseteq Placed
        BY <3>4, PruneEmpties DEF Placed, PruneSlots
      <4>2. QED
        BY <1>2, <2>1, <3>4, <4>1 DEF SlotInv
    <3>5. QED
      BY <1>2, <2>2, <3>1, <3>2, <3>3, <3>4, ClosingSteps
  <2>3. Placed' \subseteq Activated' \union Claimed'
    <3>1. CASE CloseJournal
      BY <2>2, <3>1 DEF CloseJournal
    <3>2. CASE RemoveProvisionalSlot
      BY <2>2, <3>2 DEF RemoveProvisionalSlot
    <3>3. CASE PlaceSlot
      <4>1. /\ pc = "move" /\ cand \in Releases /\ drawn \in OpenJournals
            /\ slots' = [slots EXCEPT ![cand] = drawn] /\ slots \in [Releases -> Nat]
            /\ journals' = journals
        BY <1>2, <3>3 DEF PlaceSlot, InstallInv, TypeOK, CandidateInv, RunInv, UpdateSteps, records
      <4>2. journals[drawn].phase = PrepareActivation /\ journals[drawn].rel = cand
        BY <1>2, <4>1 DEF PhaseInv, UpdateSteps, Fetching
      <4>3. cand \in Claimed /\ Claimed' = Claimed
        BY <4>1, <4>2 DEF Claimed, OpenJournals, PrepareActivation
      <4>4. Placed' \subseteq Placed \union {cand}
        BY <4>1 DEF Placed
      <4>5. QED
        BY <1>2, <2>1, <4>3, <4>4 DEF SlotInv
    <3>4. CASE ~CloseJournal /\ (slots' = slots \/ PruneSlots \/ PruneSuperseded)
      <4>1. Placed' \subseteq Placed
        BY <3>4, PruneEmpties DEF Placed, PruneSlots, PruneSuperseded
      <4>2. Claimed \subseteq Activated \union Claimed'
        BY <1>2, <3>4, ClaimsLast
      <4>3. QED
        BY <1>2, <2>1, <4>1, <4>2 DEF SlotInv
    <3>5. QED
      BY <1>2, <3>1, <3>2, <3>3, <3>4, SlotSteps
  <2>4. QED
    BY <2>2, <2>3 DEF SlotInv
<1>3. QED
  BY <1>1, <1>2, InstallInvariant, LedgerInvariant, PhaseInvariant, PlannedInvariant,
     JournalInvariant, PTL DEF Spec

(* When recovery lets an update begin, no journal is open and nothing of   *)
(* an uncommitted transaction is left on disk.                             *)
THEOREM InstallLeavesNothing == Spec => []NothingLeftBehind
<1>1. InstallInv /\ CleanInv /\ SlotInv => NothingLeftBehind
  BY DEF InstallInv, RunInv, CleanInv, Settled, SlotInv, Placed, NothingLeftBehind
<1>2. QED
  BY <1>1, InstallInvariant, CleanInvariant, SlotInvariant, PTL

-----------------------------------------------------------------------------
(* The installation an update begins from.                                 *)

CurrentWhole == chain # <<>> => Valid(Len(chain), Revoked(Len(checkpoints)))

ValidInv == pc \in Settled \union {"rolledback"} /\ stateFile = "readable" => CurrentWhole

(* Lemma: how recovery comes to the end, and with what.                    *)
LEMMA SettlingSteps ==
  ASSUME LedgerInv, [Next]_vars, pc' \in Settled \union {"rolledback"}, stateFile' = "readable"
  PROVE  \/ ValidateCurrent \/ AppendRollback \/ InitializeState
         \/ /\ pc \in Settled \union {"rolledback"} /\ stateFile = "readable"
            /\ UNCHANGED <<chain, checkpoints>>
            /\ UNCHANGED <<slots, damaged>> \/ RemoveProvisionalSlot \/ Prune
<1> USE DEF trees, records, Settled
<1> DEFINE Q == /\ pc \in Settled \union {"rolledback"} /\ stateFile = "readable"
                /\ UNCHANGED <<chain, checkpoints>>
                /\ UNCHANGED <<slots, damaged>> \/ RemoveProvisionalSlot \/ Prune
<1>1. ASSUME RecoveryStep, ~ValidateCurrent, ~AppendRollback
      PROVE  Q
  <2>1. CASE RemoveProvisionalSlot
    <3>1. pc = "remove" /\ UNCHANGED <<stateFile, chain, checkpoints>>
      BY <2>1 DEF RemoveProvisionalSlot
    <3>2. QED
      BY <2>1, <3>1
  <2>2. CASE PruneSlots
    BY <2>2 DEF PruneSlots
  <2>3. CASE RecordRollback \/ CloseJournal \/ NoOpenJournal
    BY <2>3 DEF RecordRollback, CloseJournal, NoOpenJournal, LedgerInv, ReadInv, Loaded
  <2>4. CASE PhaseOne \/ PhaseTwo \/ Synchronize \/ RefuseInstallation
    BY <2>4 DEF PhaseOne, PhaseTwo, Synchronize, Plan, RefusePlan, Refuse, Materialize,
       CleanTemporaries, RefuseTemporaries,
       QuarantineCorruptState, ReconstructState, RefreshState, AdvanceReceipts,
       StateLoaded, SynchronizeState, StateSynchronized, RefuseInstallation
  <2>5. QED
    BY <1>1, <2>1, <2>2, <2>3, <2>4 DEF RecoveryStep, Validate, CloseJournals
<1>2. ASSUME UpdateStep, ~Transition, ~InitializeState
      PROVE  Q
  BY <1>2 DEF UpdateStep, Prologue, Choose, Activate, Epilogue, Stop,
     CreateTransactionPaths, CreateJournal, AuthenticateMetadata, RefreshMetadata,
     Select, RefuseSelection, FindOrPersistReceipt, AdvanceState, Throw, ConfirmCurrent,
     PreparedRollback, PlacePending, PlaceSlot, CommitUpdate, ActivationCommitted,
     RefuseCandidate, RecordActivation, CleanupTransaction, PruneSuperseded, Finish
<1>3. ~Transition
  BY TransitionTable DEF Transition, UpdateSteps
<1>4. ASSUME Unlink \/ Start \/ Fail \/ DamageSlot \/ LoseState \/ Crash \/ UNCHANGED vars
      PROVE  Q
  BY <1>4 DEF Unlink, Start, Fail, Throw, DamageSlot, LoseState, Crash, vars
<1>5. QED
  BY <1>1, <1>2, <1>3, <1>4 DEF Next, Launcher

(* Theorem: recovery does not go on unless the current activation is       *)
(* whole.                                                                  *)
THEOREM ValidInvariant == Spec => []ValidInv
<1>1. Init => ValidInv
  BY DEF Init, ValidInv, Settled
<1>2. ASSUME InstallInv, LedgerInv, ChainInv, ValidInv, [Next]_vars
      PROVE  ValidInv'
  <2> SUFFICES ASSUME pc' \in Settled \union {"rolledback"}, stateFile' = "readable"
               PROVE  CurrentWhole'
    BY DEF ValidInv
  <2>1. CASE ValidateCurrent
    <3>1. pc = "validate" /\ UNCHANGED <<chain, checkpoints, slots, damaged, stateFile>>
      BY <2>1 DEF ValidateCurrent, records, trees
    <3>2. state.checkpoint = Len(checkpoints)
      BY <1>2, <3>1 DEF LedgerInv, CheckpointLag, Loaded
    <3>3. CurrentWhole
      BY <2>1, <3>2 DEF ValidateCurrent, CurrentValid, CurrentWhole
    <3>4. QED
      BY <3>1, <3>3 DEF CurrentWhole, Valid, Installed, Revoked
  <2>2. CASE AppendRollback
    <3> DEFINE n == Len(chain)
               e == Rollback(chain)
    <3>1. n > 1 /\ chain' = Append(chain, e) /\ Valid(n - 1, Revoked(Len(checkpoints)))
      BY <1>2, <2>2, RollbackAppended
    <3>2. chain \in Seq(Activation) /\ drawn \in Nat
      BY <1>2, LedgerTypes DEF InstallInv, TypeOK
    <3>3. e \in Activation /\ e.rel = chain[n - 1].rel /\ e.seal = chain[n - 1].seal
      BY <1>2, <3>1, <3>2, RollbackChain DEF ChainInv
    <3> HIDE DEF e
    <3>4. chain'[Len(chain')] = e
      BY <3>1, <3>2, <3>3, Appended
    <3>5. UNCHANGED <<checkpoints, slots, damaged>>
      BY <2>2 DEF AppendRollback, trees
    <3>6. /\ e.rel \notin Revoked(Len(checkpoints))
          /\ slots[e.rel] = e.seal /\ e.rel \notin damaged
      BY <3>1, <3>3 DEF Valid, Installed
    <3>7. QED
      BY <3>4, <3>5, <3>6 DEF CurrentWhole, Valid, Installed, Revoked
  <2>3. CASE InitializeState
    BY <2>3 DEF InitializeState, PristineLayout, CurrentWhole
  <2>4. CASE /\ pc \in Settled \union {"rolledback"} /\ stateFile = "readable"
             /\ UNCHANGED <<chain, checkpoints>>
             /\ UNCHANGED <<slots, damaged>> \/ RemoveProvisionalSlot \/ Prune
    <3> SUFFICES ASSUME chain # <<>>
                 PROVE  Valid(Len(chain), Revoked(Len(checkpoints)))'
      BY <2>4 DEF CurrentWhole
    <3> DEFINE n == Len(chain)
               r == chain[n].rel
    <3>1. Valid(n, Revoked(Len(checkpoints)))
      BY <1>2, <2>4 DEF ValidInv, CurrentWhole
    <3>2. n \in 1 .. n /\ r \in Releases /\ r \in Activated
      BY <1>2, LedgerTypes DEF Activated
    <3>3. Target(n)
      BY <3>2, LedgerTypes, <1>2 DEF Target
    <3>4. r \in Kept
      BY <1>2, <3>2, <3>3, TargetKept
    <3>5. slots'[r] = slots[r] /\ (r \notin damaged => r \notin damaged')
      BY <1>2, <2>4, <3>2, <3>4, PruneKeepsTargets, RemovalKeepsActivated
    <3>6. QED
      BY <2>4, <3>1, <3>5 DEF Valid, Installed, Revoked
  <2>5. QED
    BY <1>2, <2>1, <2>2, <2>3, <2>4, SettlingSteps
<1>3. QED
  BY <1>1, <1>2, InstallInvariant, LedgerInvariant, ChainInvariant, PTL DEF Spec

(* When recovery lets an update begin, the current activation is whole and *)
(* not revoked, and the state agrees with every store it summarises.       *)
THEOREM InstallRecovered == Spec => []RecoveredInstallation
<1>1. InstallInv /\ LedgerInv /\ ValidInv => RecoveredInstallation
  <2> SUFFICES ASSUME InstallInv, LedgerInv, ValidInv, pc = "ready", stateFile = "readable"
               PROVE  /\ chain # <<>> => Valid(Len(chain), Revoked(Len(checkpoints)))
                      /\ state.current = Len(chain)
                      /\ state.checkpoint = Len(checkpoints)
                      /\ MaxAuthenticated(state) = Highest(Seqs(receipts))
                      /\ state.maxActivated = MaxActivatedIn(chain)
    BY DEF RecoveredInstallation
  <2>1. state.current = Len(chain) /\ state.maxActivated = Floor(chain, state.current)
    BY DEF LedgerInv, ActivationLag, Settled
  <2>2. state.checkpoint = Len(checkpoints)
    BY DEF LedgerInv, CheckpointLag, Settled
  <2>3. receipts = state.known
    BY DEF LedgerInv, ReceiptLag, Settled
  <2>4. state.maxActivated = MaxActivatedIn(chain)
    BY <2>1, LedgerTypes, FloorOfChain
  <2>5. chain # <<>> => Valid(Len(chain), Revoked(Len(checkpoints)))
    BY DEF ValidInv, CurrentWhole, Settled
  <2>6. QED
    BY <2>1, <2>2, <2>3, <2>4, <2>5 DEF MaxAuthenticated
<1>2. QED
  BY <1>1, InstallInvariant, LedgerInvariant, ValidInvariant, PTL

(* Lemma: a sound journal is accepted, but when its release was activated  *)
(* before it was offered to it.                                            *)
LEMMA SoundAccepted ==
  ASSUME NEW t, NEW j \in Journal, Sound(t, j), j.phase = PrepareActivation => Related(j) = {}
  PROVE  JournalAccepted(t, j)
<1> USE DEF Recover, PrepareActivation, ValidateProvisionalSlot, CommitActivation
<1>1. j.phase \in 0 .. Recover
  BY DEF Journal
<1>2. CASE j.phase < PrepareActivation
  BY <1>2 DEF JournalAccepted
<1>3. CASE j.phase = Recover
  BY <1>3 DEF JournalAccepted, Sound
<1>4. CASE j.phase \in PrepareActivation .. ValidateProvisionalSlot - 1
  <2>1. Related(j) = {}
    BY <1>4 DEF Sound
  <2>2. QED
    BY <1>4, <2>1 DEF JournalAccepted
<1>5. CASE j.phase = ValidateProvisionalSlot
  BY <1>5 DEF JournalAccepted, Sound
<1>6. CASE j.phase \in CommitActivation .. Recover - 1
  <2>1. NamesCommitted(t, j)
    BY <1>6 DEF Sound
  <2>2. QED
    BY <1>6, <2>1 DEF JournalAccepted
<1>7. QED
  BY <1>1, <1>2, <1>3, <1>4, <1>5, <1>6

(* Lemma: planJournalRecovery never finds two open journals.               *)
LEMMA FewOpenJournals == InstallInv => Cardinality(OpenJournals) <= 1
<1>1. InstallInv => OpenJournals = {} \/ \E t \in OpenJournals : OpenJournals = {t}
  BY OneOpenJournal
<1>2. Cardinality({}) = 0 /\ \A t : Cardinality({t}) = 1
  BY FS_EmptySet, FS_Singleton
<1>3. QED
  BY <1>1, <1>2

(* Whatever crashes, failures and damage left on disk, the next run's      *)
(* read-only phase accepts it, but for the three refusals.                 *)
THEOREM InstallPlanAccepts == Spec => []PlanAccepts
<1>1. InstallInv /\ LedgerInv /\ VersionInv /\ JournalInv => PlanAccepts
  <2> SUFFICES ASSUME InstallInv, LedgerInv, VersionInv, JournalInv,
                      torn \ {"state"} = {}, ~NothingToRebuild, ~Reoffered
               PROVE  Accepted
    BY DEF PlanAccepts
  <2>1. torn \subseteq {"state"}
    OBVIOUS
  <2>2. Cardinality(OpenJournals) <= 1
    BY FewOpenJournals
  <2>3. ASSUME NEW t \in DOMAIN journals
        PROVE  JournalAccepted(t, journals[t])
    <3>1. Sound(t, journals[t]) /\ journals[t] \in Journal
      BY DEF JournalInv, AllSound, InstallInv, TypeOK
    <3>2. journals[t].phase = PrepareActivation => Related(journals[t]) = {}
      <4>1. journals[t].phase = PrepareActivation => t \in OpenJournals
        BY DEF OpenJournals, PrepareActivation, Recover
      <4>2. QED
        BY <4>1 DEF Reoffered
    <3>3. QED
      BY <3>1, <3>2, SoundAccepted
  <2>4. ReceiptsAccepted
    BY DEF LedgerInv, ActivatedInv, VersionInv, Authenticated, ReceiptsAccepted
  <2>5. stateFile = "readable" => StateAccepted
    BY LedgerTypes DEF LedgerInv, CheckpointLag, ReceiptLag, Above, StateAccepted
  <2>6. StateUnreadable => Reconstructible
    BY DEF NothingToRebuild
  <2>7. QED
    BY <2>1, <2>2, <2>3, <2>4, <2>5, <2>6 DEF Accepted, JournalsAccepted
<1>2. QED
  BY <1>1, InstallInvariant, LedgerInvariant, VersionInvariant, JournalInvariant, PTL
=============================================================================
