------------------------ MODULE InstalledEngine_proofs ------------------------
(***************************************************************************)
(* What InstalledEngine guarantees for any releases, any number of         *)
(* attempts and updates of any length while a launch looks for its engine. *)
(***************************************************************************)
EXTENDS InstalledEngine, SequenceTheorems, TLAPS

States == [activation : Nat, checkpoint : Nat, there : BOOLEAN]

(* What is on disk: what is revoked only grows, nothing is there before    *)
(* the state is, and the slot of the active release is always there.       *)
StoreInv ==
  /\ authenticated \in SUBSET Releases /\ slots \in SUBSET Releases
  /\ checkpoints \in Seq(SUBSET Releases) /\ history \in Seq(Releases)
  /\ state \in States
  /\ state.activation <= Len(history) /\ state.checkpoint <= Len(checkpoints)
  /\ publishing \in {"none", "state", "checkpoint", "activation"}
  /\ \A m, n \in 1 .. Len(checkpoints) : m <= n => checkpoints[m] \subseteq checkpoints[n]
  /\ ~state.there => Len(history) = 0 /\ Len(checkpoints) = 0
  /\ Len(history) > 0 => history[Len(history)] \in slots

(* What the inspection holds.                                              *)
ReaderTypes ==
  /\ step \in {"state", "chain", "checkpoints", "compare", "validate", "open", "opened", "legacy", "refused"}
  /\ attempt \in 1 .. Attempts /\ key \in Nat
  /\ seen \in [state : States, chain : Nat, checkpoints : Nat]
  /\ before \in [checkpoints : Nat, due : BOOLEAN]
  /\ seen.state.activation <= state.activation /\ seen.chain <= Len(history)
  /\ seen.checkpoints <= Len(checkpoints) /\ before.checkpoints <= Len(checkpoints)

Past(steps) == step \in steps
AfterState == Past({"chain", "checkpoints", "compare", "validate", "open", "opened", "legacy"})
AfterChain == Past({"checkpoints", "compare", "validate", "open", "opened", "legacy"})
AfterCheckpoints == Past({"compare", "validate", "open", "opened", "legacy"})
Deciding == Past({"validate", "open", "opened"})
Approved == Past({"open", "opened"})

(* What was read is at least as new as the attempt, and when nothing was   *)
(* due and nothing published, it is what the disk still holds.             *)
ReaderInv ==
  /\ ReaderTypes
  /\ AfterState /\ ~before.due =>
       ~Due /\ seen.state = state /\ before.checkpoints = Len(checkpoints)
  /\ AfterChain /\ ~before.due => seen.chain = Len(history)
  /\ AfterCheckpoints => before.checkpoints <= seen.checkpoints
  /\ Deciding => seen.chain > 0
  /\ Approved => Chosen \notin RevokedBy(seen.checkpoints)
  /\ Approved /\ ~before.due => Chosen \in slots
  /\ RefusalHasACause

InstalledInv == StoreInv /\ ReaderInv

-----------------------------------------------------------------------------
(* A record appended to a chain leaves the earlier ones as they are.       *)
LEMMA Appending ==
  ASSUME NEW S, NEW s \in Seq(S), NEW x \in S
  PROVE  /\ Append(s, x) \in Seq(S)
         /\ Len(Append(s, x)) = Len(s) + 1
         /\ Append(s, x)[Len(s) + 1] = x
         /\ \A i \in 1 .. Len(s) : Append(s, x)[i] = s[i]
OBVIOUS

(* The slot of the active release is never one that is pruned.             *)
LEMMA ActiveIsKept ==
  ASSUME history \in Seq(Releases), Len(history) > 0
  PROVE  history[Len(history)] \in Kept
<1>1. Len(history) \in DOMAIN history /\ Len(history) \in Nat
  OBVIOUS
<1>2. \A i \in Len(history) .. Len(history) : i = Len(history)
  BY <1>1
<1>. QED
  BY <1>1, <1>2 DEF Kept

-----------------------------------------------------------------------------
(* One update step, as the inspection meets it: chains grow, and without a *)
(* publication all stays but slots that nothing needs.                     *)
UpdateEffect ==
  /\ UNCHANGED <<step, attempt, key, seen>>
  /\ before' \in {before, [before EXCEPT !.due = TRUE]}
  /\ state.activation <= state'.activation
  /\ Len(history) <= Len(history') /\ \A g \in 1 .. Len(history) : history'[g] = history[g]
  /\ Len(checkpoints) <= Len(checkpoints')
  /\ \A n \in 1 .. Len(checkpoints) : checkpoints'[n] = checkpoints[n]
  /\ \/ before' = [before EXCEPT !.due = TRUE]
     \/ publishing # "none"
     \/ UNCHANGED <<checkpoints, history, state, publishing>>

(* Whatever an update does, the stores stay in order, and a reader sees    *)
(* that they have grown.                                                   *)
LEMMA UpdateKeepsStore ==
  ASSUME StoreInv, Updates
  PROVE  StoreInv' /\ UpdateEffect
<1>typed. /\ authenticated \in SUBSET Releases /\ slots \in SUBSET Releases
          /\ checkpoints \in Seq(SUBSET Releases) /\ history \in Seq(Releases)
          /\ state \in States
          /\ Len(checkpoints) \in Nat /\ Len(history) \in Nat
          /\ state.activation \in Nat /\ state.checkpoint \in Nat /\ state.there \in BOOLEAN
  BY DEF StoreInv, States
<1>1. CASE Unlink
  BY <1>1, <1>typed DEF Unlink, StoreInv, UpdateEffect, installation, inspection, RevokedBy
<1>2. CASE InitializeState
  <2>1. state' = [activation |-> 0, checkpoint |-> 0, there |-> TRUE] /\ state' \in States
    BY <1>2 DEF InitializeState, State, States
  <2>2. Len(history) = 0 /\ Len(checkpoints) = 0 /\ state.activation = 0
    BY <1>2, <1>typed DEF InitializeState, StoreInv
  <2>. QED
    BY <1>2, <1>typed, <2>1, <2>2 DEF InitializeState, Publish, StoreInv, UpdateEffect, RevokedBy
<1>3. CASE AppendCheckpoint
  <2>1. PICK more \in SUBSET Releases :
          checkpoints' = Append(checkpoints, RevokedBy(Len(checkpoints)) \union more)
    BY <1>3 DEF AppendCheckpoint
  <2> DEFINE new == RevokedBy(Len(checkpoints)) \union more
  <2>2. new \in SUBSET Releases
    BY <1>typed DEF RevokedBy
  <2>3. /\ checkpoints' \in Seq(SUBSET Releases) /\ Len(checkpoints') = Len(checkpoints) + 1
        /\ checkpoints'[Len(checkpoints) + 1] = new
        /\ \A n \in 1 .. Len(checkpoints) : checkpoints'[n] = checkpoints[n]
    BY <1>typed, <2>1, <2>2, Appending
  <2>4. \A m \in 1 .. Len(checkpoints) : checkpoints[m] \subseteq new
    BY <1>typed DEF StoreInv, RevokedBy
  <2>6. \A m, n \in 1 .. Len(checkpoints') : m <= n => checkpoints'[m] \subseteq checkpoints'[n]
    <3> SUFFICES ASSUME NEW m \in 1 .. Len(checkpoints'), NEW n \in 1 .. Len(checkpoints'), m <= n
                 PROVE  checkpoints'[m] \subseteq checkpoints'[n]
      OBVIOUS
    <3>1. CASE n \in 1 .. Len(checkpoints)
      <4>1. m \in 1 .. Len(checkpoints)
        BY <1>typed, <2>3, <3>1
      <4>. QED
        BY <2>3, <3>1, <4>1 DEF StoreInv
    <3>2. CASE n = Len(checkpoints) + 1 /\ m \in 1 .. Len(checkpoints)
      BY <2>3, <2>4, <3>2
    <3>3. CASE m = n
      BY <3>3
    <3>. QED
      BY <1>typed, <2>3, <3>1, <3>2, <3>3
  <2>7. UNCHANGED <<authenticated, history, state, slots, step, attempt, key, seen>>
        /\ before' = [before EXCEPT !.due = TRUE] /\ publishing' = "checkpoint"
    BY <1>3 DEF AppendCheckpoint, Publish
  <2>8. state.there
    BY <1>3 DEF AppendCheckpoint, Settled, State
  <2>9. StoreInv'
    BY <1>typed, <2>3, <2>6, <2>7, <2>8 DEF StoreInv
  <2>. QED
    BY <1>typed, <2>3, <2>7, <2>9 DEF UpdateEffect
<1>4. ASSUME NEW r \in Releases, Authenticate(r) PROVE StoreInv' /\ UpdateEffect
  <2>1. authenticated' = authenticated \union {r} /\ UNCHANGED <<history, checkpoints, state, publishing, slots>>
        /\ UNCHANGED inspection
    BY <1>4 DEF Authenticate, Ledger!Authenticate
  <2>. QED
    BY <1>typed, <2>1 DEF StoreInv, UpdateEffect, inspection, RevokedBy
<1>5. CASE Activate
  <2>1. PICK r \in Releases : history' = Append(history, r)
    <3>1. CASE \E r \in Releases : Ledger!Install(r)
      BY <3>1 DEF Ledger!Install
    <3>2. CASE Ledger!RollBack
      <4>1. history[Len(history) - 1] \in Releases
        BY <1>typed, <3>2 DEF Ledger!RollBack
      <4>. QED
        BY <3>2, <4>1 DEF Ledger!RollBack
    <3>. QED
      BY <1>5, <3>1, <3>2 DEF Activate
  <2>2. authenticated' = authenticated
    BY <1>5 DEF Activate, Ledger!Install, Ledger!RollBack
  <2>3. /\ UNCHANGED <<checkpoints, state, step, attempt, key, seen>>
        /\ before' = [before EXCEPT !.due = TRUE] /\ publishing' = "activation"
        /\ slots' = slots \union {history'[Len(history')]}
        /\ state.there
    BY <1>5 DEF Activate, Publish, Settled, State
  <2>4. /\ history' \in Seq(Releases) /\ Len(history') = Len(history) + 1
        /\ history'[Len(history')] = r
        /\ \A g \in 1 .. Len(history) : history'[g] = history[g]
    BY <1>typed, <2>1, Appending
  <2>5. StoreInv'
    BY <1>typed, <2>2, <2>3, <2>4 DEF StoreInv, RevokedBy
  <2>. QED
    BY <1>typed, <2>3, <2>4, <2>5 DEF UpdateEffect
<1>6. CASE RecordState
  <2>1. state' = [activation |-> Len(history), checkpoint |-> Len(checkpoints), there |-> TRUE]
        /\ state' \in States
    BY <1>6, <1>typed DEF RecordState, State, States
  <2>. QED
    BY <1>6, <1>typed, <2>1 DEF RecordState, Publish, StoreInv, UpdateEffect, RevokedBy
<1>7. CASE PruneSlots
  <2>1. PICK r \in slots \ Kept : slots' = slots \ {r}
    BY <1>7 DEF PruneSlots
  <2>2. UNCHANGED <<authenticated, checkpoints, history, state, publishing, inspection>>
    BY <1>7 DEF PruneSlots
  <2>3. Len(history) > 0 => history[Len(history)] \in slots'
    BY <1>typed, <2>1, ActiveIsKept DEF StoreInv
  <2>. QED
    BY <1>typed, <2>1, <2>2, <2>3 DEF StoreInv, UpdateEffect, inspection, RevokedBy
<1>. QED
  BY <1>1, <1>2, <1>3, <1>4, <1>5, <1>6, <1>7 DEF Updates

-----------------------------------------------------------------------------
(* What is revoked by a checkpoint is revoked by all later ones.           *)
LEMMA RevokedGrows ==
  ASSUME StoreInv, NEW m \in Nat, NEW n \in Nat, m <= n, n <= Len(checkpoints)
  PROVE  RevokedBy(m) \subseteq RevokedBy(n)
<1>1. CASE m = 0
  BY <1>1 DEF RevokedBy
<1>2. CASE m > 0
  <2>1. m \in 1 .. Len(checkpoints) /\ n \in 1 .. Len(checkpoints)
    BY <1>2 DEF StoreInv
  <2>2. checkpoints[m] \subseteq checkpoints[n]
    BY <2>1 DEF StoreInv
  <2>. QED
    BY <1>2, <2>2 DEF RevokedBy
<1>. QED
  BY <1>1, <1>2

(* An update step takes nothing from what the inspection has established.  *)
LEMMA UpdateKeepsReader ==
  ASSUME StoreInv, ReaderInv, Updates,
         step \in {"state", "chain", "checkpoints", "validate", "open"}
  PROVE  ReaderInv'
<1>1. StoreInv' /\ UpdateEffect
  BY UpdateKeepsStore
<1>typed. /\ ReaderTypes
          /\ Len(checkpoints) \in Nat /\ Len(history) \in Nat
          /\ Len(checkpoints') \in Nat /\ Len(history') \in Nat
          /\ state.activation \in Nat /\ state'.activation \in Nat
          /\ before \in [checkpoints : Nat, due : BOOLEAN]
          /\ seen.chain \in Nat /\ seen.checkpoints \in Nat /\ seen.state.activation \in Nat
  BY <1>1 DEF ReaderInv, ReaderTypes, StoreInv, States
<1>2. /\ before' \in [checkpoints : Nat, due : BOOLEAN]
      /\ before'.checkpoints = before.checkpoints /\ (before.due => before'.due)
      /\ before' # before => before'.due
  BY <1>1, <1>typed DEF UpdateEffect
<1>3. UNCHANGED <<step, attempt, key, seen>>
  BY <1>1 DEF UpdateEffect
<1>4. ReaderTypes'
  BY <1>1, <1>2, <1>3, <1>typed DEF ReaderTypes, UpdateEffect
<1>5. ASSUME AfterState, ~before'.due
      PROVE  /\ UNCHANGED <<checkpoints, history, state, publishing>>
             /\ ~before.due
  <2>1. ~before.due /\ publishing = "none"
    BY <1>2, <1>5 DEF ReaderInv, Due
  <2>2. before' # [before EXCEPT !.due = TRUE]
    BY <1>5, <1>typed
  <2>. QED
    BY <1>1, <2>1, <2>2 DEF UpdateEffect
<1>6. AfterState' /\ ~before'.due =>
        ~Due' /\ seen'.state = state' /\ before'.checkpoints = Len(checkpoints')
  BY <1>2, <1>3, <1>5 DEF AfterState, Past, ReaderInv, Due, Settled, State
<1>7. AfterChain' /\ ~before'.due => seen'.chain = Len(history')
  BY <1>3, <1>5 DEF AfterState, AfterChain, Past, ReaderInv
<1>8. AfterCheckpoints' => before'.checkpoints <= seen'.checkpoints
  BY <1>2, <1>3 DEF AfterCheckpoints, Past, ReaderInv
<1>9. Deciding' => seen'.chain > 0
  BY <1>3 DEF Deciding, Past, ReaderInv
<1>10. CASE Approved
  <2>1. seen.chain \in 1 .. Len(history) /\ seen.checkpoints <= Len(checkpoints)
    BY <1>10, <1>typed DEF ReaderInv, ReaderTypes, Deciding, Approved, Past
  <2>2. Chosen' = Chosen
    BY <1>1, <1>3, <2>1 DEF Chosen, UpdateEffect
  <2>3. RevokedBy(seen.checkpoints)' = RevokedBy(seen.checkpoints)
    <3>1. CASE seen.checkpoints = 0
      BY <1>3, <3>1 DEF RevokedBy
    <3>2. CASE seen.checkpoints \in 1 .. Len(checkpoints)
      BY <1>1, <1>3, <3>2 DEF RevokedBy, UpdateEffect
    <3>. QED
      BY <1>typed, <2>1, <3>1, <3>2
  <2>4. ~before'.due => Chosen' \in slots'
    <3> SUFFICES ASSUME ~before'.due PROVE Chosen' \in slots'
      OBVIOUS
    <3>1. UNCHANGED history /\ seen.chain = Len(history)
      BY <1>5, <1>10 DEF ReaderInv, AfterState, AfterChain, Approved, Past
    <3>2. Len(history') > 0 /\ Chosen' = history'[Len(history')]
      BY <2>1, <2>2, <3>1, <1>typed DEF Chosen
    <3>. QED
      BY <1>1, <3>2 DEF StoreInv
  <2>. QED
    BY <1>3, <1>4, <1>6, <1>7, <1>8, <1>9, <1>10, <2>2, <2>3, <2>4
    DEF ReaderInv, RefusalHasACause, Approved, Past
<1>11. CASE ~Approved
  BY <1>3, <1>4, <1>6, <1>7, <1>8, <1>9, <1>11 DEF ReaderInv, RefusalHasACause, Approved, Past
<1>. QED
  BY <1>10, <1>11

-----------------------------------------------------------------------------
(* A refusal without anything due has its cause in the installation.       *)
LEMMA RefusalExplained ==
  ASSUME StoreInv, ReaderInv, AfterCheckpoints,
         \/ ~(/\ seen.chain > 0 /\ seen.state.activation = seen.chain
              /\ seen.checkpoints \in {seen.state.checkpoint, seen.state.checkpoint + 1})
         \/ seen.chain > 0 /\ Chosen \notin slots \ RevokedBy(seen.checkpoints),
         ~(~seen.state.there /\ seen.chain = 0),
         ~before.due
  PROVE  \/ state.there /\ history = << >>
         \/ history[Len(history)] \in RevokedBy(Len(checkpoints))
<1>1. /\ ~Due /\ seen.state = state /\ seen.chain = Len(history)
      /\ AfterState /\ AfterChain
  BY DEF ReaderInv, AfterState, AfterChain, AfterCheckpoints, Past
<1>2. state.there
  BY <1>1 DEF StoreInv
<1>3. state = State(Len(history), Len(checkpoints))
  BY <1>1, <1>2 DEF Due, Settled
<1>4. state.activation = Len(history) /\ state.checkpoint = Len(checkpoints)
  BY <1>3 DEF State
<1>5. Len(history) \in Nat /\ Len(checkpoints) \in Nat /\ history \in Seq(Releases)
  BY DEF StoreInv
<1>6. seen.checkpoints = Len(checkpoints)
  BY <1>1, <1>5 DEF ReaderInv, ReaderTypes
<1>7. CASE Len(history) = 0
  <2>1. history = << >>
    BY <1>5, <1>7
  <2>. QED
    BY <1>2, <2>1
<1>8. CASE Len(history) > 0
  <2>1. Chosen = history[Len(history)] /\ Chosen \in slots
    BY <1>1, <1>8 DEF Chosen, StoreInv
  <2>2. Chosen \in RevokedBy(seen.checkpoints)
    BY <1>1, <1>4, <1>6, <1>8, <2>1
  <2>. QED
    BY <1>6, <2>1, <2>2
<1>. QED
  BY <1>5, <1>7, <1>8

(* Every step of the inspection preserves what it knows.                   *)
LEMMA InspectionKeepsReader ==
  ASSUME StoreInv, ReaderInv, Inspects
  PROVE  StoreInv' /\ ReaderInv'
<1>typed. /\ ReaderTypes
          /\ Len(checkpoints) \in Nat /\ Len(history) \in Nat
          /\ state \in States /\ state.activation \in Nat
          /\ seen \in [state : States, chain : Nat, checkpoints : Nat]
          /\ seen.chain \in Nat /\ seen.checkpoints \in Nat /\ seen.state \in States
          /\ seen.state.activation \in Nat
          /\ before.checkpoints \in Nat /\ before.due \in BOOLEAN
          /\ Attempts \in Nat
  BY InspectionAssumption DEF ReaderInv, ReaderTypes, StoreInv, States
<1>same. UNCHANGED installation => StoreInv'
  BY DEF StoreInv, installation
<1>1. CASE ReadState
  <2>1. /\ UNCHANGED installation
        /\ before' = [checkpoints |-> Len(checkpoints), due |-> Due]
        /\ before' \in [checkpoints : Nat, due : BOOLEAN]
    <3>1. Due \in BOOLEAN
      BY <1>typed DEF Due, States
    <3>. QED
      BY <1>1, <1>typed, <3>1 DEF ReadState
  <2>2. CASE publishing = "state"
    <3>1. step' = "refused" /\ UNCHANGED <<attempt, key, seen>>
      BY <1>1, <2>2 DEF ReadState, Refuses
    <3>2. before'.due
      BY <2>1, <2>2 DEF Due
    <3>3. ReaderTypes'
      BY <1>typed, <2>1, <3>1 DEF ReaderTypes, installation
    <3>. QED
      BY <1>same, <2>1, <3>1, <3>2, <3>3
      DEF ReaderInv, RefusalHasACause, AfterState, AfterChain, AfterCheckpoints, Deciding, Approved, Past
  <2>3. CASE publishing # "state"
    <3>1. step' = "chain" /\ seen' = [seen EXCEPT !.state = state] /\ UNCHANGED <<attempt, key>>
      BY <1>1, <2>3 DEF ReadState
    <3>2. /\ seen' \in [state : States, chain : Nat, checkpoints : Nat]
          /\ seen'.state = state /\ seen'.chain = seen.chain /\ seen'.checkpoints = seen.checkpoints
      BY <1>typed, <3>1
    <3>3. ReaderTypes'
      BY <1>typed, <2>1, <3>1, <3>2 DEF ReaderTypes, installation
    <3>4. Due' = Due
      BY <2>1 DEF Due, Settled, State, installation
    <3>. QED
      BY <1>same, <2>1, <3>1, <3>2, <3>3, <3>4
      DEF ReaderInv, RefusalHasACause, AfterState, AfterChain, AfterCheckpoints, Deciding, Approved, Past, installation
  <2>. QED
    BY <2>2, <2>3
<1>2. CASE ReadChain
  <2>1. UNCHANGED <<installation, before>> /\ step = "chain"
    BY <1>2 DEF ReadChain
  <2>2. AfterState /\ Due' = Due
    BY <2>1 DEF AfterState, Past, Due, Settled, State, installation
  <2>3. CASE publishing = "activation"
    <3>1. step' = "refused" /\ UNCHANGED <<attempt, key, seen>>
      BY <1>2, <2>3 DEF ReadChain, Refuses
    <3>2. before.due
      BY <2>2, <2>3 DEF ReaderInv, Due
    <3>3. ReaderTypes'
      BY <1>typed, <2>1, <3>1 DEF ReaderTypes, installation
    <3>. QED
      BY <1>same, <2>1, <3>1, <3>2, <3>3
      DEF ReaderInv, RefusalHasACause, AfterState, AfterChain, AfterCheckpoints, Deciding, Approved, Past
  <2>4. CASE publishing # "activation"
    <3>1. step' = "checkpoints" /\ seen' = [seen EXCEPT !.chain = Len(history)] /\ UNCHANGED <<attempt, key>>
      BY <1>2, <2>4 DEF ReadChain
    <3>2. /\ seen' \in [state : States, chain : Nat, checkpoints : Nat]
          /\ seen'.state = seen.state /\ seen'.chain = Len(history) /\ seen'.checkpoints = seen.checkpoints
      BY <1>typed, <3>1
    <3>3. ReaderTypes'
      BY <1>typed, <2>1, <3>1, <3>2 DEF ReaderTypes, installation
    <3>. QED
      BY <1>same, <2>1, <2>2, <3>1, <3>2, <3>3
      DEF ReaderInv, RefusalHasACause, AfterState, AfterChain, AfterCheckpoints, Deciding, Approved, Past, installation
  <2>. QED
    BY <2>3, <2>4
<1>3. CASE ReadCheckpoints
  <2>1. UNCHANGED <<installation, before>> /\ step = "checkpoints"
    BY <1>3 DEF ReadCheckpoints
  <2>2. AfterState /\ AfterChain /\ Due' = Due
    BY <2>1 DEF AfterState, AfterChain, Past, Due, Settled, State, installation
  <2>3. CASE publishing = "checkpoint"
    <3>1. step' = "refused" /\ UNCHANGED <<attempt, key, seen>>
      BY <1>3, <2>3 DEF ReadCheckpoints, Refuses
    <3>2. before.due
      BY <2>2, <2>3 DEF ReaderInv, Due
    <3>3. ReaderTypes'
      BY <1>typed, <2>1, <3>1 DEF ReaderTypes, installation
    <3>. QED
      BY <1>same, <2>1, <3>1, <3>2, <3>3
      DEF ReaderInv, RefusalHasACause, AfterState, AfterChain, AfterCheckpoints, Deciding, Approved, Past
  <2>4. CASE publishing # "checkpoint"
    <3>1. step' = "compare" /\ seen' = [seen EXCEPT !.checkpoints = Len(checkpoints)] /\ UNCHANGED <<attempt, key>>
      BY <1>3, <2>4 DEF ReadCheckpoints
    <3>2. /\ seen' \in [state : States, chain : Nat, checkpoints : Nat]
          /\ seen'.state = seen.state /\ seen'.chain = seen.chain /\ seen'.checkpoints = Len(checkpoints)
      BY <1>typed, <3>1
    <3>3. ReaderTypes'
      BY <1>typed, <2>1, <3>1, <3>2 DEF ReaderTypes, installation
    <3>. QED
      BY <1>same, <1>typed, <2>1, <2>2, <3>1, <3>2, <3>3
      DEF ReaderInv, ReaderTypes, RefusalHasACause, AfterState, AfterChain, AfterCheckpoints, Deciding, Approved, Past, installation
  <2>. QED
    BY <2>3, <2>4
<1>4. CASE Retry
  <2>1. /\ UNCHANGED <<installation, seen, before>>
        /\ step' = "state" /\ attempt' = attempt + 1 /\ key' = Key /\ attempt < Attempts
    BY <1>4 DEF Retry
  <2>2. attempt' \in 1 .. Attempts /\ key' \in Nat
    BY <1>typed, <2>1 DEF ReaderTypes, Key
  <2>3. ReaderTypes'
    BY <1>typed, <2>1, <2>2 DEF ReaderTypes, installation
  <2>. QED
    BY <1>same, <2>1, <2>3
    DEF ReaderInv, RefusalHasACause, AfterState, AfterChain, AfterCheckpoints, Deciding, Approved, Past
<1>5. CASE Decide
  <2>1. UNCHANGED <<installation, attempt, key, seen, before>> /\ step = "compare"
    BY <1>5 DEF Decide
  <2>2. step' \in {"legacy", "validate", "refused"} /\ (step' = "validate" => seen.chain > 0)
    BY <1>5 DEF Decide
  <2>3. ReaderTypes'
    BY <1>typed, <2>1, <2>2 DEF ReaderTypes, installation
  <2>4. AfterState /\ AfterChain /\ AfterCheckpoints /\ Due' = Due
    BY <2>1 DEF AfterState, AfterChain, AfterCheckpoints, Past, Due, Settled, State, installation
  <2>5. RefusalHasACause'
    <3> SUFFICES ASSUME step' = "refused", ~before.due
                 PROVE  \/ state.there /\ history = << >>
                        \/ history[Len(history)] \in RevokedBy(Len(checkpoints))
      BY <2>1 DEF RefusalHasACause, installation, RevokedBy
    <3>1. /\ ~(/\ seen.chain > 0 /\ seen.state.activation = seen.chain
               /\ seen.checkpoints \in {seen.state.checkpoint, seen.state.checkpoint + 1})
          /\ ~(~seen.state.there /\ seen.chain = 0)
      BY <1>5 DEF Decide
    <3>. QED
      BY <2>4, <3>1, RefusalExplained
  <2>. QED
    BY <1>same, <2>1, <2>2, <2>3, <2>4, <2>5
    DEF ReaderInv, AfterState, AfterChain, AfterCheckpoints, Deciding, Approved, Past, installation
<1>6. CASE Validate
  <2>1. UNCHANGED <<installation, attempt, key, seen, before>> /\ step = "validate"
    BY <1>6 DEF Validate
  <2>2. step' = IF Chosen \in slots \ RevokedBy(seen.checkpoints) THEN "open" ELSE "refused"
    BY <1>6 DEF Validate
  <2>3. ReaderTypes'
    BY <1>typed, <2>1, <2>2 DEF ReaderTypes, installation
  <2>4. /\ AfterState /\ AfterChain /\ AfterCheckpoints /\ Deciding
        /\ Due' = Due /\ Chosen' = Chosen /\ RevokedBy(seen.checkpoints)' = RevokedBy(seen.checkpoints)
    BY <2>1 DEF AfterState, AfterChain, AfterCheckpoints, Deciding, Past, Due, Settled, State, installation,
       Chosen, RevokedBy
  <2>5. RefusalHasACause'
    <3> SUFFICES ASSUME step' = "refused", ~before.due
                 PROVE  \/ state.there /\ history = << >>
                        \/ history[Len(history)] \in RevokedBy(Len(checkpoints))
      BY <2>1 DEF RefusalHasACause, installation, RevokedBy
    <3>1. seen.chain > 0 /\ Chosen \notin slots \ RevokedBy(seen.checkpoints)
      BY <2>2, <2>4 DEF ReaderInv
    <3>. QED
      BY <1>typed, <2>4, <3>1, RefusalExplained
  <2>. QED
    BY <1>same, <2>1, <2>2, <2>3, <2>4, <2>5
    DEF ReaderInv, AfterState, AfterChain, AfterCheckpoints, Deciding, Approved, Past, installation
<1>7. CASE OpenExecutable
  <2>1. UNCHANGED <<installation, attempt, key, seen, before>> /\ step = "open" /\ step' = "opened"
    BY <1>7 DEF OpenExecutable
  <2>2. ReaderTypes'
    BY <1>typed, <2>1 DEF ReaderTypes, installation
  <2>3. Due' = Due /\ Chosen' = Chosen /\ RevokedBy(seen.checkpoints)' = RevokedBy(seen.checkpoints)
    BY <2>1 DEF Due, Settled, State, installation, Chosen, RevokedBy
  <2>. QED
    BY <1>same, <2>1, <2>2, <2>3
    DEF ReaderInv, RefusalHasACause, AfterState, AfterChain, AfterCheckpoints, Deciding, Approved, Past, installation
<1>. QED
  BY <1>1, <1>2, <1>3, <1>4, <1>5, <1>6, <1>7 DEF Inspects

-----------------------------------------------------------------------------
(* A launch begins with an installation that is settled, or with none.     *)
LEMMA InstalledInit == Init => InstalledInv
<1> SUFFICES ASSUME Init PROVE InstalledInv
  OBVIOUS
<1>1. StoreInv
  <2>1. CASE authenticated = {} /\ checkpoints = << >> /\ history = << >> /\ state = NoState
    <3>1. slots = {}
      BY <2>1 DEF Init
    <3>2. state = [activation |-> 0, checkpoint |-> 0, there |-> FALSE] /\ state \in States
      BY <2>1 DEF NoState, States
    <3>. QED
      BY <2>1, <3>1, <3>2 DEF Init, StoreInv
  <2>2. ASSUME NEW p \in Releases, NEW q \in Releases,
               authenticated = {p, q}, history = <<p, q>>,
               checkpoints = <<{}>>, state = State(2, 1)
        PROVE  StoreInv
    <3>1. state = [activation |-> 2, checkpoint |-> 1, there |-> TRUE] /\ state \in States
      BY <2>2 DEF State, States
    <3>2. history \in Seq(Releases) /\ Len(history) = 2 /\ DOMAIN history = {1, 2} /\ history[1] = p /\ history[2] = q
      BY <2>2
    <3>3. checkpoints \in Seq(SUBSET Releases) /\ Len(checkpoints) = 1 /\ checkpoints[1] = {}
      BY <2>2
    <3>4. slots = {p, q}
      BY <3>2 DEF Init
    <3>. QED
      BY <2>2, <3>1, <3>2, <3>3, <3>4 DEF Init, StoreInv
  <2>. QED
    BY <2>1, <2>2 DEF Init
<1>2. ReaderTypes
  <2>1. NoState \in States /\ NoState.activation = 0
    BY DEF NoState, States
  <2>2. Len(history) \in Nat /\ Len(checkpoints) \in Nat /\ state.activation \in Nat
    BY <1>1 DEF StoreInv, States
  <2>. QED
    BY <2>1, <2>2, InspectionAssumption DEF Init, ReaderTypes
<1>. QED
  BY <1>1, <1>2
  DEF Init, InstalledInv, ReaderInv, RefusalHasACause, AfterState, AfterChain, AfterCheckpoints,
      Deciding, Approved, Past

(* InstalledInvariant: the inductive invariant of the lock-free inspection *)
(* (inspectInstalledEngine) beside a running update.                       *)
THEOREM InstalledInvariant == Spec => []InstalledInv
<1>1. InstalledInv /\ [Next]_<<installation, inspection>> => InstalledInv'
  <2> SUFFICES ASSUME InstalledInv, [Next]_<<installation, inspection>> PROVE InstalledInv'
    OBVIOUS
  <2>1. CASE Inspects
    BY <2>1, InspectionKeepsReader DEF InstalledInv
  <2>2. CASE step \in {"state", "chain", "checkpoints", "validate", "open"} /\ Updates
    BY <2>2, UpdateKeepsStore, UpdateKeepsReader DEF InstalledInv
  <2>3. CASE UNCHANGED <<installation, inspection>>
    BY <2>3 DEF InstalledInv, StoreInv, ReaderInv, ReaderTypes, RefusalHasACause, AfterState, AfterChain,
       AfterCheckpoints, Deciding, Approved, Past, Due, Settled, State, Chosen, RevokedBy,
       installation, inspection
  <2>. QED
    BY <2>1, <2>2, <2>3 DEF Next
<1>. QED
  BY InstalledInit, <1>1, PTL DEF Spec

(* InstalledTypeCorrect: the records, the slots and what the inspection    *)
(* holds keep their types, and no attempt beyond the last is ever made.    *)
THEOREM InstalledTypeCorrect == Spec => []TypeOK
<1>1. InstalledInv => TypeOK
  <2> SUFFICES ASSUME InstalledInv PROVE TypeOK
    OBVIOUS
  <2>1. state \in [activation : 0 .. Len(history), checkpoint : 0 .. Len(checkpoints), there : BOOLEAN]
    BY DEF InstalledInv, StoreInv, States
  <2>. QED
    BY <2>1 DEF InstalledInv, StoreInv, ReaderInv, ReaderTypes, TypeOK
<1>. QED
  BY <1>1, InstalledInvariant, PTL

(* InstalledRefusals: however an update and a launch interleave, a launch  *)
(* is refused only for what happens during its last attempt, for a revoked *)
(* engine, or for an update that never activated any (installed.ts:42-75). *)
THEOREM InstalledRefusals == Spec => []RefusalHasACause
<1>1. InstalledInv => RefusalHasACause
  BY DEF InstalledInv, ReaderInv
<1>. QED
  BY <1>1, InstalledInvariant, PTL

(* InstalledLaunches: no launch opens a release that was revoked when its  *)
(* last attempt began, and without a publication since then it opens the   *)
(* active one, whose slot is there (installed.ts:84-95).                   *)
THEOREM InstalledLaunches == Spec => []LaunchesTheActive
<1>1. InstalledInv => LaunchesTheActive
  <2> SUFFICES ASSUME InstalledInv, step = "opened"
               PROVE  /\ Chosen \notin RevokedBy(before.checkpoints)
                      /\ ~before.due => seen.chain = Len(history) /\ Chosen \in slots
    BY DEF LaunchesTheActive
  <2>1. StoreInv /\ ReaderInv /\ ReaderTypes
    BY DEF InstalledInv, ReaderInv
  <2>2. AfterChain /\ AfterCheckpoints /\ Approved
    BY DEF AfterChain, AfterCheckpoints, Approved, Past
  <2>3. /\ before.checkpoints \in Nat /\ seen.checkpoints \in Nat
        /\ before.checkpoints <= seen.checkpoints /\ seen.checkpoints <= Len(checkpoints)
    BY <2>1, <2>2 DEF ReaderInv, ReaderTypes
  <2>4. RevokedBy(before.checkpoints) \subseteq RevokedBy(seen.checkpoints)
    BY <2>1, <2>3, RevokedGrows
  <2>. QED
    BY <2>1, <2>2, <2>4 DEF ReaderInv
<1>. QED
  BY <1>1, InstalledInvariant, PTL
=============================================================================
