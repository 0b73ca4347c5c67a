---------------------------- MODULE UpdateInstall ----------------------------
(***************************************************************************)
(* goat update from one run to the next: a launcher takes the update lock, *)
(* recovers, updates and gives the lock back, and may die or fail at any   *)
(* step; then another run starts.  UpdateLock shows that at most one       *)
(* launcher is ever in this module's steps, so there is one pc.  Between   *)
(* runs an installed slot or the updater state may be spoiled.             *)
(***************************************************************************)
EXTENDS UpdateRecovery, UpdateTransaction

Start ==
  /\ pc = "idle"
  /\ pc' = "plan"
  /\ UNCHANGED <<records, linked, trees, drawn, memory, budget>>

(* writeImmutableFile's unlink, after the link that published the record.  *)
(* Nothing else happens in between, except that the launcher may die.      *)
Unlink ==
  /\ linked # "none"
  /\ linked' = "none"
  /\ UNCHANGED <<records, trees, drawn, pc, memory, budget>>

(* The launcher dies, or an I/O error ends its recovery: what is on disk   *)
(* stays, what is in memory goes.                                          *)
Crash ==
  /\ pc # "idle" \/ linked # "none"
  /\ faults < MaxFaults
  /\ faults' = faults + 1
  /\ torn' = torn \union ({linked} \ {"none"})
  /\ linked' = "none"
  /\ pc' = "idle"
  /\ cand' = NoRelease
  /\ plan' = "none"
  /\ loadError' = FALSE
  /\ UNCHANGED <<records, slots, damaged, pending, tmp, drawn, harms>>

(* An installed slot, or the updater state, is spoiled while no launcher   *)
(* updates.                                                                *)
DamageSlot ==
  /\ pc = "idle"
  /\ harms.slot < MaxDamage
  /\ \E r \in Releases :
       /\ slots[r] # 0
       /\ r \notin damaged
       /\ damaged' = damaged \union {r}
  /\ harms' = [harms EXCEPT !.slot = @ + 1]
  /\ UNCHANGED <<records, linked, torn, slots, pending, tmp, drawn, pc, memory, faults>>

LoseState ==
  /\ pc = "idle"
  /\ harms.state < MaxStateLoss
  /\ stateFile = "readable"
  /\ stateFile' = "corrupt"
  /\ harms' = [harms EXCEPT !.state = @ + 1]
  /\ UNCHANGED <<journals, chain, checkpoints, receipts, state, linked, trees, drawn, pc,
                 memory, faults>>

Launcher ==
  \/ Unlink
  \/ linked = "none" /\ (Start \/ RecoveryStep \/ UpdateStep)

Next ==
  \/ Launcher
  \/ linked = "none" /\ (Fail \/ DamageSlot \/ LoseState)
  \/ Crash

Spec == Init /\ [][Next]_vars

(* The user runs goat update again until it succeeds, and a running        *)
(* launcher gets on.  Crashes, failures and damage are never forced.       *)
FairSpec == Spec /\ WF_vars(Launcher)

-----------------------------------------------------------------------------
(* What recovery refuses, every time: a record with two names (a state     *)
(* record only once the plan is carried out, recovery.ts:889), a spoiled   *)
(* state with nothing to rebuild it from (recovery.ts:169-173), and the    *)
(* journal of a release that was activated before and is offered again.    *)
Unreadable == torn # {}
NothingToRebuild == StateUnreadable /\ ~Reconstructible
Reoffered ==
  \E t \in OpenJournals : journals[t].phase = PrepareActivation /\ Related(journals[t]) # {}

(* PlanAccepts: whatever crashes, failures and damage left on disk, the    *)
(* next run's read-only phase accepts it, even a state record with two     *)
(* names, but for these three reasons (planJournalRecovery and the         *)
(* validations of recovery.ts:101-174).                                    *)
PlanAccepts ==
  pc = "plan" => Accepted \/ torn \ {"state"} # {} \/ NothingToRebuild \/ Reoffered

(* AlwaysRecoverable: what the repository says, that "each step can be     *)
(* recovered after a crash" (v0.4.0-update-trust-design.md:74), so that    *)
(* the next run's plan is accepted and nothing stops it from being carried *)
(* out.                                                                    *)
AlwaysRecoverable ==
  pc = "plan" => (Accepted /\ ~Unreadable) \/ NothingToRebuild

(* KeptSlotsIntact: at every point where a crash may strike, the slot of   *)
(* the current activation and of every one back to the previous distinct   *)
(* release is the one its activation sealed: neither recovery nor pruning  *)
(* nor a new placement ever takes a rollback target away                   *)
(* (activation.ts:340-386, recovery.ts:737-770).                           *)
KeptSlotsIntact ==
  \A g \in DOMAIN chain :
    (\A h \in g .. Len(chain) : chain[h].rel \in {chain[g].rel, chain[Len(chain)].rel})
      => slots[chain[g].rel] = chain[g].seal

(* RecoveredInstallation: when recovery lets an update begin, the current  *)
(* activation is whole and not revoked, the state agrees with the chain,   *)
(* the receipts and the checkpoints, and the sequence floors are the       *)
(* highest ever authenticated and activated.                               *)
RecoveredInstallation ==
  pc = "ready" /\ stateFile = "readable" =>
    /\ chain # <<>> => Valid(Len(chain), Revoked(Len(checkpoints)))
    /\ state.current = Len(chain)
    /\ state.checkpoint = Len(checkpoints)
    /\ MaxAuthenticated(state) = Highest(Seqs(receipts))
    /\ state.maxActivated = MaxActivatedIn(chain)

(* NothingLeftBehind: when recovery lets an update begin, no journal is    *)
(* open, and no temporary directory, pending directory or slot of an       *)
(* uncommitted transaction is left.                                        *)
NothingLeftBehind ==
  pc = "ready" =>
    /\ OpenJournals = {}
    /\ tmp = {}
    /\ pending = {}
    /\ {r \in Releases : slots[r] # 0} \subseteq Activated

(* JournalsAgree: an open journal is the newest one, so that nothing is    *)
(* ever begun over an interrupted transaction, and a journal that names a  *)
(* generation names the activation its own transaction committed.          *)
JournalsAgree ==
  \A t \in DOMAIN journals :
    /\ t \in OpenJournals => \A u \in DOMAIN journals : u <= t
    /\ journals[t].generation # 0 =>
         /\ journals[t].generation \in DOMAIN chain
         /\ chain[journals[t].generation].seal = t

(* StateLags: wherever a crash strikes, the state is never ahead of the    *)
(* stores it summarises, and never more than one step behind them.         *)
StateLags ==
  stateFile = "readable" =>
    /\ state.checkpoint <= Len(checkpoints) /\ Len(checkpoints) <= state.checkpoint + 1
    /\ state.current <= Len(chain) /\ Len(chain) <= state.current + 1
    /\ state.known \subseteq receipts /\ Cardinality(receipts \ state.known) <= 1

(* ImplementsLedger: receipts, checkpoints and activation chain behave as  *)
(* ActivationLedger promises, through crashes, damage and recovery.        *)
Ledger == INSTANCE ActivationLedger WITH
  authenticated <- receipts,
  revoked <- Revoked(Len(checkpoints)),
  history <- [g \in DOMAIN chain |-> chain[g].rel]
ImplementsLedger == Ledger!Spec

(* OpenJournalResolved: an interrupted transaction is eventually completed *)
(* or undone, unless recovery refuses for one of the reasons above or the  *)
(* engine in use is revoked, or spoiled, and nothing to go back to.        *)
OpenJournalResolved ==
  (OpenJournals # {}) ~>
    \/ OpenJournals = {} \/ Unreadable \/ NothingToRebuild \/ Reoffered
    \/ chain # <<>> /\ ~Valid(Len(chain), Revoked(Len(checkpoints)))
=============================================================================
