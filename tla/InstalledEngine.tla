---------------------------- MODULE InstalledEngine ----------------------------
(***************************************************************************)
(* How a launch finds the installed engine (inspectInstalledEngine in      *)
(* update/installed.ts, launchEngine in engine/launch.ts).  It takes no    *)
(* lock: a goat update may be running.  Of the update this module keeps    *)
(* what UpdateInstall shows of it: receipts, checkpoints and activations   *)
(* are an ActivationLedger (ImplementsLedger), each is recorded in the     *)
(* state before the next one is made (StateLags), and slots are removed    *)
(* only behind the previous distinct release (KeptSlotsIntact).            *)
(***************************************************************************)
EXTENDS Naturals, Sequences, FiniteSets

CONSTANTS
  Releases,        \* [seq, channel] records
  Attempts,        \* INSPECTION_RETRY_ATTEMPTS, 4 in the code
  MaxActivations,  \* bound: activations ever made
  MaxCheckpoints   \* bound: metadata checkpoints ever made

ASSUME InspectionAssumption ==
  /\ Attempts \in Nat \ {0} /\ MaxActivations \in Nat /\ MaxCheckpoints \in Nat
  /\ \A r \in Releases : r.seq \in Nat

VARIABLES
  authenticated,
  checkpoints,   \* what each of them revokes
  history,       \* the activated releases
  state,         \* the activation and the checkpoint the updater state records
  publishing,    \* the kind of record that has two names for the moment
  slots,         \* the releases whose slot is there
  step,          \* where the inspection is
  attempt,
  key,           \* what the previous attempt found
  seen,          \* what this attempt read
  before         \* the checkpoints there were when it began, and whether
                 \* any record was due, or published, from then on

installation == <<authenticated, checkpoints, history, state, publishing, slots>>
inspection == <<step, attempt, key, seen, before>>

NoState == [activation |-> 0, checkpoint |-> 0, there |-> FALSE]
State(activation, checkpoint) == [activation |-> activation, checkpoint |-> checkpoint, there |-> TRUE]
Settled == state = State(Len(history), Len(checkpoints))
(* A record is being published, or one was not recorded in the state yet.  *)
Due == publishing # "none" \/ (state.there /\ ~Settled)
RevokedBy(n) == IF n = 0 THEN {} ELSE checkpoints[n]

Ledger == INSTANCE ActivationLedger WITH revoked <- RevokedBy(Len(checkpoints))

-----------------------------------------------------------------------------
(* The updater.  A record is published under a temporary name and its own; *)
(* readers refuse it until the temporary one is gone.                      *)
Publish(kind) ==
  /\ publishing = "none" /\ publishing' = kind
  /\ before' = [before EXCEPT !.due = TRUE]
  /\ UNCHANGED <<step, attempt, key, seen>>

Unlink ==
  /\ publishing # "none" /\ publishing' = "none"
  /\ UNCHANGED <<authenticated, checkpoints, history, state, slots, inspection>>

InitializeState ==
  /\ ~state.there
  /\ Publish("state")
  /\ state' = State(0, 0)
  /\ UNCHANGED <<authenticated, checkpoints, history, slots>>

AppendCheckpoint ==
  /\ Settled /\ Len(checkpoints) < MaxCheckpoints
  /\ Publish("checkpoint")
  /\ \E more \in {{}} \union {{r} : r \in Releases} :
       checkpoints' = Append(checkpoints, RevokedBy(Len(checkpoints)) \union more)
  /\ UNCHANGED <<authenticated, history, state, slots>>

Authenticate(r) ==
  /\ Settled /\ publishing = "none"
  /\ UNCHANGED <<checkpoints, state, publishing, slots, inspection>>
  /\ Ledger!Authenticate(r)

Activate ==
  /\ Settled /\ Len(history) < MaxActivations
  /\ Publish("activation")
  /\ UNCHANGED <<checkpoints, state>>
  /\ (\E r \in Releases : Ledger!Install(r)) \/ Ledger!RollBack
  /\ slots' = slots \union {history'[Len(history')]}

RecordState ==
  /\ state.there /\ ~Settled
  /\ Publish("state")
  /\ state' = State(Len(history), Len(checkpoints))
  /\ UNCHANGED <<authenticated, checkpoints, history, slots>>

(* The releases of the activations back to the previous distinct one.      *)
Kept ==
  {history[g] : g \in {h \in DOMAIN history :
     \A i \in h .. Len(history) : history[i] \in {history[h], history[Len(history)]}}}

PruneSlots ==
  /\ Settled /\ publishing = "none"
  /\ \E r \in slots \ Kept : slots' = slots \ {r}
  /\ UNCHANGED <<authenticated, checkpoints, history, state, publishing, inspection>>

Updates ==
  \/ Unlink \/ InitializeState \/ AppendCheckpoint \/ Activate \/ RecordState \/ PruneSlots
  \/ \E r \in Releases : Authenticate(r)

-----------------------------------------------------------------------------
(* The inspection.  Each attempt reads state, chain and checkpoints, one   *)
(* after the other; it ends when two find the same activation, or with the *)
(* last attempt.                                                           *)
Refuses == step' = "refused" /\ UNCHANGED <<attempt, key, seen>>

WrongReadStateOnlyOnce ==
  /\ step = "state"
  /\ before' = [checkpoints |-> Len(checkpoints), due |-> Due]
  /\ IF publishing = "state"
       THEN Refuses
       ELSE /\ step' = "chain" /\ UNCHANGED <<attempt, key>>
            /\ seen' = IF attempt = 1 THEN [seen EXCEPT !.state = state] ELSE seen
  /\ UNCHANGED installation

ReadState ==
  /\ step = "state"
  /\ before' = [checkpoints |-> Len(checkpoints), due |-> Due]
  /\ IF publishing = "state"
       THEN Refuses
       ELSE step' = "chain" /\ seen' = [seen EXCEPT !.state = state] /\ UNCHANGED <<attempt, key>>
  /\ UNCHANGED installation

ReadChain ==
  /\ step = "chain"
  /\ IF publishing = "activation"
       THEN Refuses
       ELSE step' = "checkpoints" /\ seen' = [seen EXCEPT !.chain = Len(history)] /\ UNCHANGED <<attempt, key>>
  /\ UNCHANGED <<installation, before>>

ReadCheckpoints ==
  /\ step = "checkpoints"
  /\ IF publishing = "checkpoint"
       THEN Refuses
       ELSE step' = "compare" /\ seen' = [seen EXCEPT !.checkpoints = Len(checkpoints)] /\ UNCHANGED <<attempt, key>>
  /\ UNCHANGED <<installation, before>>

(* What an attempt is known by; 0 is none.                                 *)
Key == IF seen.state.there /\ seen.chain > 0 THEN seen.state.activation + 1 ELSE 0

WrongRetryWithoutLimit ==
  /\ step = "compare"
  /\ Key = 0 \/ Key # key
  /\ step' = "state" /\ attempt' = attempt + 1 /\ key' = Key
  /\ UNCHANGED <<installation, seen, before>>

Retry ==
  /\ step = "compare"
  /\ attempt < Attempts /\ (Key = 0 \/ Key # key)
  /\ step' = "state" /\ attempt' = attempt + 1 /\ key' = Key
  /\ UNCHANGED <<installation, seen, before>>

(* Without any record there is no installation, and the legacy engine is   *)
(* used.  Otherwise state and chain have to agree, and the checkpoints be  *)
(* those of the state or one more.                                         *)
Decide ==
  /\ step = "compare"
  /\ attempt = Attempts \/ (Key # 0 /\ Key = key)
  /\ step' = IF ~seen.state.there /\ seen.chain = 0 THEN "legacy"
             ELSE IF /\ seen.chain > 0 /\ seen.state.activation = seen.chain
                     /\ seen.checkpoints \in {seen.state.checkpoint, seen.state.checkpoint + 1}
                  THEN "validate"
                  ELSE "refused"
  /\ UNCHANGED <<installation, attempt, key, seen, before>>

Chosen == history[seen.chain]

WrongValidateByTheState ==
  /\ step = "validate"
  /\ step' = IF Chosen \in slots \ RevokedBy(seen.state.checkpoint) THEN "open" ELSE "refused"
  /\ UNCHANGED <<installation, attempt, key, seen, before>>

(* validateInstalledActivation, with what the checkpoints revoke.          *)
Validate ==
  /\ step = "validate"
  /\ step' = IF Chosen \in slots \ RevokedBy(seen.checkpoints) THEN "open" ELSE "refused"
  /\ UNCHANGED <<installation, attempt, key, seen, before>>

(* verifyExecutableAtLaunch: an executable that is gone by now is left to  *)
(* the spawn.                                                              *)
OpenExecutable ==
  /\ step = "open"
  /\ step' = "opened"
  /\ UNCHANGED <<installation, attempt, key, seen, before>>

Inspects ==
  ReadState \/ ReadChain \/ ReadCheckpoints \/ Retry \/ Decide \/ Validate \/ OpenExecutable

(* A machine without an installation, or with a settled one of which the   *)
(* second release is active.                                               *)
Init ==
  /\ \/ authenticated = {} /\ checkpoints = << >> /\ history = << >> /\ state = NoState
     \/ \E p, q \in Releases :
          /\ p.seq < q.seq /\ \A r \in Releases : r.seq <= q.seq => r \in {p, q}
          /\ authenticated = {p, q} /\ history = <<p, q>>
          /\ checkpoints = <<{}>> /\ state = State(2, 1)
  /\ slots = {history[g] : g \in DOMAIN history}
  /\ publishing = "none"
  /\ step = "state" /\ attempt = 1 /\ key = 0
  /\ seen = [state |-> NoState, chain |-> 0, checkpoints |-> 0]
  /\ before = [checkpoints |-> 0, due |-> FALSE]

(* Comparing reads nothing from the disk, and what an update does after    *)
(* the inspection is of no concern to it.                                  *)
Next ==
  \/ Inspects
  \/ step \in {"state", "chain", "checkpoints", "validate", "open"} /\ Updates

Spec == Init /\ [][Next]_<<installation, inspection>>

TypeOK ==
  /\ authenticated \in SUBSET Releases /\ slots \in SUBSET Releases
  /\ checkpoints \in Seq(SUBSET Releases) /\ history \in Seq(Releases)
  /\ state \in [activation : 0 .. Len(history), checkpoint : 0 .. Len(checkpoints), there : BOOLEAN]
  /\ publishing \in {"none", "state", "checkpoint", "activation"}
  /\ step \in {"state", "chain", "checkpoints", "compare", "validate", "open", "opened", "legacy", "refused"}
  /\ attempt \in 1 .. Attempts /\ key \in Nat
  /\ seen.state.activation <= state.activation /\ seen.chain <= Len(history)
  /\ seen.checkpoints <= Len(checkpoints) /\ before.checkpoints <= Len(checkpoints)

-----------------------------------------------------------------------------
(* RefusalHasACause: a launch is not refused for what an update did before *)
(* the last attempt, be it a whole update between two attempts: only when  *)
(* a record was due or published since, when the active release is         *)
(* revoked, or when an update was begun and nothing was ever activated     *)
(* (inspectInstalledEngine's retries, installed.ts:42-75).                 *)
RefusalHasACause ==
  step = "refused" =>
    \/ before.due
    \/ state.there /\ history = << >>
    \/ history[Len(history)] \in RevokedBy(Len(checkpoints))

(* LaunchesTheActive: what is opened for a launch is a release that no     *)
(* checkpoint revoked that was there when the last attempt began, although *)
(* the state may lag; it is the active one, and whole, unless a record     *)
(* was published meanwhile (installed.ts:84-95, recovery.ts:352-403).      *)
LaunchesTheActive ==
  step = "opened" =>
    /\ Chosen \notin RevokedBy(before.checkpoints)
    /\ ~before.due => seen.chain = Len(history) /\ Chosen \in slots
=============================================================================
