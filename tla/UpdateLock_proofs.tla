------------------------- MODULE UpdateLock_proofs -------------------------
(***************************************************************************)
(* What UpdateLock guarantees for every set of launchers and every number  *)
(* of runs and crashes.  The argument has one idea: a launcher is inside a *)
(* SQLite write transaction exactly when it holds the RESERVED lock, and   *)
(* only a launcher inside one writes the row.                              *)
(***************************************************************************)
EXTENDS UpdateLock, TLAPS

(* The inductive strengthening.                                            *)
TransactionInv ==
  \A p \in Launchers : pc[p] \in InTransaction <=> reserved = p

LockInv == TypeOK /\ TransactionInv /\ HeldMeansOwned

-----------------------------------------------------------------------------
(* The type invariant holds in every reachable state.                      *)
THEOREM TypeCorrect == Spec => []TypeOK
<1> USE LockAssumption DEF TypeOK, Rows, Tokens, Ownerless, OwnRow, Steps, Reading,
        InTransaction, FirstTransaction, Critical, Goto, DropLocks
<1>1. Init => TypeOK
  BY DEF Init
<1>2. TypeOK /\ [Next]_vars => TypeOK'
  <2> SUFFICES ASSUME TypeOK, [Next]_vars
               PROVE  TypeOK'
    OBVIOUS
  <2>1. ASSUME NEW p \in Launchers, Start(p)
        PROVE  TypeOK'
    BY <2>1 DEF Start
  <2>2. ASSUME NEW p \in Launchers, TakeShared(p)
        PROVE  TypeOK'
    BY <2>2 DEF TakeShared
  <2>3. ASSUME NEW p \in Launchers, Begin(p)
        PROVE  TypeOK'
    BY <2>3 DEF Begin, TakeReserved, Fail
  <2>4. ASSUME NEW p \in Launchers, Observe(p)
        PROVE  TypeOK'
    BY <2>4 DEF Observe
  <2>5. ASSUME NEW p \in Launchers, Probe(p)
        PROVE  TypeOK'
    BY <2>5 DEF Probe, Fail
  <2>6. ASSUME NEW p \in Launchers, Claim(p)
        PROVE  TypeOK'
    BY <2>6 DEF Claim, Fail
  <2>7. ASSUME NEW p \in Launchers, Rebegin(p)
        PROVE  TypeOK'
    BY <2>7 DEF Rebegin, TakeReserved, Fail
  <2>8. ASSUME NEW p \in Launchers, Verify(p)
        PROVE  TypeOK'
    BY <2>8 DEF Verify, Fail
  <2>9. ASSUME NEW p \in Launchers, Recover(p)
        PROVE  TypeOK'
    BY <2>9 DEF Recover
  <2>10. ASSUME NEW p \in Launchers, Update(p)
         PROVE  TypeOK'
    BY <2>10 DEF Update
  <2>11. ASSUME NEW p \in Launchers, Release(p)
         PROVE  TypeOK'
    BY <2>11 DEF Release, Fail
  <2>12. ASSUME NEW p \in Launchers, Exit(p)
         PROVE  TypeOK'
    BY <2>12 DEF Exit
  <2>13. ASSUME NEW p \in Launchers, Crash(p)
         PROVE  TypeOK'
    BY <2>13 DEF Crash
  <2>14. ASSUME NEW p \in Launchers, ForeignStart(p) \/ ForeignExit(p)
         PROVE  TypeOK'
    BY <2>14 DEF ForeignStart, ForeignExit
  <2>15. CASE UNCHANGED vars
    BY <2>15 DEF vars
  <2>16. QED
    BY <2>1, <2>2, <2>3, <2>4, <2>5, <2>6, <2>7, <2>8, <2>9, <2>10, <2>11,
       <2>12, <2>13, <2>14, <2>15 DEF Next, Step
<1>3. QED
  BY <1>1, <1>2, PTL DEF Spec

-----------------------------------------------------------------------------
(* Lemma: no step breaks the strengthened invariant.  Only Claim and       *)
(* Release write the row, and both hold RESERVED, so they cannot disturb   *)
(* another launcher's critical section.                                    *)
LEMMA LockStep == LockInv /\ [Next]_vars /\ TypeOK' => LockInv'
<1> SUFFICES ASSUME LockInv, [Next]_vars, TypeOK'
             PROVE  LockInv'
  OBVIOUS
<1> USE LockAssumption DEF LockInv, TypeOK, TransactionInv, HeldMeansOwned, OwnRow,
        InTransaction, FirstTransaction, Critical, Goto, DropLocks
<1>1. ASSUME NEW p \in Launchers, Start(p)
      PROVE  LockInv'
  BY <1>1 DEF Start
<1>2. ASSUME NEW p \in Launchers, TakeShared(p)
      PROVE  LockInv'
  BY <1>2 DEF TakeShared
<1>3. ASSUME NEW p \in Launchers, Begin(p)
      PROVE  LockInv'
  BY <1>3 DEF Begin, TakeReserved, Fail
<1>4. ASSUME NEW p \in Launchers, Observe(p)
      PROVE  LockInv'
  BY <1>4 DEF Observe
<1>5. ASSUME NEW p \in Launchers, Probe(p)
      PROVE  LockInv'
  BY <1>5 DEF Probe, Fail
<1>6. ASSUME NEW p \in Launchers, Claim(p)
      PROVE  LockInv'
  BY <1>6 DEF Claim, Fail
<1>7. ASSUME NEW p \in Launchers, Rebegin(p)
      PROVE  LockInv'
  BY <1>7 DEF Rebegin, TakeReserved, Fail
<1>8. ASSUME NEW p \in Launchers, Verify(p)
      PROVE  LockInv'
  BY <1>8 DEF Verify, Fail
<1>9. ASSUME NEW p \in Launchers, Recover(p)
      PROVE  LockInv'
  BY <1>9 DEF Recover
<1>10. ASSUME NEW p \in Launchers, Update(p)
       PROVE  LockInv'
  BY <1>10 DEF Update
<1>11. ASSUME NEW p \in Launchers, Release(p)
       PROVE  LockInv'
  BY <1>11 DEF Release, Fail
<1>12. ASSUME NEW p \in Launchers, Exit(p)
       PROVE  LockInv'
  BY <1>12 DEF Exit
<1>13. ASSUME NEW p \in Launchers, Crash(p)
       PROVE  LockInv'
  BY <1>13 DEF Crash
<1>14. ASSUME NEW p \in Launchers, ForeignStart(p) \/ ForeignExit(p)
       PROVE  LockInv'
  BY <1>14 DEF ForeignStart, ForeignExit
<1>15. CASE UNCHANGED vars
  BY <1>15 DEF vars
<1>16. QED
  BY <1>1, <1>2, <1>3, <1>4, <1>5, <1>6, <1>7, <1>8, <1>9, <1>10, <1>11,
     <1>12, <1>13, <1>14, <1>15 DEF Next, Step

(* The strengthened invariant holds in every reachable state.              *)
THEOREM LockInvariant == Spec => []LockInv
<1>1. Init => LockInv
  BY LockAssumption DEF Init, LockInv, TypeOK, TransactionInv, HeldMeansOwned, Rows, Tokens,
     Ownerless, Steps, Reading, InTransaction, FirstTransaction, Critical
<1>2. QED
  BY <1>1, LockStep, TypeCorrect, PTL DEF Spec

(* At most one launcher recovers or updates at any time.                   *)
THEOREM LockMutualExclusion == Spec => []MutualExclusion
<1>1. LockInv => MutualExclusion
  BY DEF LockInv, TransactionInv, MutualExclusion, InTransaction
<1>2. QED
  BY <1>1, LockInvariant, PTL

(* Whoever recovers or updates is the run the committed row names.         *)
THEOREM LockHeldMeansOwned == Spec => []HeldMeansOwned
<1>1. LockInv => HeldMeansOwned
  BY DEF LockInv
<1>2. QED
  BY <1>1, LockInvariant, PTL
-----------------------------------------------------------------------------
(* A run between its liveness probe and its claim still sees the row it    *)
(* read, and that row's run is over: a process that got the same pid since *)
(* drew a later token.                                                     *)
ClaimInv ==
  /\ row.token <= runs /\ \A p \in Launchers : token[p] <= runs
  /\ \A p \in Launchers : pc[p] \in {"probe", "claim"} => observed[p] = row
  /\ \A p \in Launchers : pc[p] = "claim" => ~OwnerRunning

(* Lemma: the claim invariant is inductive relative to LockInv.            *)
LEMMA ClaimStep == ClaimInv /\ LockInv /\ TypeOK' /\ [Next]_vars => ClaimInv'
<1> SUFFICES ASSUME ClaimInv, LockInv, TypeOK', [Next]_vars
             PROVE  ClaimInv'
  OBVIOUS
<1> USE LockAssumption DEF LockInv, ClaimInv, TypeOK, TransactionInv, OwnRow, Rows, Tokens,
        Owned, OwnerRunning, InTransaction, FirstTransaction, Critical, Goto, DropLocks
<1>1. ASSUME NEW p \in Launchers, Start(p)
      PROVE  ClaimInv'
  BY <1>1 DEF Start
<1>2. ASSUME NEW p \in Launchers, TakeShared(p)
      PROVE  ClaimInv'
  BY <1>2 DEF TakeShared
<1>3. ASSUME NEW p \in Launchers, Begin(p)
      PROVE  ClaimInv'
  BY <1>3 DEF Begin, TakeReserved, Fail
<1>4. ASSUME NEW p \in Launchers, Observe(p)
      PROVE  ClaimInv'
  BY <1>4 DEF Observe
<1>5. ASSUME NEW p \in Launchers, Probe(p)
      PROVE  ClaimInv'
  BY <1>5 DEF Probe, Fail, OwnerIsDead, Alive
<1>6. ASSUME NEW p \in Launchers, Claim(p)
      PROVE  ClaimInv'
  BY <1>6 DEF Claim, Fail
<1>7. ASSUME NEW p \in Launchers, Rebegin(p)
      PROVE  ClaimInv'
  BY <1>7 DEF Rebegin, TakeReserved, Fail
<1>8. ASSUME NEW p \in Launchers, Verify(p)
      PROVE  ClaimInv'
  BY <1>8 DEF Verify, Fail
<1>9. ASSUME NEW p \in Launchers, Recover(p) \/ Update(p)
      PROVE  ClaimInv'
  BY <1>9 DEF Recover, Update
<1>10. ASSUME NEW p \in Launchers, Release(p)
       PROVE  ClaimInv'
  BY <1>10 DEF Release, Fail, Ownerless
<1>11. ASSUME NEW p \in Launchers, Exit(p)
       PROVE  ClaimInv'
  BY <1>11 DEF Exit
<1>12. ASSUME NEW p \in Launchers, Crash(p)
       PROVE  ClaimInv'
  BY <1>12 DEF Crash
<1>13. ASSUME NEW p \in Launchers, ForeignStart(p) \/ ForeignExit(p)
       PROVE  ClaimInv'
  BY <1>13 DEF ForeignStart, ForeignExit
<1>14. CASE UNCHANGED vars
  BY <1>14 DEF vars
<1>15. QED
  BY <1>1, <1>2, <1>3, <1>4, <1>5, <1>6, <1>7, <1>8, <1>9, <1>10, <1>11,
     <1>12, <1>13, <1>14 DEF Next, Step

(* What a probe has found stays true until the claim.                      *)
THEOREM ClaimInvariant == Spec => []ClaimInv
<1>1. Init => ClaimInv
  BY LockAssumption DEF Init, ClaimInv, Ownerless
<1>2. QED
  BY <1>1, ClaimStep, LockInvariant, TypeCorrect, PTL DEF Spec

(* Only its own release takes the row from a run that is still executing.  *)
THEOREM LockLiveOwner == Spec => LiveOwnerKeepsAuthority
<1>1. LockInv /\ ClaimInv /\ [Next]_vars => [OwnerRunning => pc[row.pid] = "release"]_row
  <2> SUFFICES ASSUME LockInv, ClaimInv, Next, OwnerRunning, row' # row
               PROVE  pc[row.pid] = "release"
    BY DEF vars
  <2>1. PICK p \in Launchers : Claim(p) \/ Release(p)
    BY DEF Next, Step, Start, TakeShared, Begin, TakeReserved, Observe, Probe, Fail, Rebegin,
       Verify, Recover, Update, Exit, Crash, ForeignStart, ForeignExit
  <2>2. CASE Claim(p)
    BY <2>2 DEF Claim, Fail, Goto, ClaimInv
  <2>3. CASE Release(p)
    BY <2>3 DEF Release, Fail, Goto, OwnRow
  <2>4. QED
    BY <2>1, <2>2, <2>3
<1>2. QED
  BY <1>1, ClaimInvariant, LockInvariant, PTL DEF Spec, LiveOwnerKeepsAuthority

-----------------------------------------------------------------------------
(* What a launcher that never met another process finds: nobody else runs, *)
(* no lock is taken by one that does not, and once it has claimed the row  *)
(* the row is its own.                                                     *)
BeforeRecovery == {"open", "reopen", "verify", "recover"} \union Reading \union FirstTransaction

SoloInv ==
  /\ \A p \in shared : pc[p] \in Reading \union InTransaction
  /\ \A p \in Launchers :
       /\ pc[p] \in BeforeRecovery => outcome[p] = "none"
       /\ pc[p] = "probe" => Owned(observed[p])
       /\ alone[p] => \A q \in Launchers \ {p} : pc[q] = "off"
       /\ alone[p] /\ pc[p] \in {"reopen", "rebegin", "verify"} => row = OwnRow(p)
  /\ SoloLauncherAcquires

(* Lemma: alone, a launcher that gets BUSY has met its own pid, and        *)
(* nothing else stops it.                                                  *)
LEMMA SoloStep == SoloInv /\ ClaimInv /\ LockInv /\ TypeOK' /\ [Next]_vars => SoloInv'
<1> SUFFICES ASSUME SoloInv, ClaimInv, LockInv, TypeOK', [Next]_vars
             PROVE  SoloInv'
  OBVIOUS
<1> USE LockAssumption DEF LockInv, ClaimInv, SoloInv, TypeOK, TransactionInv, HeldMeansOwned,
        SoloLauncherAcquires, OwnRow, Rows, Tokens, Owned, Reading, InTransaction,
        FirstTransaction, BeforeRecovery, Critical, Goto, DropLocks
<1>1. ASSUME NEW p \in Launchers, Start(p)
      PROVE  SoloInv'
  <2>1. \A q \in Launchers : alone'[q] => q = p /\ \A o \in Launchers \ {p} : pc[o] = "off"
    BY <1>1, Zenon DEF Start, Alive
  <2>2. /\ pc[p] = "off" /\ pc' = [pc EXCEPT ![p] = "open"]
        /\ outcome' = [outcome EXCEPT ![p] = "none"]
        /\ observed' = [observed EXCEPT ![p] = Ownerless]
        /\ token' = [token EXCEPT ![p] = runs + 1]
        /\ UNCHANGED <<row, shared, reserved>>
    BY <1>1 DEF Start
  <2>3. QED
    BY <2>1, <2>2
<1>2. ASSUME NEW p \in Launchers, TakeShared(p)
      PROVE  SoloInv'
  BY <1>2 DEF TakeShared
<1>3. ASSUME NEW p \in Launchers, Begin(p)
      PROVE  SoloInv'
  BY <1>3 DEF Begin, TakeReserved, Fail
<1>4. ASSUME NEW p \in Launchers, Observe(p)
      PROVE  SoloInv'
  BY <1>4 DEF Observe
<1>5. ASSUME NEW p \in Launchers, Probe(p)
      PROVE  SoloInv'
  BY <1>5 DEF Probe, Fail, OwnerIsDead, Alive
<1>6. ASSUME NEW p \in Launchers, Claim(p)
      PROVE  SoloInv'
  BY <1>6 DEF Claim, Fail, OnlyReader
<1>7. ASSUME NEW p \in Launchers, Rebegin(p)
      PROVE  SoloInv'
  BY <1>7 DEF Rebegin, TakeReserved, Fail
<1>8. ASSUME NEW p \in Launchers, Verify(p)
      PROVE  SoloInv'
  BY <1>8 DEF Verify, Fail
<1>9. ASSUME NEW p \in Launchers, Recover(p) \/ Update(p)
      PROVE  SoloInv'
  BY <1>9 DEF Recover, Update
<1>10. ASSUME NEW p \in Launchers, Release(p)
       PROVE  SoloInv'
  BY <1>10 DEF Release, Fail, OnlyReader
<1>11. ASSUME NEW p \in Launchers, Exit(p)
       PROVE  SoloInv'
  BY <1>11 DEF Exit
<1>12. ASSUME NEW p \in Launchers, Crash(p)
       PROVE  SoloInv'
  BY <1>12 DEF Crash
<1>13. ASSUME NEW p \in Launchers, ForeignStart(p) \/ ForeignExit(p)
       PROVE  SoloInv'
  BY <1>13 DEF ForeignStart, ForeignExit
<1>14. CASE UNCHANGED vars
  BY <1>14 DEF vars
<1>15. QED
  BY <1>1, <1>2, <1>3, <1>4, <1>5, <1>6, <1>7, <1>8, <1>9, <1>10, <1>11,
     <1>12, <1>13, <1>14 DEF Next, Step

(* A launcher that never met another process gets the lock, whatever dead  *)
(* ones left behind, unless the row names the very pid it runs under.      *)
THEOREM LockSoloAcquires == Spec => []SoloLauncherAcquires
<1>1. Init => SoloInv
  BY LockAssumption DEF Init, SoloInv, SoloLauncherAcquires, Reading, InTransaction,
     FirstTransaction, BeforeRecovery
<1>2. SoloInv => SoloLauncherAcquires
  BY DEF SoloInv
<1>3. QED
  BY <1>1, <1>2, SoloStep, ClaimInvariant, LockInvariant, TypeCorrect, PTL DEF Spec
=============================================================================
