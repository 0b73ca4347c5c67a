----------------------------- MODULE UpdateLock -----------------------------
(***************************************************************************)
(* The update lock of src/update/lock.ts: one SQLite database whose single *)
(* row names the owner, and the write transaction an owner keeps open for  *)
(* as long as it recovers and updates.                                     *)
(*                                                                         *)
(* A launcher claims the row in a first transaction, commits it, and only  *)
(* then opens the long transaction it holds the lock with; any number of   *)
(* launchers interleave at every step, die at every step (the operating    *)
(* system then drops their SQLite locks but not their committed row), and  *)
(* a dead launcher's pid may come back as another program.                 *)
(*                                                                         *)
(* SQLite's own file locks are external: SHARED is held by every reader,   *)
(* RESERVED by the one writer, and a COMMIT needs to be the only reader.   *)
(* The connection has timeout 0, so a lock that is taken is SQLITE_BUSY at *)
(* once and nobody ever waits.                                             *)
(***************************************************************************)
EXTENDS Naturals

CONSTANTS
  Launchers,   (* process ids a launcher may run under                     *)
  NoLauncher,  (* no process id                                            *)
  MaxRuns,     (* bound: launcher runs in a behaviour (one token each)     *)
  MaxCrashes,  (* bound: launchers killed between two steps                *)
  PidReuse     (* may a pid the row still names run another process?       *)

ASSUME LockAssumption ==
  /\ NoLauncher \notin Launchers
  /\ MaxRuns \in Nat
  /\ MaxCrashes \in Nat
  /\ PidReuse \in BOOLEAN

VARIABLES
  row,      (* the committed update_lock row                               *)
  shared,   (* launchers holding SQLite's SHARED lock                      *)
  reserved, (* the launcher holding SQLite's RESERVED lock                 *)
  pc,       (* what each process id is doing; "off" is a dead pid          *)
  token,    (* the owner token the launcher drew when it started           *)
  observed, (* the row a launcher read in its first transaction            *)
  outcome,  (* how the launcher's run ended                                *)
  runs,     (* tokens drawn so far                                         *)
  crashes,  (* launchers killed so far                                     *)
  alone     (* history: has this run seen no other process at all?         *)

vars == <<row, shared, reserved, pc, token, observed, outcome, runs, crashes, alone>>

-----------------------------------------------------------------------------
(* The row.  An empty database file has no row yet; the first transaction  *)
(* that sees it so inserts an ownerless one before it reads it.  The       *)
(* random authority token of an ownerless row is abstracted to 0.          *)

Tokens == 0 .. MaxRuns
Rows == [pid : Launchers \union {NoLauncher}, token : Tokens]
WrongOwnerlessIsPidZero == [pid |-> 0, token |-> 0]
Ownerless == [pid |-> NoLauncher, token |-> 0]
OwnRow(p) == [pid |-> p, token |-> token[p]]
Owned(r) == r.pid # NoLauncher

Alive(p) == pc[p] # "off"

(* The long write transaction, and the part of it that holds the lock.     *)
FirstTransaction == {"observe", "probe", "claim"}
Critical == {"recover", "update", "release"}
InTransaction == FirstTransaction \union {"verify"} \union Critical
Reading == {"begin", "rebegin"}
Steps == {"off", "foreign", "open", "reopen", "settled"} \union Reading \union InTransaction

TypeOK ==
  /\ row \in Rows
  /\ shared \subseteq Launchers
  /\ reserved \in Launchers \union {NoLauncher}
  /\ pc \in [Launchers -> Steps]
  /\ token \in [Launchers -> Tokens]
  /\ observed \in [Launchers -> Rows]
  /\ outcome \in [Launchers -> {"none", "updated", "busy", "invalid", "failed"}]
  /\ runs \in Tokens
  /\ crashes \in 0 .. MaxCrashes
  /\ alone \in [Launchers -> BOOLEAN]

Init ==
  /\ row = Ownerless
  /\ shared = {}
  /\ reserved = NoLauncher
  /\ pc = [p \in Launchers |-> "off"]
  /\ token = [p \in Launchers |-> 0]
  /\ observed = [p \in Launchers |-> Ownerless]
  /\ outcome = [p \in Launchers |-> "none"]
  /\ runs = 0
  /\ crashes = 0
  /\ alone = [p \in Launchers |-> FALSE]

-----------------------------------------------------------------------------
(* Helpers: a step of one launcher, and the ways its run ends.             *)

Goto(p, from, to) ==
  /\ pc[p] = from
  /\ pc' = [pc EXCEPT ![p] = to]

DropLocks(p) ==
  /\ shared' = shared \ {p}
  /\ reserved' = IF reserved = p THEN NoLauncher ELSE reserved

(* The catch of acquireUpdateLock: roll back, close the connection.        *)
Fail(p, from, why) ==
  /\ Goto(p, from, "settled")
  /\ DropLocks(p)
  /\ outcome' = [outcome EXCEPT ![p] = why]
  /\ UNCHANGED <<row, token, observed, runs, crashes, alone>>

OnlyReader(p) == shared \subseteq {p}

(* A launcher starts: it draws a random token and opens the database.      *)
Start(p) ==
  /\ Goto(p, "off", "open")
  /\ runs < MaxRuns
  /\ PidReuse \/ row.pid # p
  /\ runs' = runs + 1
  /\ token' = [token EXCEPT ![p] = runs + 1]
  /\ observed' = [observed EXCEPT ![p] = Ownerless]
  /\ outcome' = [outcome EXCEPT ![p] = "none"]
  /\ alone' = [q \in Launchers |-> q = p /\ \A o \in Launchers \ {p} : ~Alive(o)]
  /\ UNCHANGED <<row, shared, reserved, crashes>>

(* BEGIN IMMEDIATE takes SHARED and then RESERVED: a commit of another     *)
(* process can fall between the two.                                       *)
TakeShared(p) ==
  /\ \/ Goto(p, "open", "begin")
     \/ Goto(p, "reopen", "rebegin")
  /\ shared' = shared \union {p}
  /\ UNCHANGED <<row, reserved, token, observed, outcome, runs, crashes, alone>>

TakeReserved(p, from, to) ==
  /\ Goto(p, from, to)
  /\ reserved = NoLauncher
  /\ reserved' = p
  /\ UNCHANGED <<row, shared, token, observed, outcome, runs, crashes, alone>>

Begin(p) ==
  \/ TakeReserved(p, "begin", "observe")
  \/ reserved # NoLauncher /\ Fail(p, "begin", "busy")

(* readAuthority: an ownerless row may be claimed, an owner is probed.     *)
Observe(p) ==
  /\ Goto(p, "observe", IF Owned(row) THEN "probe" ELSE "claim")
  /\ observed' = [observed EXCEPT ![p] = row]
  /\ UNCHANGED <<row, shared, reserved, token, outcome, runs, crashes, alone>>

(* Wrong on purpose, as are all definitions named Wrong...: what the runs  *)
(* must notice if the code did it.                                         *)
WrongOwnerIsAlwaysDead(p) == TRUE
WrongOwnerIsNeverDead(p) == FALSE

OwnerIsDead(p) == ~Alive(observed[p].pid)

Probe(p) ==
  /\ pc[p] = "probe"
  /\ \/ /\ OwnerIsDead(p)
        /\ Goto(p, "probe", "claim")
        /\ UNCHANGED <<row, shared, reserved, token, observed, outcome, runs, crashes, alone>>
     \/ ~OwnerIsDead(p) /\ Fail(p, "probe", "busy")

(* claimAuthority and COMMIT: the compare-and-set on the observed row, and *)
(* the end of the first transaction.                                       *)
Claim(p) ==
  IF row = observed[p] /\ OnlyReader(p)
  THEN /\ Goto(p, "claim", "reopen")
       /\ row' = OwnRow(p)
       /\ DropLocks(p)
       /\ UNCHANGED <<token, observed, outcome, runs, crashes, alone>>
  ELSE Fail(p, "claim", IF row = observed[p] THEN "busy" ELSE "invalid")

(* The second BEGIN IMMEDIATE: the committed row stays when it is BUSY.    *)
Rebegin(p) ==
  \/ TakeReserved(p, "rebegin", "verify")
  \/ reserved # NoLauncher /\ Fail(p, "rebegin", "busy")

Verify(p) ==
  IF row # OwnRow(p)
  THEN Fail(p, "verify", "invalid")
  ELSE /\ Goto(p, "verify", "recover")
       /\ UNCHANGED <<row, shared, reserved, token, observed, outcome, runs, crashes, alone>>

WrongRecoverReleases(p) ==
  /\ Goto(p, "recover", "update")
  /\ outcome' = [outcome EXCEPT ![p] = "updated"]
  /\ row' = Ownerless
  /\ DropLocks(p)
  /\ UNCHANGED <<token, observed, runs, crashes, alone>>

(* enterOwnedRecovery: the callback runs while the lock is held; when it   *)
(* fails the lock is released and its error is the caller's.               *)
Recover(p) ==
  /\ \/ Goto(p, "recover", "update") /\ outcome' = [outcome EXCEPT ![p] = "updated"]
     \/ Goto(p, "recover", "release") /\ outcome' = [outcome EXCEPT ![p] = "failed"]
  /\ UNCHANGED <<row, shared, reserved, token, observed, runs, crashes, alone>>

Update(p) ==
  /\ Goto(p, "update", "release")
  /\ UNCHANGED <<row, shared, reserved, token, observed, outcome, runs, crashes, alone>>

(* release(): clear the owner and commit.  A reader that has just taken    *)
(* SHARED makes the COMMIT BUSY: the transaction is rolled back, the       *)
(* connection closed, and the row still names this launcher.               *)
Release(p) ==
  \/ /\ Goto(p, "release", "settled")
     /\ row = OwnRow(p)
     /\ OnlyReader(p)
     /\ row' = Ownerless
     /\ DropLocks(p)
     /\ UNCHANGED <<token, observed, outcome, runs, crashes, alone>>
  \/ (row # OwnRow(p) \/ ~OnlyReader(p)) /\ Fail(p, "release", "invalid")

(* The command ends and its process exits.                                 *)
Exit(p) ==
  /\ Goto(p, "settled", "off")
  /\ UNCHANGED <<row, shared, reserved, token, observed, outcome, runs, crashes, alone>>

-----------------------------------------------------------------------------
(* The environment.                                                        *)

(* A launcher is killed; the kernel drops its file locks and SQLite rolls  *)
(* its open transaction back.                                              *)
Crash(p) ==
  /\ pc[p] \notin {"off", "foreign"}
  /\ crashes < MaxCrashes
  /\ crashes' = crashes + 1
  /\ pc' = [pc EXCEPT ![p] = "off"]
  /\ DropLocks(p)
  /\ UNCHANGED <<row, token, observed, outcome, runs, alone>>

(* Another program gets a dead pid, and later exits.                       *)
ForeignStart(p) ==
  /\ PidReuse
  /\ Goto(p, "off", "foreign")
  /\ alone' = [q \in Launchers |-> FALSE]
  /\ UNCHANGED <<row, shared, reserved, token, observed, outcome, runs, crashes>>

ForeignExit(p) ==
  /\ Goto(p, "foreign", "off")
  /\ UNCHANGED <<row, shared, reserved, token, observed, outcome, runs, crashes, alone>>

-----------------------------------------------------------------------------
Step(p) ==
  \/ TakeShared(p) \/ Begin(p) \/ Observe(p) \/ Probe(p) \/ Claim(p)
  \/ Rebegin(p) \/ Verify(p) \/ Recover(p) \/ Update(p) \/ Release(p) \/ Exit(p)

Next ==
  \E p \in Launchers :
    Start(p) \/ Step(p) \/ Crash(p) \/ ForeignStart(p) \/ ForeignExit(p)

Spec == Init /\ [][Next]_vars

-----------------------------------------------------------------------------
(* Properties.                                                             *)

(* Two launchers never recover or update at the same time (lock.ts         *)
(* 177-180: a contender in the scheduling window "still cannot cause       *)
(* duplicate recovery").                                                   *)
MutualExclusion ==
  \A p, q \in Launchers : pc[p] \in Critical /\ pc[q] \in Critical => p = q

(* While a launcher recovers or updates, the committed row names exactly   *)
(* this run of it: its pid and the token it drew (lock.ts 183-186, and     *)
(* what release() compares again before it clears the row).                *)
HeldMeansOwned ==
  \A p \in Launchers : pc[p] \in Critical => row = OwnRow(p)

(* The run that wrote the row is still executing.                          *)
OwnerRunning ==
  /\ Owned(row)
  /\ pc[row.pid] \notin {"off", "foreign"}
  /\ row = OwnRow(row.pid)

(* Nobody but the owner's own release takes the row from a run that is     *)
(* still executing, in the window between its two transactions included    *)
(* (lock.ts 156-161).                                                      *)
LiveOwnerKeepsAuthority ==
  [][OwnerRunning => pc[row.pid] = "release"]_row

(* A launcher that never met another process fails only because its own    *)
(* recovery does: no crash and no lost race of the past leaves a row or a  *)
(* lock behind that keeps the next one out (lock.ts 156-161).  The one     *)
(* exception is a launcher that runs under the very pid the stale row      *)
(* names: the liveness probe then finds the caller itself.                 *)
SoloLauncherAcquires ==
  \A p \in Launchers :
    alone[p] => \/ outcome[p] \in {"none", "updated", "failed"}
                \/ outcome[p] = "busy" /\ observed[p].pid = p
=============================================================================
