-------------------------- MODULE CredentialSession --------------------------
(***************************************************************************)
(* The stored credential and the processes that share it: a launch that    *)
(* lends it to the engine (preparePrivacyCredential), goat usage, login    *)
(* and logout.  Each reads the OS keyring, talks to the control plane and  *)
(* writes the keyring, with an await between any two of these, and nothing *)
(* keeps two of them apart.  A credential set is named by its refresh      *)
(* token, which the control plane rotates once; a second use ends the      *)
(* session (client.ts:607-610).  The control plane is external.            *)
(***************************************************************************)
EXTENDS Naturals, Sequences, FiniteSets

CONSTANTS
  Callers,      \* invocations that may run at the same time
  ClientOf,     \* the auth client of each; one process has one
  Commands,     \* the commands that are run
  MaxTokens,    \* bound on the refresh tokens issued
  MaxFaults,    \* bound on lost messages, keyring errors and crashes
  MaxActive     \* bound on the invocations running at once

AllCommands == {"launch", "usage", "login", "logout", "logout --local-only"}

ASSUME CredentialAssumption ==
  /\ IsFiniteSet(Callers) /\ "nobody" \notin Callers
  /\ Commands \subseteq AllCommands
  /\ MaxTokens \in Nat \ {0} /\ MaxFaults \in Nat /\ MaxActive \in Nat \ {0}

VARIABLES
  keyring,      \* the stored credential, or NoCredential
  session,      \* session[t]: the login session that token t belongs to
  live,         \* the tokens the control plane will rotate
  stale,        \* the tokens whose access token is about to expire
  lapsed,       \* the tokens that have expired themselves
  caller,       \* what each invocation is doing, and its local variables
  table,        \* activeRefresh: the callers whose refresh is its entry
  verified,     \* the tokens that were ever read from the keyring
  faults

server == <<session, live>>
clock == <<stale, lapsed>>
vars == <<keyring, server, clock, caller, table, verified, faults>>

Tokens == 1 .. MaxTokens
Issued == DOMAIN session
NoToken == 0
NoCredential == [token |-> NoToken, device |-> FALSE]
Credentials == [token : Tokens, device : BOOLEAN]   \* device: it is enrolled

Statuses == {"authorized", "refused", "unavailable"}
NoReply == [status |-> "unavailable", token |-> NoToken]

Idle ==
  [pc |-> "idle", command |-> "launch", held |-> NoCredential, previous |-> NoToken,
   again |-> FALSE, reply |-> NoReply, leader |-> "nobody"]

Steps == {"idle", "get", "refresh", "await", "resend", "reply", "set", "verify", "discard",
          "delete", "use", "poll", "provision", "revoke", "revoke previous"}

Invocations ==
  [pc : Steps, command : AllCommands, held : Credentials \union {NoCredential},
   previous : Tokens \union {NoToken}, again : BOOLEAN,
   reply : [status : Statuses, token : Tokens \union {NoToken}],
   leader : Callers \union {"nobody"}]

TypeOK ==
  /\ keyring \in Credentials \union {NoCredential}
  /\ session \in Seq(Tokens) /\ Len(session) <= MaxTokens
  /\ live \subseteq Issued /\ lapsed \subseteq stale /\ stale \subseteq Issued
  /\ caller \in [Callers -> Invocations]
  /\ table \subseteq Callers
  /\ verified \subseteq Issued
  /\ faults \in 0 .. MaxFaults

(* Signed out, or signed in, with or without an enrolled device.           *)
Init ==
  /\ keyring \in {NoCredential} \union [token : {1}, device : BOOLEAN]
  /\ session = IF keyring = NoCredential THEN <<>> ELSE <<1>>
  /\ live = Issued
  /\ verified = Issued
  /\ stale = {} /\ lapsed = {}
  /\ caller = [p \in Callers |-> Idle]
  /\ table = {}
  /\ faults = 0

-----------------------------------------------------------------------------
Goes(p, step) == caller' = [caller EXCEPT ![p].pc = step]
Ends(p) == caller' = [caller EXCEPT ![p] = Idle]

Works == UNCHANGED faults
Fails == faults < MaxFaults /\ faults' = faults + 1

(* The control plane ends the session of a token that is revoked, or that  *)
(* was rotated before.                                                     *)
WithoutSession(t) == {u \in live : session[u] # session[t]}

Revoke(t) ==
  \/ Works /\ live' = WithoutSession(t)
  \/ Fails /\ live' \in {live, WithoutSession(t)}

Fresh(t) == t \notin stale

-----------------------------------------------------------------------------
Start(p, command) ==
  /\ caller[p].pc = "idle"
  /\ Cardinality({q \in Callers : caller[q].pc # "idle"}) < MaxActive
  /\ caller' = [caller EXCEPT ![p] = [Idle EXCEPT !.pc = "get", !.command = command]]
  /\ UNCHANGED <<keyring, server, clock, table, verified, faults>>

(* The first step after store.get() has found a credential.                *)
FirstStep(command, t) ==
  CASE command = "logout" -> "revoke"
    [] command = "logout --local-only" -> "delete"
    [] command = "login" -> "poll"
    [] OTHER -> IF Fresh(t) THEN "use"
                ELSE IF command = "launch" /\ t \in lapsed THEN "delete" ELSE "refresh"

(* A login goes on without a credential, any other command ends: nothing   *)
(* is stored, or the keyring fails.                                        *)
GetNothing(p) ==
  /\ caller[p].pc = "get"
  /\ \/ Works /\ keyring = NoCredential
     \/ Fails
  /\ IF caller[p].command = "login" THEN Goes(p, "poll") ELSE Ends(p)
  /\ UNCHANGED <<keyring, server, clock, table, verified>>

GetCredential(p) ==
  /\ caller[p].pc = "get"
  /\ keyring # NoCredential
  /\ verified' = verified \union {keyring.token}
  /\ caller' = [caller EXCEPT ![p].pc = FirstStep(caller[p].command, keyring.token),
                              ![p].held = keyring]
  /\ UNCHANGED <<keyring, server, clock, table, faults>>

-----------------------------------------------------------------------------
(* refreshWithMutex: a launch joins the refresh of the same token that its *)
(* own client has in flight.                                               *)
SameRefresh(p, q) ==
  ClientOf[p] = ClientOf[q] /\ caller[p].held.token = caller[q].held.token

Pending(p) == {q \in table : SameRefresh(p, q)}

JoinRefresh(p) ==
  /\ caller[p].pc = "refresh"
  /\ caller[p].command = "launch"
  /\ \E q \in Pending(p) :
       caller' = [caller EXCEPT ![p].pc = "await", ![p].leader = q]
  /\ UNCHANGED <<keyring, server, clock, table, verified, faults>>

(* What the control plane makes of a refresh, and its answer.  Beyond the  *)
(* bound on tokens it is out of service.                                   *)
Answers(t) ==
  LET new == Len(session) + 1 IN
  IF t \notin live \ lapsed
  THEN {[session |-> session, live |-> WithoutSession(t),
         reply |-> [status |-> "refused", token |-> NoToken]]}
  ELSE IF new \in Tokens
  THEN {[session |-> Append(session, session[t]), live |-> (live \ {t}) \union {new},
         reply |-> [status |-> "authorized", token |-> new]]}
  ELSE {[session |-> session, live |-> live, reply |-> NoReply]}

(* The request, or its answer, may be lost.                                *)
SendRefresh(p) ==
  /\ caller[p].pc \in {"refresh", "resend"}
  /\ caller[p].pc = "refresh" /\ caller[p].command = "launch" => Pending(p) = {}
  /\ \E a \in Answers(caller[p].held.token) :
       \/ /\ Works
          /\ session' = a.session /\ live' = a.live
          /\ caller' = [caller EXCEPT ![p].pc = "reply", ![p].reply = a.reply]
       \/ /\ Fails
          /\ \/ session' = a.session /\ live' = a.live
             \/ UNCHANGED server
          /\ caller' = [caller EXCEPT ![p].pc = "reply", ![p].reply = NoReply]
  /\ table' = IF caller[p].command = "launch" THEN (table \ Pending(p)) \union {p} ELSE table
  /\ UNCHANGED <<keyring, clock, verified>>

WrongAfterReplyForgettingDevice(q, reply) ==
  CASE reply.status = "authorized" ->
         [caller[q] EXCEPT
            !.pc = IF caller[q].command = "launch" /\ ~Fresh(reply.token) THEN "discard" ELSE "set",
            !.held = [token |-> reply.token, device |-> FALSE]]
    [] reply.status = "refused" -> [caller[q] EXCEPT !.pc = "delete"]
    [] OTHER -> Idle

WrongAfterReplyUnchecked(q, reply) ==
  [caller[q] EXCEPT !.pc = "set", !.held = [token |-> reply.token, device |-> caller[q].held.device]]

WrongAfterReplyKeepingRefused(q, reply) ==
  IF reply.status = "authorized"
  THEN [caller[q] EXCEPT
          !.pc = IF caller[q].command = "launch" /\ ~Fresh(reply.token) THEN "discard" ELSE "set",
          !.held = [token |-> reply.token, device |-> caller[q].held.device]]
  ELSE Idle

(* The refreshed set keeps the enrolled device; a launch does not keep one *)
(* that is about to expire.                                                *)
AfterReply(q, reply) ==
  CASE reply.status = "authorized" ->
         [caller[q] EXCEPT
            !.pc = IF caller[q].command = "launch" /\ ~Fresh(reply.token) THEN "discard" ELSE "set",
            !.held = [token |-> reply.token, device |-> caller[q].held.device]]
    [] reply.status = "refused" -> [caller[q] EXCEPT !.pc = "delete"]
    [] OTHER -> Idle

(* The answer wakes the callers that have joined; they share a success and *)
(* refresh on their own after a failure.                                   *)
ReceiveReply(p) ==
  LET reply == caller[p].reply
      joined == {q \in Callers : caller[q].pc = "await" /\ caller[q].leader = p}
  IN
  /\ caller[p].pc = "reply"
  /\ caller' = [q \in Callers |->
       IF q = p \/ (q \in joined /\ reply.status = "authorized") THEN AfterReply(q, reply)
       ELSE IF q \in joined THEN [caller[q] EXCEPT !.pc = "resend", !.leader = "nobody"]
       ELSE caller[q]]
  /\ table' = table \ {p}
  /\ UNCHANGED <<keyring, server, clock, verified, faults>>

-----------------------------------------------------------------------------
(* store.set() writes the keyring and reads it back; if that fails, the    *)
(* new session is revoked and the keyring cleared.  Only the second write  *)
(* of a login, with the enrolled device, may fail.                         *)
WrongSetFailsWithoutRevoking(p) ==
  Goes(p, IF caller[p].command = "login" /\ caller[p].again THEN "revoke previous" ELSE "delete")

SetFails(p) ==
  Goes(p, IF caller[p].command = "login" /\ caller[p].again THEN "revoke previous" ELSE "discard")

SetCredential(p) ==
  /\ caller[p].pc = "set"
  /\ \/ Works /\ keyring' = caller[p].held /\ Goes(p, "verify")
     \/ Fails /\ keyring' \in {keyring, caller[p].held} /\ SetFails(p)
  /\ UNCHANGED <<server, clock, table, verified>>

VerifySet(p) ==
  /\ caller[p].pc = "verify"
  /\ keyring = caller[p].held
  /\ verified' = verified \union {keyring.token}
  /\ Goes(p, IF caller[p].command # "login" THEN "use"
             ELSE IF caller[p].again THEN "revoke previous" ELSE "provision")
  /\ UNCHANGED <<keyring, server, clock, table, faults>>

WrongVerifyFailsUnnoticed(p) ==
  /\ caller[p].pc = "verify"
  /\ Fails \/ (Works /\ keyring # caller[p].held)
  /\ Goes(p, IF caller[p].command = "login" THEN "revoke previous" ELSE "use")
  /\ UNCHANGED <<keyring, server, clock, table, verified>>

VerifyFails(p) ==
  /\ caller[p].pc = "verify"
  /\ Fails \/ (Works /\ keyring # caller[p].held)
  /\ SetFails(p)
  /\ UNCHANGED <<keyring, server, clock, table, verified>>

(* discardUnstoredCredential, and the first half of a logout.              *)
RevokeSession(p) ==
  /\ caller[p].pc \in {"discard", "revoke"}
  /\ Revoke(caller[p].held.token)
  /\ Goes(p, "delete")
  /\ UNCHANGED <<keyring, session, clock, table, verified>>

DeleteCredential(p) ==
  /\ caller[p].pc = "delete"
  /\ \/ Works /\ keyring' = NoCredential
     \/ Fails /\ UNCHANGED keyring
  /\ Ends(p)
  /\ UNCHANGED <<server, clock, table, verified>>

-----------------------------------------------------------------------------
(* The access token goes to the engine.                                    *)
Lend(p) ==
  /\ caller[p].pc = "use"
  /\ caller[p].command = "launch"
  /\ Ends(p)
  /\ UNCHANGED <<keyring, server, clock, table, verified, faults>>

(* getUsageSummary answers, or finds the access token expired or its       *)
(* session ended: then usage refreshes and asks once more.  An access      *)
(* token outlives the command that has just obtained it.                   *)
Unauthorized(p) ==
  \/ WithoutSession(caller[p].held.token) = live
  \/ ~Fresh(caller[p].held.token) /\ ~caller[p].again

QueryUsage(p) ==
  /\ caller[p].pc = "use"
  /\ caller[p].command = "usage"
  /\ \/ Ends(p)
     \/ /\ Unauthorized(p)
        /\ caller' = [caller EXCEPT ![p].pc = IF caller[p].again THEN "delete" ELSE "refresh",
                                    ![p].again = TRUE]
  /\ UNCHANGED <<keyring, server, clock, table, verified, faults>>

-----------------------------------------------------------------------------
(* runLogin polls until the control plane opens a session or refuses; an   *)
(* answer may be lost.                                                     *)
PollDeviceToken(p) ==
  LET new == Len(session) + 1 IN
  /\ caller[p].pc = "poll"
  /\ new \in Tokens
  /\ session' = Append(session, new)
  /\ live' = live \union {new}
  /\ \/ /\ Works
        /\ caller' = [caller EXCEPT ![p].pc = "set", ![p].previous = caller[p].held.token,
                                    ![p].held = [token |-> new, device |-> FALSE]]
     \/ Fails /\ UNCHANGED caller
  /\ UNCHANGED <<keyring, clock, table, verified>>

NotAuthorized(p) ==
  /\ caller[p].pc = "poll"
  /\ Ends(p)
  /\ UNCHANGED <<keyring, server, clock, table, verified, faults>>

(* Enrolling the device is optional: when it fails the login goes on.      *)
ProvisionDevice(p) ==
  /\ caller[p].pc = "provision"
  /\ \/ caller' = [caller EXCEPT ![p].pc = "set", ![p].again = TRUE, ![p].held.device = TRUE]
     \/ Goes(p, "revoke previous")
  /\ UNCHANGED <<keyring, server, clock, table, verified, faults>>

WrongPreviousKept(p) ==
  /\ caller[p].pc = "revoke previous"
  /\ Ends(p)
  /\ UNCHANGED <<keyring, server, clock, table, verified, faults>>

RevokePrevious(p) ==
  LET t == caller[p].previous IN
  /\ caller[p].pc = "revoke previous"
  /\ IF t \in {NoToken, caller[p].held.token} THEN Works /\ UNCHANGED live ELSE Revoke(t)
  /\ Ends(p)
  /\ UNCHANGED <<keyring, session, clock, table, verified>>

-----------------------------------------------------------------------------
(* A process dies, with every invocation that shares its client.           *)
Crash(p) ==
  /\ caller[p].pc # "idle"
  /\ Fails
  /\ LET dead == {q \in Callers : ClientOf[q] = ClientOf[p]} IN
       /\ caller' = [q \in Callers |-> IF q \in dead THEN Idle ELSE caller[q]]
       /\ table' = table \ dead
  /\ UNCHANGED <<keyring, server, clock, verified>>

(* Time passes: an access token expires, and later its refresh token.      *)
ExpireAccess ==
  /\ \E t \in Issued \ stale : stale' = stale \union {t}
  /\ UNCHANGED <<keyring, server, lapsed, caller, table, verified, faults>>

ExpireRefresh ==
  /\ \E t \in stale \ lapsed : lapsed' = lapsed \union {t}
  /\ UNCHANGED <<keyring, server, stale, caller, table, verified, faults>>

Runs(p) ==
  \/ GetNothing(p) \/ GetCredential(p) \/ JoinRefresh(p) \/ SendRefresh(p) \/ ReceiveReply(p)
  \/ SetCredential(p) \/ VerifySet(p) \/ VerifyFails(p) \/ RevokeSession(p)
  \/ DeleteCredential(p) \/ Lend(p) \/ QueryUsage(p)
  \/ PollDeviceToken(p) \/ NotAuthorized(p) \/ ProvisionDevice(p) \/ RevokePrevious(p)

Next ==
  \/ \E p \in Callers, command \in Commands : Start(p, command)
  \/ \E p \in Callers : Runs(p) \/ Crash(p)
  \/ ExpireAccess
  \/ ExpireRefresh

Spec == Init /\ [][Next]_vars

FairSpec ==
  /\ Spec
  /\ \A p \in Callers : WF_vars(Runs(p)) /\ SF_vars(Start(p, "launch"))
  /\ WF_vars(ExpireAccess)

-----------------------------------------------------------------------------
(* Nobody is running a command.                                            *)
Quiet == \A p \in Callers : caller[p].pc = "idle"

(* The open sessions whose token is not the stored one, so that nobody can *)
(* use or end them, and the stored token, if it will not be rotated.       *)
Orphans == (live \ lapsed) \ {keyring.token}
StoredDead == {keyring.token} \ ({NoToken} \union live)

(* UsedOnlyVerified: a token goes to an engine, or into a request for      *)
(* usage, only after it was read back from the keyring ("Newly issued or   *)
(* rotated credentials are used only after a verified keyring write",      *)
(* 04-cli-implementation-report.md:149).                                   *)
UsedOnlyVerified ==
  \A p \in Callers : caller[p].pc = "use" => caller[p].held.token \in verified

(* SessionsAgree: when commands do not overlap, the keyring and the        *)
(* control plane disagree on no more sessions than there were lost         *)
(* messages, keyring errors and crashes: no command leaves a session open  *)
(* without its token, or a useless token stored, of its own accord         *)
(* (discardUnstoredCredential, login.ts:150-161, logout.ts:32-44).         *)
SessionsAgree ==
  Quiet => Cardinality({session[t] : t \in Orphans \union StoredDead}) <= faults

(* LiveIsStored: launches, usages and logouts of separate processes that   *)
(* race for one token never leave a session open without its token: who    *)
(* loses finds the session ended.  Only a refresh token that expires while *)
(* another process rotates it may (credential-session.ts:79-80).           *)
LiveIsStored ==
  Quiet => \A t \in Orphans : \E u \in lapsed : session[u] = session[t]

(* DeviceKept: refreshing, by whoever wins, never stores a session again   *)
(* without its enrolled device (credential-session.ts:110-115).            *)
DeviceKept ==
  [][keyring.device /\ keyring'.token # NoToken /\ session'[keyring'.token] = session[keyring.token]
       => keyring'.device]_vars

(* DeadCredentialsGo: a stored token that was rotated or revoked without   *)
(* its successor being stored does not keep the user out: a later launch   *)
(* has it refused and clears it (credential-session.ts:88-97).             *)
DeadCredentialsGo == (StoredDead # {}) ~> (StoredDead = {})
=============================================================================
