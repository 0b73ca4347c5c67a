----------------------- MODULE CredentialSession_proofs -----------------------
(***************************************************************************)
(* What CredentialSession guarantees for any number of invocations and     *)
(* clients, any commands and any bounds.                                   *)
(***************************************************************************)
EXTENDS CredentialSession, FiniteSetTheorems, SequenceTheorems, TLAPS

(* The steps that revoke, refresh, store or lend the token they hold.      *)
TokenSteps == {"refresh", "await", "resend", "reply", "set", "verify", "discard", "revoke",
               "use", "provision"}

(* An invocation only knows issued tokens, has one in the steps that need  *)
(* one, and uses it only when it was read from the keyring.                *)
Sound(r, issued, read) ==
  /\ r \in Invocations
  /\ {r.held.token, r.previous, r.reply.token} \subseteq issued \union {NoToken}
  /\ r.pc \in TokenSteps => r.held.token \in issued
  /\ r.reply.status = "authorized" => r.reply.token \in issued
  /\ r.pc = "use" => r.held.token \in read

(* Everything but the invocations.                                         *)
Shared ==
  /\ keyring \in Credentials \union {NoCredential}
  /\ keyring.token \in Issued \union {NoToken}
  /\ session \in Seq(Tokens) /\ Len(session) <= MaxTokens
  /\ live \subseteq Issued /\ lapsed \subseteq stale /\ stale \subseteq Issued
  /\ table \subseteq Callers
  /\ verified \subseteq Issued
  /\ faults \in 0 .. MaxFaults

CredentialInv ==
  /\ Shared
  /\ caller \in [Callers -> Invocations]
  /\ \A p \in Callers : Sound(caller[p], Issued, verified)

-----------------------------------------------------------------------------
(* Issuing a token adds it and changes no earlier one.                     *)
LEMMA IssuedAfterAppend ==
  ASSUME NEW s, s \in Seq(Tokens), Len(s) + 1 \in Tokens, NEW u \in Tokens
  PROVE  /\ Append(s, u) \in Seq(Tokens)
         /\ Len(Append(s, u)) <= MaxTokens
         /\ DOMAIN Append(s, u) = DOMAIN s \union {Len(s) + 1}
BY CredentialAssumption DEF Tokens

(* NoToken is no token.                                                    *)
LEMMA CredentialTypes ==
  /\ \A cred \in Credentials \union {NoCredential} :
       /\ cred.token \in Tokens \union {NoToken}
       /\ cred.device \in BOOLEAN
       /\ cred.token \in Tokens => cred \in Credentials
  /\ \A u \in Tokens, d \in BOOLEAN : [token |-> u, device |-> d] \in Credentials
  /\ NoToken \notin Tokens
<1>1. NoToken \notin Tokens
  BY CredentialAssumption DEF NoToken, Tokens
<1>2. \A cred \in Credentials : cred.token \in Tokens /\ cred.device \in BOOLEAN
  BY DEF Credentials
<1>3. NoCredential.token = NoToken /\ NoCredential.device \in BOOLEAN
  BY DEF NoCredential
<1>4. \A u \in Tokens, d \in BOOLEAN : [token |-> u, device |-> d] \in Credentials
  BY DEF Credentials
<1>. QED
  BY <1>1, <1>2, <1>3, <1>4

(* An invocation that has ended, or not begun, is sound.                   *)
LEMMA IdleSound == \A issued, read : Sound(Idle, issued, read)
BY DEF Sound, Idle, Invocations, Steps, TokenSteps, AllCommands, NoCredential, NoReply, Statuses

(* What is sound stays so when more is issued and read.                    *)
LEMMA SoundGrows ==
  ASSUME NEW r, NEW i1, NEW i2, NEW v1, NEW v2, Sound(r, i1, v1), i1 \subseteq i2, v1 \subseteq v2
  PROVE  Sound(r, i2, v2)
BY DEF Sound

(* Going on to another step keeps an invocation sound, provided it has the *)
(* token that the step needs.                                              *)
LEMMA SoundStep ==
  ASSUME NEW r, NEW i, NEW v, NEW step \in Steps, Sound(r, i, v),
         step \in TokenSteps => r.held.token \in i,
         step = "use" => r.held.token \in v
  PROVE  Sound([r EXCEPT !.pc = step], i, v)
BY DEF Sound, Invocations

(* A step of one invocation preserves the invariant if what it leaves is   *)
(* sound, and it forgets no token.                                         *)
LEMMA OneCaller ==
  ASSUME CredentialInv, Shared', Issued \subseteq Issued', verified \subseteq verified',
         NEW p \in Callers, NEW r, caller' = [caller EXCEPT ![p] = r],
         Sound(r, Issued', verified')
  PROVE  CredentialInv'
<1>1. caller' \in [Callers -> Invocations]
  BY DEF CredentialInv, Sound
<1>2. ASSUME NEW q \in Callers PROVE Sound(caller'[q], Issued', verified')
  BY SoundGrows DEF CredentialInv
<1>. QED
  BY <1>1, <1>2 DEF CredentialInv

(* The invariant holds where a behaviour may begin.                        *)
LEMMA CredentialInit == Init => CredentialInv
<1> SUFFICES ASSUME Init PROVE CredentialInv
  OBVIOUS
<1>1. 1 \in Tokens /\ MaxTokens \in Nat /\ MaxFaults \in Nat
  BY CredentialAssumption DEF Tokens
<1>2. /\ session \in Seq(Tokens) /\ Len(session) <= MaxTokens
      /\ keyring.token \in Issued \union {NoToken}
  <2>1. <<>> \in Seq(Tokens) /\ Len(<<>>) = 0 /\ DOMAIN <<>> = {}
    OBVIOUS
  <2>2. <<1>> \in Seq(Tokens) /\ Len(<<1>>) = 1 /\ DOMAIN <<1>> = {1}
    BY <1>1
  <2>3. 1 <= MaxTokens
    BY <1>1, CredentialAssumption
  <2>. QED
    BY <1>1, <2>1, <2>2, <2>3 DEF Init, Issued, NoCredential, NoToken
<1>3. Shared
  BY <1>1, <1>2 DEF Init, Shared, Credentials
<1>4. \A p \in Callers : caller[p] = Idle /\ Sound(caller[p], Issued, verified)
  BY IdleSound DEF Init
<1>. QED
  BY <1>3, <1>4 DEF Init, CredentialInv, Sound

-----------------------------------------------------------------------------
(* Every step preserves the invariant.                                     *)
LEMMA CredentialNext == CredentialInv /\ [Next]_vars => CredentialInv'
<1> SUFFICES ASSUME CredentialInv, [Next]_vars PROVE CredentialInv'
  OBVIOUS
<1>typed. /\ Shared
          /\ \A p \in Callers : Sound(caller[p], Issued, verified)
          /\ \A p \in Callers : caller[p] \in Invocations
          /\ MaxFaults \in Nat
  BY CredentialAssumption DEF CredentialInv
<1>1. ASSUME NEW p \in Callers, NEW command \in Commands, Start(p, command) PROVE CredentialInv'
  <2>1. Shared' /\ Issued \subseteq Issued' /\ verified \subseteq verified'
    BY <1>1, <1>typed DEF Start, Shared, Issued, clock, server
  <2>2. Sound([Idle EXCEPT !.pc = "get", !.command = command], Issued', verified')
    BY CredentialAssumption DEF Sound, Idle, Invocations, Steps, TokenSteps, AllCommands,
       NoCredential, NoReply, Statuses
  <2>. QED
    BY <1>1, <2>1, <2>2, OneCaller DEF Start
<1>2. ASSUME NEW p \in Callers, GetNothing(p) PROVE CredentialInv'
  <2>1. Shared' /\ Issued \subseteq Issued' /\ verified \subseteq verified'
    BY <1>2, <1>typed DEF GetNothing, Works, Fails, Shared, Issued, clock, server
  <2>2. CASE caller' = [caller EXCEPT ![p] = Idle]
    BY <2>1, <2>2, IdleSound, OneCaller
  <2>3. CASE \E step \in {"poll"} : caller' = [caller EXCEPT ![p] = [caller[p] EXCEPT !.pc = step]]
    <3>1. PICK step \in {"poll"} : caller' = [caller EXCEPT ![p] = [caller[p] EXCEPT !.pc = step]]
      BY <2>3
    <3>2. Sound(caller[p], Issued', verified')
      BY <1>typed, <2>1, SoundGrows
    <3>3. Sound([caller[p] EXCEPT !.pc = step], Issued', verified')
      BY <3>2, SoundStep DEF Steps, TokenSteps
    <3>. QED
      BY <2>1, <3>1, <3>3, OneCaller
  <2>. QED
    BY <1>2, <2>2, <2>3 DEF GetNothing, Goes, Ends
<1>3. ASSUME NEW p \in Callers, GetCredential(p) PROVE CredentialInv'
  <2>0. keyring \in Credentials /\ keyring.token \in Issued
    <3>1. keyring \in Credentials
      BY <1>3, <1>typed DEF GetCredential, Shared
    <3>2. keyring.token \in Tokens
      BY <3>1 DEF Credentials
    <3>. QED
      BY <1>typed, <3>1, <3>2, CredentialTypes DEF Shared
  <2>1. Shared' /\ Issued \subseteq Issued' /\ verified \subseteq verified'
    BY <1>3, <1>typed, <2>0 DEF GetCredential, Shared, Issued, clock, server
  <2>. DEFINE r == [caller[p] EXCEPT !.pc = FirstStep(caller[p].command, keyring.token),
                                     !.held = keyring]
  <2>2. caller' = [caller EXCEPT ![p] = r]
    BY <1>3 DEF GetCredential
  <2>3. keyring.token \in Issued /\ keyring.token \in verified'
    BY <1>3, <2>0 DEF GetCredential
  <2>4. FirstStep(caller[p].command, keyring.token) \in Steps
    BY DEF FirstStep, Steps
  <2>5. r \in Invocations
    BY <1>typed, <2>0, <2>4 DEF Invocations
  <2>6. r.held = keyring /\ r.previous = caller[p].previous /\ r.reply = caller[p].reply
    BY <1>typed DEF Invocations
  <2>7. Sound(r, Issued', verified')
    BY <1>typed, <2>1, <2>3, <2>5, <2>6 DEF Sound
  <2>. QED
    BY <2>1, <2>2, <2>7, OneCaller
<1>4. ASSUME NEW p \in Callers, JoinRefresh(p) PROVE CredentialInv'
  <2>1. Shared' /\ Issued \subseteq Issued' /\ verified \subseteq verified'
    BY <1>4, <1>typed DEF JoinRefresh, Shared, Issued, clock, server
  <2>2. PICK q \in Callers : caller' = [caller EXCEPT ![p] = [caller[p] EXCEPT !.pc = "await", !.leader = q]]
    BY <1>4, <1>typed DEF JoinRefresh, Pending, Shared
  <2>3. Sound([caller[p] EXCEPT !.pc = "await", !.leader = q], Issued', verified')
    <3>. DEFINE r == [caller[p] EXCEPT !.pc = "await", !.leader = q]
    <3>1. caller[p].held.token \in Issued
      BY <1>4, <1>typed DEF JoinRefresh, Sound, TokenSteps
    <3>2. r \in Invocations
      BY <1>typed DEF Invocations, Steps
    <3>3. /\ r.held = caller[p].held /\ r.previous = caller[p].previous
          /\ r.reply = caller[p].reply /\ r.pc = "await"
      BY <1>typed DEF Invocations
    <3>. QED
      BY <1>typed, <2>1, <3>1, <3>2, <3>3 DEF Sound
  <2>. QED
    BY <2>1, <2>2, <2>3, OneCaller
<1>5. ASSUME NEW p \in Callers, SetCredential(p) PROVE CredentialInv'
  <2>. DEFINE held == caller[p].held
  <2>0. held \in Credentials \union {NoCredential} /\ held.token \in Issued
    BY <1>5, <1>typed DEF SetCredential, Sound, Invocations, TokenSteps
  <2>1. Shared' /\ Issued \subseteq Issued' /\ verified \subseteq verified'
    BY <1>5, <1>typed, <2>0 DEF SetCredential, Works, Fails, Shared, Issued, clock, server
  <2>2. PICK step \in {"verify", "revoke previous", "discard"} :
          caller' = [caller EXCEPT ![p] = [caller[p] EXCEPT !.pc = step]]
    BY <1>5 DEF SetCredential, SetFails, Goes
  <2>3. Sound([caller[p] EXCEPT !.pc = step], Issued', verified')
    <3>1. Sound(caller[p], Issued', verified')
      BY <1>typed, <2>1, SoundGrows
    <3>. QED
      BY <2>0, <2>1, <3>1, SoundStep DEF Steps
  <2>. QED
    BY <2>1, <2>2, <2>3, OneCaller
<1>6. ASSUME NEW p \in Callers, VerifySet(p) PROVE CredentialInv'
  <2>0. caller[p].held.token \in Issued /\ caller[p].held = keyring
    BY <1>6, <1>typed DEF VerifySet, Sound, TokenSteps
  <2>1. Shared' /\ Issued \subseteq Issued' /\ verified \subseteq verified'
    BY <1>6, <1>typed, <2>0 DEF VerifySet, Shared, Issued, clock, server
  <2>2. PICK step \in {"use", "revoke previous", "provision"} :
          caller' = [caller EXCEPT ![p] = [caller[p] EXCEPT !.pc = step]]
    <3>1. PICK step \in {"use", "revoke previous", "provision"} : Goes(p, step)
      BY <1>6 DEF VerifySet
    <3>. QED
      BY <3>1 DEF Goes
  <2>3. caller[p].held.token \in verified'
    BY <1>6, <2>0 DEF VerifySet
  <2>4. Sound(caller[p], Issued', verified')
    BY <1>typed, <2>1, SoundGrows
  <2>5. Sound([caller[p] EXCEPT !.pc = step], Issued', verified')
    BY <2>0, <2>1, <2>3, <2>4, SoundStep DEF Steps
  <2>. QED
    BY <2>1, <2>2, <2>5, OneCaller
<1>7. ASSUME NEW p \in Callers, VerifyFails(p) PROVE CredentialInv'
  <2>1. Shared' /\ Issued \subseteq Issued' /\ verified \subseteq verified'
    BY <1>7, <1>typed DEF VerifyFails, Works, Fails, Shared, Issued, clock, server
  <2>2. PICK step \in {"revoke previous", "discard"} : caller' = [caller EXCEPT ![p] = [caller[p] EXCEPT !.pc = step]]
    BY <1>7 DEF VerifyFails, SetFails, Goes
  <2>3. Sound([caller[p] EXCEPT !.pc = step], Issued', verified')
    <3>1. Sound(caller[p], Issued', verified')
      BY <1>typed, <2>1, SoundGrows
    <3>2. caller[p].held.token \in Issued'
      BY <1>7, <1>typed, <2>1 DEF VerifyFails, Sound, TokenSteps
    <3>. QED
      BY <3>1, <3>2, SoundStep DEF Steps
  <2>. QED
    BY <2>1, <2>3, <2>2, OneCaller
<1>8. ASSUME NEW p \in Callers, RevokeSession(p) PROVE CredentialInv'
  <2>1. Shared' /\ Issued \subseteq Issued' /\ verified \subseteq verified'
    BY <1>8, <1>typed DEF RevokeSession, Revoke, WithoutSession, Works, Fails, Shared, Issued, clock, server
  <2>2. PICK step \in {"delete"} : caller' = [caller EXCEPT ![p] = [caller[p] EXCEPT !.pc = step]]
    BY <1>8 DEF RevokeSession, Goes
  <2>3. Sound([caller[p] EXCEPT !.pc = step], Issued', verified')
    <3>1. Sound(caller[p], Issued', verified')
      BY <1>typed, <2>1, SoundGrows
    <3>. QED
      BY <3>1, SoundStep DEF Steps, TokenSteps
  <2>. QED
    BY <2>1, <2>3, <2>2, OneCaller
<1>9. ASSUME NEW p \in Callers, DeleteCredential(p) PROVE CredentialInv'
  <2>1. Shared' /\ Issued \subseteq Issued' /\ verified \subseteq verified'
    <3>1. NoCredential.token = NoToken
      BY DEF NoCredential
    <3>. QED
      BY <1>9, <1>typed, <3>1 DEF DeleteCredential, Works, Fails, Shared, Issued, clock, server
  <2>2. caller' = [caller EXCEPT ![p] = Idle]
    BY <1>9 DEF DeleteCredential, Ends, Works, Fails
  <2>. QED
    BY <2>1, <2>2, IdleSound, OneCaller
<1>10. ASSUME NEW p \in Callers, Lend(p) PROVE CredentialInv'
  <2>1. Shared' /\ Issued \subseteq Issued' /\ verified \subseteq verified'
    BY <1>10, <1>typed DEF Lend, Ends, Shared, Issued, clock, server
  <2>2. caller' = [caller EXCEPT ![p] = Idle]
    BY <1>10 DEF Lend, Ends
  <2>. QED
    BY <2>1, <2>2, IdleSound, OneCaller
<1>11. ASSUME NEW p \in Callers, QueryUsage(p) PROVE CredentialInv'
  <2>1. Shared' /\ Issued \subseteq Issued' /\ verified \subseteq verified'
    BY <1>11, <1>typed DEF QueryUsage, Shared, Issued, clock, server
  <2>2. CASE caller' = [caller EXCEPT ![p] = Idle]
    BY <2>1, <2>2, IdleSound, OneCaller
  <2>3. CASE \E step \in {"delete", "refresh"} :
               caller' = [caller EXCEPT ![p] = [caller[p] EXCEPT !.pc = step, !.again = TRUE]]
    <3>1. PICK step \in {"delete", "refresh"} :
            caller' = [caller EXCEPT ![p] = [caller[p] EXCEPT !.pc = step, !.again = TRUE]]
      BY <2>3
    <3>2. Sound([caller[p] EXCEPT !.pc = step, !.again = TRUE], Issued', verified')
      <4>. DEFINE r == [caller[p] EXCEPT !.pc = step, !.again = TRUE]
      <4>1. caller[p].held.token \in Issued
        BY <1>11, <1>typed DEF QueryUsage, Sound, TokenSteps
      <4>2. r \in Invocations
        BY <1>typed DEF Invocations, Steps
      <4>3. /\ r.held = caller[p].held /\ r.previous = caller[p].previous
            /\ r.reply = caller[p].reply /\ r.pc # "use"
        BY <1>typed DEF Invocations
      <4>. QED
        BY <1>typed, <2>1, <4>1, <4>2, <4>3 DEF Sound
    <3>. QED
      BY <2>1, <3>1, <3>2, OneCaller
  <2>. QED
    BY <1>11, <2>2, <2>3 DEF QueryUsage, Ends
<1>12. ASSUME NEW p \in Callers, NotAuthorized(p) PROVE CredentialInv'
  <2>1. Shared' /\ Issued \subseteq Issued' /\ verified \subseteq verified'
    BY <1>12, <1>typed DEF NotAuthorized, Ends, Shared, Issued, clock, server
  <2>2. caller' = [caller EXCEPT ![p] = Idle]
    BY <1>12 DEF NotAuthorized, Ends
  <2>. QED
    BY <2>1, <2>2, IdleSound, OneCaller
<1>13. ASSUME NEW p \in Callers, ProvisionDevice(p) PROVE CredentialInv'
  <2>1. Shared' /\ Issued \subseteq Issued' /\ verified \subseteq verified'
    BY <1>13, <1>typed DEF ProvisionDevice, Shared, Issued, clock, server
  <2>. DEFINE enrolled == [caller[p] EXCEPT !.pc = "set", !.again = TRUE, !.held.device = TRUE]
               skipped == [caller[p] EXCEPT !.pc = "revoke previous"]
  <2>2. caller' = [caller EXCEPT ![p] = enrolled] \/ caller' = [caller EXCEPT ![p] = skipped]
    BY <1>13 DEF ProvisionDevice, Goes
  <2>3. caller[p].held.token \in Issued /\ caller[p].held \in Credentials
    <3>1. caller[p].held.token \in Issued
      BY <1>13, <1>typed DEF ProvisionDevice, Sound, TokenSteps
    <3>2. caller[p].held \in Credentials \union {NoCredential} /\ Issued \subseteq Tokens
      BY <1>typed, CredentialAssumption DEF Invocations, Shared, Issued, Tokens
    <3>. QED
      BY <3>1, <3>2, CredentialTypes
  <2>4. Sound(enrolled, Issued', verified')
    <3>1. [caller[p].held EXCEPT !.device = TRUE] \in Credentials
      BY <2>3 DEF Credentials
    <3>2. enrolled \in Invocations
      BY <1>typed, <3>1 DEF Invocations, Steps
    <3>3. /\ enrolled.held.token = caller[p].held.token /\ enrolled.pc = "set"
          /\ enrolled.previous = caller[p].previous /\ enrolled.reply = caller[p].reply
      BY <1>typed, <2>3 DEF Invocations, Credentials
    <3>. QED
      BY <1>typed, <2>1, <2>3, <3>2, <3>3 DEF Sound
  <2>5. Sound(skipped, Issued', verified')
    BY <1>typed, <2>1, SoundGrows, SoundStep DEF Steps, TokenSteps
  <2>. QED
    BY <2>1, <2>2, <2>4, <2>5, OneCaller
<1>14. ASSUME NEW p \in Callers, RevokePrevious(p) PROVE CredentialInv'
  <2>1. Shared' /\ Issued \subseteq Issued' /\ verified \subseteq verified'
    <3>1. live' \subseteq live /\ faults' \in 0 .. MaxFaults
      <4>1. CASE Works /\ UNCHANGED live
        BY <1>typed, <4>1 DEF Works, Shared
      <4>2. CASE Revoke(caller[p].previous)
        BY <1>typed, <4>2 DEF Revoke, WithoutSession, Works, Fails, Shared
      <4>. QED
        BY <1>14, <4>1, <4>2 DEF RevokePrevious
    <3>. QED
      BY <1>14, <1>typed, <3>1 DEF RevokePrevious, Shared, Issued, clock
  <2>2. caller' = [caller EXCEPT ![p] = Idle]
    BY <1>14 DEF RevokePrevious, Ends
  <2>. QED
    BY <2>1, <2>2, IdleSound, OneCaller
<1>15. ASSUME NEW p \in Callers, SendRefresh(p) PROVE CredentialInv'
  <2>. DEFINE t == caller[p].held.token
  <2>1. t \in Issued
    BY <1>15, <1>typed DEF SendRefresh, Sound, TokenSteps
  <2>2. PICK a \in Answers(t) : \E reply \in {a.reply, NoReply} :
          /\ \/ session' = a.session /\ live' = a.live
             \/ UNCHANGED server /\ reply = NoReply
          /\ caller' = [caller EXCEPT ![p] = [caller[p] EXCEPT !.pc = "reply", !.reply = reply]]
    BY <1>15 DEF SendRefresh
  <2>0. PICK reply \in {a.reply, NoReply} :
          /\ \/ session' = a.session /\ live' = a.live
             \/ UNCHANGED server /\ reply = NoReply
          /\ caller' = [caller EXCEPT ![p] = [caller[p] EXCEPT !.pc = "reply", !.reply = reply]]
    BY <2>2
  <2>3. /\ a.session \in Seq(Tokens) /\ Len(a.session) <= MaxTokens
        /\ Issued \subseteq DOMAIN a.session
        /\ a.live \subseteq DOMAIN a.session
        /\ a.reply \in [status : Statuses, token : Tokens \union {NoToken}]
        /\ a.reply.token \in DOMAIN a.session \union {NoToken}
        /\ a.reply.status = "authorized" => a.reply.token \in DOMAIN a.session
    <3>1. session[t] \in Tokens
      BY <1>typed, <2>1 DEF Shared, Issued
    <3>2. CASE Len(session) + 1 \in Tokens
      <4>1. /\ Append(session, session[t]) \in Seq(Tokens)
            /\ Len(Append(session, session[t])) <= MaxTokens
            /\ DOMAIN Append(session, session[t]) = Issued \union {Len(session) + 1}
        BY <1>typed, <3>1, <3>2, IssuedAfterAppend DEF Shared, Issued
      <4>. QED
        BY <1>typed, <2>1, <3>2, <4>1 DEF Answers, WithoutSession, NoReply, Statuses, Shared, Issued
    <3>3. CASE Len(session) + 1 \notin Tokens
      BY <1>typed, <3>3 DEF Answers, WithoutSession, NoReply, Statuses, Shared, Issued
    <3>. QED
      BY <3>2, <3>3
  <2>4. /\ Issued \subseteq Issued'
        /\ session' \in Seq(Tokens) /\ Len(session') <= MaxTokens
        /\ live' \subseteq Issued'
        /\ reply \in [status : Statuses, token : Tokens \union {NoToken}]
        /\ reply.token \in Issued' \union {NoToken}
        /\ reply.status = "authorized" => reply.token \in Issued'
    BY <1>typed, <2>0, <2>3 DEF Shared, Issued, server, NoReply, Statuses
  <2>5. Shared' /\ verified' = verified
    BY <1>15, <1>typed, <2>4 DEF SendRefresh, Works, Fails, Shared, clock
  <2>6. Sound([caller[p] EXCEPT !.pc = "reply", !.reply = reply], Issued', verified')
    <3>. DEFINE r == [caller[p] EXCEPT !.pc = "reply", !.reply = reply]
    <3>1. r \in Invocations
      BY <1>typed, <2>4 DEF Invocations, Steps
    <3>2. /\ r.held = caller[p].held /\ r.previous = caller[p].previous
          /\ r.reply = reply /\ r.pc = "reply"
      BY <1>typed DEF Invocations
    <3>. QED
      BY <1>typed, <2>1, <2>4, <3>1, <3>2 DEF Sound
  <2>. QED
    BY <2>0, <2>4, <2>5, <2>6, OneCaller
<1>16. ASSUME NEW p \in Callers, ReceiveReply(p) PROVE CredentialInv'
  <2>. DEFINE reply == caller[p].reply
              resent(q) == [caller[q] EXCEPT !.pc = "resend", !.leader = "nobody"]
  <2>1. Shared' /\ Issued' = Issued /\ verified' = verified
    BY <1>16, <1>typed DEF ReceiveReply, Shared, Issued, clock, server
  <2>2. ASSUME NEW q \in Callers, caller[q].held.token \in Issued
        PROVE  Sound(AfterReply(q, reply), Issued, verified)
    <3>1. CASE reply.status = "authorized"
      <4>1. reply.token \in Issued /\ reply.token \in Tokens
        <5>1. reply.token \in Issued
          BY <1>typed, <3>1 DEF Sound
        <5>2. Issued \subseteq Tokens
          BY <1>typed, CredentialAssumption DEF Shared, Issued, Tokens
        <5>. QED
          BY <5>1, <5>2
      <4>2. [token |-> reply.token, device |-> caller[q].held.device] \in Credentials
        BY <1>typed, <4>1, CredentialTypes DEF Invocations
      <4>. QED
        <5>. DEFINE cred == [token |-> reply.token, device |-> caller[q].held.device]
        <5>1. PICK step \in {"set", "discard"} :
                AfterReply(q, reply) = [caller[q] EXCEPT !.pc = step, !.held = cred]
          BY <3>1 DEF AfterReply
        <5>. DEFINE r == [caller[q] EXCEPT !.pc = step, !.held = cred]
        <5>2. r \in Invocations
          BY <1>typed, <4>2 DEF Invocations, Steps
        <5>3. /\ r.held.token = reply.token /\ r.previous = caller[q].previous
              /\ r.reply = caller[q].reply /\ r.pc = step
          BY <1>typed DEF Invocations
        <5>4. Sound(r, Issued, verified)
          BY <1>typed, <4>1, <5>2, <5>3 DEF Sound
        <5>. QED
          BY <5>1, <5>4
    <3>2. CASE reply.status = "refused"
      <4>1. Sound([caller[q] EXCEPT !.pc = "delete"], Issued, verified)
        BY <1>typed, SoundStep DEF Steps, TokenSteps
      <4>. QED
        BY <3>2, <4>1 DEF AfterReply
    <3>3. CASE reply.status \notin {"authorized", "refused"}
      BY <3>3, IdleSound DEF AfterReply
    <3>. QED
      BY <3>1, <3>2, <3>3
  <2>3. ASSUME NEW q \in Callers, caller[q].pc = "await"
        PROVE  Sound(resent(q), Issued, verified)
    BY <1>typed, <2>3 DEF Sound, Invocations, Steps, TokenSteps
  <2>4. ASSUME NEW q \in Callers PROVE Sound(caller'[q], Issued, verified)
    <3>1. caller[q].pc \in {"await", "reply"} => caller[q].held.token \in Issued
      BY <1>typed DEF Sound, TokenSteps
    <3>2. caller[p].pc = "reply"
      BY <1>16 DEF ReceiveReply
    <3>3. \/ caller'[q] = AfterReply(q, reply) /\ (q = p \/ caller[q].pc = "await")
          \/ caller'[q] = resent(q) /\ caller[q].pc = "await"
          \/ caller'[q] = caller[q]
      BY <1>16 DEF ReceiveReply
    <3>. QED
      BY <1>typed, <2>2, <2>3, <3>1, <3>2, <3>3
  <2>5. caller' \in [Callers -> Invocations]
    <3>1. caller' = [q \in Callers |-> caller'[q]]
      BY <1>16 DEF ReceiveReply
    <3>. QED
      BY <2>4, <3>1 DEF Sound
  <2>. QED
    BY <2>1, <2>4, <2>5 DEF CredentialInv
<1>17. ASSUME NEW p \in Callers, PollDeviceToken(p) PROVE CredentialInv'
  <2>. DEFINE new == Len(session) + 1
              r == [caller[p] EXCEPT !.pc = "set", !.previous = caller[p].held.token,
                                     !.held = [token |-> new, device |-> FALSE]]
  <2>1. /\ session' \in Seq(Tokens) /\ Len(session') <= MaxTokens
        /\ Issued' = Issued \union {new} /\ new \in Tokens
    BY <1>17, <1>typed, IssuedAfterAppend DEF PollDeviceToken, Shared, Issued
  <2>2. Shared' /\ Issued \subseteq Issued' /\ verified \subseteq verified'
    BY <1>17, <1>typed, <2>1 DEF PollDeviceToken, Works, Fails, Shared, clock
  <2>3. CASE UNCHANGED caller
    <3>1. caller' = [caller EXCEPT ![p] = caller[p]]
      BY <2>3 DEF CredentialInv
    <3>. QED
      BY <1>typed, <2>2, <3>1, SoundGrows, OneCaller
  <2>4. CASE caller' = [caller EXCEPT ![p] = r]
    <3>1. [token |-> new, device |-> FALSE] \in Credentials
      BY <2>1, CredentialTypes
    <3>2. caller[p].held.token \in Tokens \union {NoToken}
      BY <1>typed, CredentialTypes DEF Invocations
    <3>3. Sound(r, Issued', verified')
      <4>1. r \in Invocations
        BY <1>typed, <3>1, <3>2 DEF Invocations, Steps
      <4>2. /\ r.held.token = new /\ r.previous = caller[p].held.token
            /\ r.reply = caller[p].reply /\ r.pc = "set"
        BY <1>typed DEF Invocations
      <4>. QED
        BY <1>typed, <2>1, <2>2, <4>1, <4>2 DEF Sound
    <3>. QED
      BY <2>2, <2>4, <3>3, OneCaller
  <2>. QED
    BY <1>17, <2>3, <2>4 DEF PollDeviceToken
<1>18. ASSUME NEW p \in Callers, Crash(p) PROVE CredentialInv'
  <2>1. Shared' /\ Issued' = Issued /\ verified' = verified
    BY <1>18, <1>typed DEF Crash, Fails, Shared, Issued, clock, server
  <2>2. \A q \in Callers : caller'[q] \in {Idle, caller[q]}
    BY <1>18 DEF Crash
  <2>3. \A q \in Callers : Sound(caller'[q], Issued', verified')
    BY <1>typed, <2>1, <2>2, IdleSound
  <2>4. caller' = [q \in Callers |-> caller'[q]]
    BY <1>18 DEF Crash
  <2>. QED
    BY <2>1, <2>3, <2>4 DEF CredentialInv, Sound
<1>19. ASSUME ExpireAccess \/ ExpireRefresh PROVE CredentialInv'
  <2>1. Shared' /\ UNCHANGED <<caller, verified>> /\ Issued' = Issued
    BY <1>19, <1>typed DEF ExpireAccess, ExpireRefresh, Shared, Issued, server
  <2>. QED
    BY <2>1 DEF CredentialInv
<1>20. ASSUME UNCHANGED vars PROVE CredentialInv'
  BY <1>20 DEF vars, CredentialInv, Shared, Issued, clock, server
<1>. QED
  BY <1>1, <1>2, <1>3, <1>4, <1>5, <1>6, <1>7, <1>8, <1>9, <1>10, <1>11, <1>12, <1>13, <1>14, <1>15, <1>16, <1>17, <1>18, <1>19, <1>20 DEF Next, Runs

-----------------------------------------------------------------------------
(* CredentialSafe: the inductive invariant holds in every reachable state. *)
THEOREM CredentialSafe == Spec => []CredentialInv
BY CredentialInit, CredentialNext, PTL DEF Spec

(* CredentialTypeCorrect: the stores and the invocations are well typed.   *)
THEOREM CredentialTypeCorrect == Spec => []TypeOK
<1>1. CredentialInv => TypeOK
  BY DEF CredentialInv, Shared, TypeOK
<1>. QED
  BY <1>1, CredentialSafe, PTL

(* CredentialUsedOnlyVerified: whatever commands overlap and whatever      *)
(* fails, no token is used that was not read back from the keyring.        *)
THEOREM CredentialUsedOnlyVerified == Spec => []UsedOnlyVerified
<1>1. CredentialInv => UsedOnlyVerified
  BY DEF CredentialInv, Sound, UsedOnlyVerified
<1>. QED
  BY <1>1, CredentialSafe, PTL

-----------------------------------------------------------------------------
(* Commands that race for one token, each in a process of its own, and     *)
(* nothing fails: at most one token is live, and whoever has just obtained *)
(* it, or will end its session, is on the way.                             *)

Racers == {"launch", "usage", "logout"}

SeparateProcesses ==
  /\ Commands \subseteq Racers
  /\ MaxFaults = 0
  /\ \A p, q \in Callers : ClientOf[p] = ClientOf[q] => p = q

(* p has been given t and has not written it to the keyring yet.           *)
Brings(p, t) ==
  \/ caller[p].pc = "reply" /\ caller[p].reply.status = "authorized" /\ caller[p].reply.token = t
  \/ caller[p].pc = "set" /\ caller[p].held.token = t

(* Without login there is one session, and one token of it at most lives.  *)
OneSession ==
  /\ \A t \in Issued : session[t] = 1
  /\ \A t, u \in live : t = u

(* A refresh is nobody else's, and no step of a login is taken.            *)
Alone ==
  /\ \A p \in Callers :
       /\ caller[p].command \in Racers
       /\ caller[p].pc \notin {"await", "resend", "poll", "provision", "revoke previous"}
  /\ \A p \in table : caller[p].pc = "reply"

(* A token on its way to the keyring is known to its bringer only, so that *)
(* nobody can have rotated it.                                             *)
Secret ==
  \A p \in Callers : \A t \in Issued :
    Brings(p, t) =>
      /\ keyring.token # t
      /\ \A q \in Callers \ {p} : caller[q].held.token # t /\ ~Brings(q, t)
      /\ caller[p].pc = "reply" => caller[p].held.token # t

(* Until a refresh token expires by itself, a live token is the stored one *)
(* or on its way, unless its session is about to be ended; and what is     *)
(* deleted from the keyring is dead.                                       *)
Reachable ==
  lapsed = {} =>
    /\ \A p \in Callers : \A t \in Issued : Brings(p, t) => live \subseteq {t}
    /\ \A p \in Callers :
         (caller[p].pc = "delete" \/ (caller[p].pc = "reply" /\ caller[p].reply.status = "refused"))
           => live = {}
    /\ \A t \in live :
         \/ keyring.token = t
         \/ \E p \in Callers : Brings(p, t) \/ caller[p].pc \in {"discard", "revoke"}

RaceInv == OneSession /\ Alone /\ Secret /\ Reachable

-----------------------------------------------------------------------------
(* What a step of one invocation leaves of the race.                       *)

Others(p) == \A q \in Callers \ {p} : caller'[q] = caller[q]

(* An invocation that goes on keeps what it knows.                         *)
LEMMA GoesOn ==
  ASSUME CredentialInv, NEW p \in Callers, NEW step, Goes(p, step)
  PROVE  /\ Others(p)
         /\ caller'[p].pc = step /\ caller'[p].held = caller[p].held
         /\ caller'[p].reply = caller[p].reply /\ caller'[p].command = caller[p].command
         /\ caller'[p].previous = caller[p].previous /\ caller'[p].again = caller[p].again
<1>1. caller[p] \in Invocations
  BY DEF CredentialInv
<1>2. Others(p) /\ caller'[p] = [caller[p] EXCEPT !.pc = step]
  BY DEF Goes, Others, CredentialInv
<1>3. QED
  BY <1>1, <1>2 DEF Invocations

(* One that ends knows nothing.                                            *)
LEMMA EndsIdle ==
  ASSUME CredentialInv, NEW p \in Callers, Ends(p)
  PROVE  /\ Others(p)
         /\ caller'[p].pc = "idle" /\ caller'[p].held.token = NoToken
         /\ caller'[p].command = "launch" /\ caller'[p].previous = NoToken
BY DEF Ends, Others, CredentialInv, Idle, NoCredential

(* A secret stays one when the step brings nothing new, and what it brought *)
(* is in the keyring when others may read it.                              *)
LEMMA SecretKept ==
  ASSUME CredentialInv, Secret, NEW p \in Callers, Others(p), Issued' = Issued,
         \A t \in Issued : Brings(p, t)' => Brings(p, t) /\ caller'[p].pc # "reply",
         \/ caller'[p].held.token \in {caller[p].held.token, keyring.token, NoToken}
         \/ Brings(p, caller'[p].held.token),
         \/ keyring'.token \in {keyring.token, NoToken}
         \/ \E t \in Issued : keyring'.token = t /\ Brings(p, t) /\ ~Brings(p, t)'
  PROVE  Secret'
<1>1. NoToken \notin Issued
  BY CredentialAssumption DEF CredentialInv, Shared, Issued, Tokens, NoToken
<1>2. ASSUME NEW q \in Callers, NEW t \in Issued, Brings(q, t)'
      PROVE  /\ keyring'.token # t
             /\ \A o \in Callers \ {q} : caller'[o].held.token # t /\ ~Brings(o, t)'
             /\ caller'[q].pc = "reply" => caller'[q].held.token # t
  <2>1. \A o \in Callers \ {p} : Brings(o, t)' <=> Brings(o, t)
    BY DEF Brings, Others
  <2>2. Brings(q, t)
    BY <1>2, <2>1
  <2>3. /\ keyring.token # t
        /\ \A o \in Callers \ {q} : caller[o].held.token # t /\ ~Brings(o, t)
        /\ caller[q].pc = "reply" => caller[q].held.token # t
    BY <2>2 DEF Secret
  <2>4. CASE q = p
    <3>1. keyring'.token # t
      BY <1>1, <1>2, <2>3, <2>4
    <3>2. QED
      BY <1>2, <2>1, <2>3, <2>4, <3>1 DEF Others
  <2>5. CASE q # p
    <3>1. ~Brings(p, t)
      BY <2>3, <2>5
    <3>2. keyring'.token # t /\ caller'[p].held.token # t /\ ~Brings(p, t)'
      BY <1>1, <2>3, <2>5, <3>1
    <3>3. QED
      BY <2>1, <2>3, <2>5, <3>2 DEF Others
  <2>6. QED
    BY <2>4, <2>5
<1>3. QED
  BY <1>2 DEF Secret

(* And a live token stays reachable when the step hands on what it had of  *)
(* it.                                                                     *)
LEMMA ReachableKept ==
  ASSUME CredentialInv, Reachable, NEW p \in Callers, Others(p), Issued' = Issued,
         lapsed' = lapsed, live' \subseteq live,
         \A t \in Issued : Brings(p, t)' => Brings(p, t),
         lapsed = {} =>
           /\ (caller'[p].pc = "delete"
                 \/ (caller'[p].pc = "reply" /\ caller'[p].reply.status = "refused")) => live' = {}
           /\ \A t \in live' :
                (keyring.token = t \/ Brings(p, t) \/ caller[p].pc \in {"discard", "revoke"}) =>
                  (keyring'.token = t \/ Brings(p, t)' \/ caller'[p].pc \in {"discard", "revoke"})
  PROVE  Reachable'
<1> SUFFICES ASSUME lapsed = {}
             PROVE  Reachable'
  BY DEF Reachable
<1>1. \A q \in Callers \ {p} : /\ \A t : Brings(q, t)' <=> Brings(q, t)
                               /\ caller'[q] = caller[q]
  BY DEF Brings, Others
<1>2. \A q \in Callers : \A t \in Issued : Brings(q, t)' => live' \subseteq {t}
  BY <1>1 DEF Reachable
<1>3. \A q \in Callers :
        (caller'[q].pc = "delete" \/ (caller'[q].pc = "reply" /\ caller'[q].reply.status = "refused"))
          => live' = {}
  BY <1>1 DEF Reachable
<1>4. ASSUME NEW t \in live'
      PROVE  \/ keyring'.token = t
             \/ \E q \in Callers : Brings(q, t)' \/ caller'[q].pc \in {"discard", "revoke"}
  <2>1. CASE keyring.token = t \/ Brings(p, t) \/ caller[p].pc \in {"discard", "revoke"}
    BY <2>1
  <2>2. CASE \E q \in Callers \ {p} : Brings(q, t) \/ caller[q].pc \in {"discard", "revoke"}
    BY <1>1, <2>2
  <2>3. QED
    BY <2>1, <2>2 DEF Reachable
<1>5. QED
  BY <1>2, <1>3, <1>4 DEF Reachable

(* The steps of a racer that bring nothing new.                            *)
LEMMA RaceKept ==
  ASSUME CredentialInv, RaceInv, NEW p \in Callers, Others(p),
         session' = session, lapsed' = lapsed, live' \subseteq live, table' \subseteq table \ {p},
         caller'[p].command \in Racers,
         caller'[p].pc \notin {"reply", "await", "resend", "poll", "provision", "revoke previous"},
         \A t \in Issued : Brings(p, t)' => Brings(p, t),
         \/ caller'[p].held.token \in {caller[p].held.token, keyring.token, NoToken}
         \/ Brings(p, caller'[p].held.token),
         \/ keyring'.token \in {keyring.token, NoToken}
         \/ \E t \in Issued : keyring'.token = t /\ Brings(p, t) /\ ~Brings(p, t)',
         lapsed = {} =>
           /\ caller'[p].pc = "delete" => live' = {}
           /\ \A t \in live' :
                (keyring.token = t \/ Brings(p, t) \/ caller[p].pc \in {"discard", "revoke"}) =>
                  (keyring'.token = t \/ Brings(p, t)' \/ caller'[p].pc \in {"discard", "revoke"})
  PROVE  RaceInv'
<1>1. Issued' = Issued
  BY DEF Issued
<1>2. OneSession'
  BY <1>1 DEF RaceInv, OneSession
<1>3. Alone'
  BY DEF RaceInv, Alone, Others, CredentialInv, Shared
<1>4. Secret'
  BY <1>1, SecretKept DEF RaceInv
<1>5. Reachable'
  BY <1>1, ReachableKept DEF RaceInv
<1>6. QED
  BY <1>2, <1>3, <1>4, <1>5 DEF RaceInv

(* Lemma: the session of an issued token has no other live token.          *)
LEMMA RevokedIsAll ==
  ASSUME CredentialInv, OneSession, NEW t \in Issued
  PROVE  WithoutSession(t) = {}
BY DEF WithoutSession, OneSession, CredentialInv, Shared

(* Lemma: at the start the stored token is the only one.                   *)
LEMMA RaceInit == Init => RaceInv
<1> SUFFICES ASSUME Init
             PROVE  RaceInv
  OBVIOUS
<1>1. \A p \in Callers : caller[p] = Idle
  BY DEF Init
<1>2. \A p \in Callers : \A t : ~Brings(p, t)
  BY <1>1 DEF Brings, Idle
<1>3. Alone
  BY <1>1 DEF Init, Alone, Idle, Racers
<1>4. CASE keyring = NoCredential
  <2>1. session = <<>> /\ Issued = {} /\ live = {}
    BY <1>4 DEF Init, Issued
  <2>2. QED
    BY <1>1, <1>2, <1>3, <2>1 DEF RaceInv, OneSession, Secret, Reachable, Idle
<1>5. CASE keyring # NoCredential
  <2>1. session = <<1>> /\ keyring.token = 1
    BY <1>5 DEF Init
  <2>2. Issued = {1} /\ session[1] = 1 /\ live = {1}
    BY <2>1 DEF Init, Issued
  <2>3. QED
    BY <1>1, <1>2, <1>3, <2>1, <2>2 DEF RaceInv, OneSession, Secret, Reachable, Idle
<1>6. QED
  BY <1>4, <1>5

(* Every step of the race preserves the invariant.                         *)
LEMMA RaceNext ==
  ASSUME SeparateProcesses, CredentialInv, CredentialInv', RaceInv, [Next]_vars
  PROVE  RaceInv'
<1>typed. /\ Shared
          /\ \A p \in Callers : Sound(caller[p], Issued, verified) /\ caller[p] \in Invocations
  BY DEF CredentialInv
<1>tables. \A p \in Callers : p \in table => caller[p].pc = "reply"
  BY DEF RaceInv, Alone
<1>issued. live \subseteq Issued /\ NoToken \notin Issued
  BY <1>typed, CredentialAssumption DEF Shared, Issued, Tokens, NoToken
<1>reliable. ~Fails
  BY <1>typed DEF Fails, Shared, SeparateProcesses
<1>known. \A p \in Callers : caller[p].held.token \in Issued \union {NoToken}
  BY <1>typed DEF Sound
<1>holds. \A p \in Callers : caller[p].pc \in TokenSteps => caller[p].held.token \in Issued
  BY <1>typed DEF Sound
<1>racers. \A p \in Callers :
             /\ caller[p].command \in Racers
             /\ caller[p].pc \notin {"await", "resend", "poll", "provision", "revoke previous"}
  BY DEF RaceInv, Alone
<1>1. ASSUME NEW p \in Callers, NEW command \in Commands, Start(p, command)
      PROVE  RaceInv'
  <2>1. /\ Others(p)
        /\ caller'[p].pc = "get" /\ caller'[p].held.token = NoToken /\ caller'[p].command = command
    BY <1>1 DEF Start, Others, CredentialInv, Idle, NoCredential
  <2>2. \A t \in Issued : ~Brings(p, t)' /\ ~Brings(p, t)
    BY <1>1, <2>1 DEF Brings, Start
  <2>3. UNCHANGED <<session, live, lapsed, table, keyring>> /\ caller[p].pc = "idle"
    BY <1>1 DEF Start, server, clock
  <2>4. QED
    BY <1>tables, <1>issued, <1>typed, <2>1, <2>2, <2>3, RaceKept DEF SeparateProcesses, Shared
<1>2. ASSUME NEW p \in Callers, GetNothing(p)
      PROVE  RaceInv'
  <2>1. Ends(p)
    BY <1>2, <1>racers DEF GetNothing, Racers
  <2>2. UNCHANGED <<session, live, lapsed, table, keyring>> /\ caller[p].pc = "get"
    BY <1>2 DEF GetNothing, server, clock
  <2>3. \A t \in Issued : ~Brings(p, t)' /\ ~Brings(p, t)
    BY <2>1, <2>2, EndsIdle DEF Brings
  <2>4. QED
    BY <1>tables, <1>issued, <1>typed, <2>1, <2>2, <2>3, EndsIdle, RaceKept DEF Shared, Racers
<1>3. ASSUME NEW p \in Callers, GetCredential(p)
      PROVE  RaceInv'
  <2>1. /\ Others(p)
        /\ caller'[p].pc = FirstStep(caller[p].command, keyring.token)
        /\ caller'[p].held.token = keyring.token
        /\ caller'[p].command = caller[p].command
    BY <1>3, <1>typed DEF GetCredential, Others, CredentialInv, Invocations
  <2>2. UNCHANGED <<session, live, lapsed, table, keyring>> /\ caller[p].pc = "get"
    BY <1>3 DEF GetCredential, server, clock
  <2>3. /\ caller'[p].pc \in {"revoke", "use", "delete", "refresh"}
        /\ caller'[p].pc = "delete" => lapsed # {}
    BY <1>racers, <2>1 DEF FirstStep, Racers
  <2>4. \A t \in Issued : ~Brings(p, t)' /\ ~Brings(p, t)
    BY <2>2, <2>3 DEF Brings
  <2>5. QED
    BY <1>tables, <1>issued, <1>typed, <1>racers, <2>1, <2>2, <2>3, <2>4, RaceKept DEF Shared
<1>4. ASSUME NEW p \in Callers, JoinRefresh(p)
      PROVE  RaceInv'
  <2>1. PICK q \in Pending(p) : TRUE
    BY <1>4 DEF JoinRefresh
  <2>2. q \in Callers /\ q \in table /\ ClientOf[q] = ClientOf[p]
    BY <1>typed, <2>1 DEF Pending, SameRefresh, Shared
  <2>3. q = p
    BY <2>2 DEF SeparateProcesses
  <2>4. QED
    BY <1>4, <1>tables, <2>2, <2>3 DEF JoinRefresh

<1>5. ASSUME NEW p \in Callers, SendRefresh(p)
      PROVE  RaceInv'
  <2> DEFINE t == caller[p].held.token
             new == Len(session) + 1
  <2>1. caller[p].pc = "refresh" /\ t \in Issued
    BY <1>5, <1>racers, <1>holds DEF SendRefresh, TokenSteps
  <2>2. PICK a \in Answers(t) :
          /\ session' = a.session /\ live' = a.live
          /\ caller' = [caller EXCEPT ![p].pc = "reply", ![p].reply = a.reply]
    BY <1>5, <1>reliable DEF SendRefresh
  <2>3. /\ Others(p)
        /\ caller'[p].pc = "reply" /\ caller'[p].held = caller[p].held
        /\ caller'[p].reply = a.reply /\ caller'[p].command = caller[p].command
    BY <1>typed, <2>2 DEF Others, CredentialInv, Invocations
  <2>4. table' \subseteq table \union {p} /\ UNCHANGED <<keyring, lapsed>>
    BY <1>5 DEF SendRefresh, clock
  <2>5. Alone'
    <3>1. \A q \in table' : q \in Callers /\ caller'[q].pc = "reply"
      BY <1>typed, <1>tables, <2>3, <2>4 DEF Others, Shared
    <3>2. QED
      BY <1>racers, <2>3, <3>1 DEF Alone, Others
  <2>6. \A q \in Callers \ {p} : /\ \A u : Brings(q, u)' <=> Brings(q, u)
                                 /\ caller'[q] = caller[q]
    BY <2>3 DEF Brings, Others
  <2>7. \A u \in Issued : ~Brings(p, u)
    BY <2>1 DEF Brings
  <2>8. CASE a.reply.status # "authorized"
    <3>1. /\ a.session = session /\ a.live \subseteq live
          /\ a.reply.status = "refused" /\ lapsed = {} => a.live = {}
      <4>1. WithoutSession(t) = {}
        BY <2>1, RevokedIsAll DEF RaceInv
      <4>2. QED
        BY <2>2, <2>8, <4>1 DEF Answers, NoReply
    <3>2. Issued' = Issued /\ session' = session /\ live' \subseteq live
      BY <2>2, <3>1 DEF Issued
    <3>3. \A u \in Issued : ~Brings(p, u)'
      BY <2>3, <2>8 DEF Brings
    <3>4. OneSession'
      BY <3>2 DEF RaceInv, OneSession
    <3>5. Secret'
      BY <2>3, <2>4, <3>2, <3>3, SecretKept DEF RaceInv
    <3>6. Reachable'
      BY <1>issued, <2>1, <2>2, <2>3, <2>4, <2>7, <3>1, <3>2, <3>3, ReachableKept DEF RaceInv
    <3>7. QED
      BY <2>5, <3>4, <3>5, <3>6 DEF RaceInv
  <2>9. CASE a.reply.status = "authorized"
    <3>1. /\ t \in live \ lapsed /\ new \in Tokens
          /\ a.session = Append(session, session[t])
          /\ a.live = (live \ {t}) \union {new}
          /\ a.reply.token = new
      BY <2>2, <2>9 DEF Answers, NoReply
    <3>2. live = {t} /\ session[t] = 1
      BY <2>1, <3>1 DEF RaceInv, OneSession
    <3>3. new \notin Issued /\ Issued' = Issued \union {new} /\ live' = {new}
      <4>1. session \in Seq(Tokens) /\ session[t] \in Tokens
        BY <1>typed, <2>1 DEF Shared, Issued
      <4>2. Issued = 1 .. Len(session) /\ Len(session) \in Nat
        BY <4>1 DEF Issued
      <4>3. DOMAIN Append(session, session[t]) = Issued \union {new}
        BY <3>1, <4>1, IssuedAfterAppend DEF Issued
      <4>4. QED
        BY <2>2, <3>1, <3>2, <4>2, <4>3 DEF Issued
    <3>4. \A u \in Issued : session'[u] = session[u]
      BY <1>typed, <2>1, <2>2, <3>1 DEF Shared, Issued
    <3>5. session'[new] = 1
      BY <1>typed, <2>1, <2>2, <3>1, <3>2 DEF Shared, Issued
    <3>6. OneSession'
      BY <3>3, <3>4, <3>5 DEF RaceInv, OneSession
    <3>7. \A u \in Issued' : Brings(p, u)' <=> u = new
      BY <2>3, <2>9, <3>1 DEF Brings
    <3>8. \A q \in Callers : ~Brings(q, new)
      BY <1>typed, <3>3 DEF Brings, Sound, TokenSteps
    <3>9. keyring.token # new /\ \A q \in Callers : caller[q].held.token # new
      BY <1>typed, <1>known, <3>1, <3>3, CredentialTypes DEF Shared
    <3>10. Secret'
      <4>1. ASSUME NEW q \in Callers, NEW u \in Issued', Brings(q, u)'
            PROVE  /\ keyring'.token # u
                   /\ \A o \in Callers \ {q} : caller'[o].held.token # u /\ ~Brings(o, u)'
                   /\ caller'[q].pc = "reply" => caller'[q].held.token # u
        <5>1. CASE q = p
          BY <2>3, <2>4, <2>6, <3>7, <3>8, <3>9, <4>1, <5>1
        <5>2. CASE q # p
          <6>1. Brings(q, u) /\ u \in Issued
            BY <2>6, <3>3, <3>8, <4>1, <5>2
          <6>2. /\ keyring.token # u
                /\ \A o \in Callers \ {q} : caller[o].held.token # u /\ ~Brings(o, u)
                /\ caller[q].pc = "reply" => caller[q].held.token # u
            BY <6>1 DEF RaceInv, Secret
          <6>3. ~Brings(p, u)'
            BY <3>3, <3>7, <6>1
          <6>4. QED
            BY <2>3, <2>4, <2>6, <5>2, <6>2, <6>3
        <5>3. QED
          BY <5>1, <5>2
      <4>2. QED
        BY <4>1 DEF Secret
    <3>11. Reachable'
      <4> SUFFICES ASSUME lapsed = {}
                   PROVE  Reachable'
        BY <2>4 DEF Reachable
      <4>1. \A q \in Callers \ {p} : \A u \in Issued : ~Brings(q, u)
        BY <2>1, <3>2 DEF RaceInv, Secret, Reachable
      <4>2. \A q \in Callers : \A u \in Issued' : Brings(q, u)' => live' \subseteq {u}
        BY <2>6, <3>3, <3>7, <3>8, <4>1
      <4>3. \A q \in Callers \ {p} :
              ~(caller[q].pc = "delete" \/ (caller[q].pc = "reply" /\ caller[q].reply.status = "refused"))
        BY <3>2 DEF RaceInv, Reachable
      <4>4. \A u \in live' : Brings(p, u)'
        BY <3>3, <3>7
      <4>5. QED
        BY <2>3, <2>6, <2>9, <4>2, <4>3, <4>4 DEF Reachable
    <3>12. QED
      BY <2>5, <3>6, <3>10, <3>11 DEF RaceInv
  <2>10. QED
    BY <2>8, <2>9

<1>6. ASSUME NEW p \in Callers, ReceiveReply(p)
      PROVE  RaceInv'
  <2> DEFINE reply == caller[p].reply
  <2>1. /\ Others(p)
        /\ caller'[p] = AfterReply(p, reply)
        /\ caller[p].pc = "reply"
    BY <1>6, <1>racers DEF ReceiveReply, Others
  <2>2. UNCHANGED <<session, live, lapsed, keyring>> /\ table' = table \ {p}
    BY <1>6 DEF ReceiveReply, server, clock
  <2>3. CASE reply.status = "authorized"
    <3>1. /\ caller'[p].pc \in {"set", "discard"}
          /\ caller'[p].held.token = reply.token
          /\ caller'[p].command = caller[p].command
      <4> DEFINE cred == [token |-> reply.token, device |-> caller[p].held.device]
      <4>1. PICK step \in {"set", "discard"} :
              AfterReply(p, reply) = [caller[p] EXCEPT !.pc = step, !.held = cred]
        BY <2>3 DEF AfterReply
      <4>2. QED
        BY <1>typed, <2>1, <4>1 DEF Invocations
    <3>2. Brings(p, reply.token) /\ reply.token \in Issued
      BY <1>typed, <2>1, <2>3 DEF Brings, Sound
    <3>3. \A t \in Issued : Brings(p, t)' => Brings(p, t)
      BY <3>1, <3>2 DEF Brings
    <3>4. \A t \in Issued : Brings(p, t) => Brings(p, t)' \/ caller'[p].pc = "discard"
      BY <2>1, <3>1 DEF Brings
    <3>5. QED
      BY <1>issued, <1>typed, <1>racers, <2>1, <2>2, <3>1, <3>2, <3>3, <3>4, RaceKept DEF Shared
  <2>4. CASE reply.status = "refused"
    <3>1. /\ caller'[p].pc = "delete"
          /\ caller'[p].held = caller[p].held
          /\ caller'[p].command = caller[p].command
      BY <1>typed, <2>1, <2>4 DEF AfterReply, Invocations
    <3>2. lapsed = {} => live = {}
      BY <2>1, <2>4 DEF RaceInv, Reachable
    <3>3. \A t \in Issued : ~Brings(p, t)'
      BY <3>1 DEF Brings
    <3>4. QED
      BY <1>issued, <1>typed, <1>racers, <2>1, <2>2, <3>1, <3>2, <3>3, RaceKept DEF Shared
  <2>5. CASE reply.status \notin {"authorized", "refused"}
    <3>1. Ends(p)
      <4>1. caller' = [q \in Callers |-> IF q = p THEN Idle ELSE caller[q]]
        BY <1>6, <1>racers, <2>5 DEF ReceiveReply, AfterReply
      <4>2. QED
        BY <4>1 DEF Ends, CredentialInv
    <3>2. \A t \in Issued : ~Brings(p, t)' /\ ~Brings(p, t)
      BY <2>1, <2>5, <3>1, EndsIdle DEF Brings
    <3>3. QED
      BY <1>issued, <1>typed, <2>1, <2>2, <3>1, <3>2, EndsIdle, RaceKept DEF Shared, Racers
  <2>6. QED
    BY <2>3, <2>4, <2>5
<1>7. ASSUME NEW p \in Callers, SetCredential(p)
      PROVE  RaceInv'
  <2>1. Goes(p, "verify") /\ keyring' = caller[p].held
    BY <1>7, <1>reliable DEF SetCredential
  <2>flat. /\ Others(p) /\ caller'[p].pc = "verify"
           /\ caller'[p].held = caller[p].held /\ caller'[p].command = caller[p].command
    BY <2>1, GoesOn
  <2>2. UNCHANGED <<session, live, lapsed, table>> /\ caller[p].pc = "set"
    BY <1>7 DEF SetCredential, server, clock
  <2>3. Brings(p, caller[p].held.token) /\ caller[p].held.token \in Issued
    BY <1>holds, <2>2 DEF Brings, TokenSteps
  <2>4. \A t \in Issued : ~Brings(p, t)'
    BY <2>flat DEF Brings
  <2>5. lapsed = {} => live \subseteq {keyring'.token}
    BY <2>1, <2>3 DEF RaceInv, Reachable
  <2>6. QED
    BY <1>tables, <1>typed, <1>racers, <2>1, <2>2, <2>3, <2>4, <2>5, <2>flat, RaceKept DEF Shared
<1>8. ASSUME NEW p \in Callers, VerifySet(p)
      PROVE  RaceInv'
  <2>1. Goes(p, "use")
    BY <1>8, <1>racers DEF VerifySet, Racers, Goes
  <2>flat. /\ Others(p) /\ caller'[p].pc = "use"
           /\ caller'[p].held = caller[p].held /\ caller'[p].command = caller[p].command
    BY <2>1, GoesOn
  <2>2. UNCHANGED <<session, live, lapsed, table, keyring>> /\ caller[p].pc = "verify"
    BY <1>8 DEF VerifySet, server, clock
  <2>3. \A t \in Issued : ~Brings(p, t)' /\ ~Brings(p, t)
    BY <2>2, <2>flat DEF Brings
  <2>4. QED
    BY <1>tables, <1>issued, <1>typed, <1>racers, <2>1, <2>2, <2>3, <2>flat, RaceKept DEF Shared
<1>9. ASSUME NEW p \in Callers, VerifyFails(p)
      PROVE  RaceInv'
  <2>1. Goes(p, "discard")
    BY <1>9, <1>racers DEF VerifyFails, SetFails, Racers
  <2>flat. /\ Others(p) /\ caller'[p].pc = "discard"
           /\ caller'[p].held = caller[p].held /\ caller'[p].command = caller[p].command
    BY <2>1, GoesOn
  <2>2. UNCHANGED <<session, live, lapsed, table, keyring>> /\ caller[p].pc = "verify"
    BY <1>9 DEF VerifyFails, server, clock
  <2>3. \A t \in Issued : ~Brings(p, t)' /\ ~Brings(p, t)
    BY <2>2, <2>flat DEF Brings
  <2>4. QED
    BY <1>tables, <1>issued, <1>typed, <1>racers, <2>1, <2>2, <2>3, <2>flat, RaceKept DEF Shared
<1>10. ASSUME NEW p \in Callers, RevokeSession(p)
       PROVE  RaceInv'
  <2>1. Goes(p, "delete") /\ live' = WithoutSession(caller[p].held.token)
    BY <1>10, <1>reliable DEF RevokeSession, Revoke
  <2>flat. /\ Others(p) /\ caller'[p].pc = "delete"
           /\ caller'[p].held = caller[p].held /\ caller'[p].command = caller[p].command
    BY <2>1, GoesOn
  <2>2. UNCHANGED <<session, lapsed, table, keyring>> /\ caller[p].pc \in {"discard", "revoke"}
    BY <1>10 DEF RevokeSession, clock
  <2>3. live' = {}
    BY <1>holds, <2>1, <2>2, RevokedIsAll DEF RaceInv, TokenSteps
  <2>4. \A t \in Issued : ~Brings(p, t)'
    BY <2>flat DEF Brings
  <2>5. QED
    BY <1>tables, <1>typed, <1>racers, <2>1, <2>2, <2>3, <2>4, <2>flat, RaceKept DEF Shared
<1>11. ASSUME NEW p \in Callers, DeleteCredential(p)
       PROVE  RaceInv'
  <2>1. Ends(p) /\ keyring' = NoCredential
    BY <1>11, <1>reliable DEF DeleteCredential
  <2>2. UNCHANGED <<session, live, lapsed, table>> /\ caller[p].pc = "delete"
    BY <1>11 DEF DeleteCredential, server, clock
  <2>3. lapsed = {} => live = {}
    BY <2>2 DEF RaceInv, Reachable
  <2>4. keyring'.token = NoToken
    BY <2>1 DEF NoCredential
  <2>5. \A t \in Issued : ~Brings(p, t)'
    BY <2>1, EndsIdle DEF Brings
  <2>6. QED
    BY <1>tables, <1>typed, <2>1, <2>2, <2>3, <2>4, <2>5, EndsIdle, RaceKept DEF Shared, Racers
<1>12. ASSUME NEW p \in Callers, Lend(p)
       PROVE  RaceInv'
  <2>1. Ends(p)
    BY <1>12 DEF Lend
  <2>2. UNCHANGED <<session, live, lapsed, table, keyring>> /\ caller[p].pc = "use"
    BY <1>12 DEF Lend, server, clock
  <2>3. \A t \in Issued : ~Brings(p, t)' /\ ~Brings(p, t)
    BY <2>1, <2>2, EndsIdle DEF Brings
  <2>4. QED
    BY <1>tables, <1>issued, <1>typed, <2>1, <2>2, <2>3, EndsIdle, RaceKept DEF Shared, Racers
<1>13. ASSUME NEW p \in Callers, QueryUsage(p)
       PROVE  RaceInv'
  <2>1. UNCHANGED <<session, live, lapsed, table, keyring>> /\ caller[p].pc = "use"
    BY <1>13 DEF QueryUsage, server, clock
  <2>2. CASE Ends(p)
    <3>1. \A t \in Issued : ~Brings(p, t)' /\ ~Brings(p, t)
      BY <2>1, <2>2, EndsIdle DEF Brings
    <3>2. QED
      BY <1>tables, <1>issued, <1>typed, <2>1, <2>2, <3>1, EndsIdle, RaceKept DEF Shared, Racers
  <2>3. CASE ~Ends(p)
    <3>1. /\ Unauthorized(p)
          /\ caller' = [caller EXCEPT ![p].pc = IF caller[p].again THEN "delete" ELSE "refresh",
                                      ![p].again = TRUE]
      BY <1>13, <2>3 DEF QueryUsage
    <3>2. /\ Others(p)
          /\ caller'[p].pc \in {"delete", "refresh"}
          /\ caller'[p].pc = "delete" => caller[p].again
          /\ caller'[p].held = caller[p].held /\ caller'[p].command = caller[p].command
      BY <1>typed, <3>1 DEF Others, CredentialInv, Invocations
    <3>3. caller'[p].pc = "delete" => live = {}
      <4>1. WithoutSession(caller[p].held.token) = {}
        BY <1>holds, <2>1, RevokedIsAll DEF RaceInv, TokenSteps
      <4>2. QED
        BY <3>1, <3>2, <4>1 DEF Unauthorized
    <3>4. \A t \in Issued : ~Brings(p, t)' /\ ~Brings(p, t)
      BY <2>1, <3>2 DEF Brings
    <3>5. QED
      BY <1>tables, <1>issued, <1>typed, <1>racers, <2>1, <3>2, <3>3, <3>4, RaceKept DEF Shared
  <2>4. QED
    BY <2>2, <2>3
<1>14. ASSUME NEW p \in Callers,
              PollDeviceToken(p) \/ NotAuthorized(p) \/ ProvisionDevice(p) \/ RevokePrevious(p) \/ Crash(p)
       PROVE  RaceInv'
  BY <1>14, <1>racers, <1>reliable
     DEF PollDeviceToken, NotAuthorized, ProvisionDevice, RevokePrevious, Crash
<1>15. ASSUME ExpireAccess \/ ExpireRefresh \/ UNCHANGED vars
       PROVE  RaceInv'
  <2>1. UNCHANGED <<keyring, session, live, caller, table>> /\ lapsed \subseteq lapsed'
    BY <1>15 DEF ExpireAccess, ExpireRefresh, vars, server, clock
  <2>2. \A p, t : Brings(p, t)' <=> Brings(p, t)
    BY <2>1 DEF Brings
  <2>3. OneSession' /\ Alone'
    BY <2>1 DEF RaceInv, OneSession, Alone, Issued
  <2>4. Secret'
    BY <2>1, <2>2 DEF RaceInv, Secret, Issued
  <2>5. Reachable'
    BY <2>1, <2>2 DEF RaceInv, Reachable, Issued
  <2>6. QED
    BY <2>3, <2>4, <2>5 DEF RaceInv
<1>16. QED
  BY <1>1, <1>2, <1>3, <1>4, <1>5, <1>6, <1>7, <1>8, <1>9, <1>10, <1>11, <1>12, <1>13, <1>14, <1>15
     DEF Next, Runs

(* CredentialLiveIsStored: launches, usages and logouts of any number of   *)
(* separate processes, racing for one token, leave no session open without *)
(* its token, unless that token has expired by itself meanwhile.           *)
THEOREM CredentialLiveIsStored ==
  ASSUME SeparateProcesses
  PROVE  Spec => []LiveIsStored
<1>1. Init => RaceInv
  BY RaceInit
<1>2. CredentialInv /\ CredentialInv' /\ RaceInv /\ [Next]_vars => RaceInv'
  BY RaceNext
<1>3. CredentialInv /\ RaceInv => LiveIsStored
  <2> SUFFICES ASSUME CredentialInv, RaceInv, Quiet, NEW t \in Orphans
               PROVE  \E u \in lapsed : session[u] = session[t]
    BY DEF LiveIsStored
  <2>1. t \in live /\ t # keyring.token
    BY DEF Orphans
  <2>2. live \subseteq Issued /\ lapsed \subseteq Issued
    BY DEF CredentialInv, Shared
  <2>3. \A p \in Callers : ~Brings(p, t) /\ caller[p].pc \notin {"discard", "revoke"}
    BY DEF Quiet, Brings
  <2>4. lapsed # {}
    BY <2>1, <2>3 DEF RaceInv, Reachable
  <2>5. QED
    BY <2>1, <2>2, <2>4 DEF RaceInv, OneSession
<1>4. QED
  BY <1>1, <1>2, <1>3, CredentialSafe, PTL DEF Spec

-----------------------------------------------------------------------------
(* The enrolled device: without a login, whatever is stored or held has    *)
(* the device flag of the credential that was stored first.                *)
LoginSteps == {"poll", "provision", "revoke previous"}

NoLogins == \A p \in Callers : caller[p].command # "login" /\ caller[p].pc \notin LoginSteps

AllHave(device) ==
  /\ keyring.token # NoToken => keyring.device = device
  /\ \A p \in Callers : caller[p].held.token # NoToken => caller[p].held.device = device

(* A step of one invocation that goes no way towards a login, and brings   *)
(* no other device.                                                        *)
LEMMA DeviceOfOne ==
  ASSUME NoLogins, NEW device, AllHave(device), NEW p \in Callers, Others(p),
         keyring'.token # NoToken => keyring'.device = device,
         caller'[p].command # "login", caller'[p].pc \notin LoginSteps,
         caller'[p].held.token # NoToken => caller'[p].held.device = device
  PROVE  NoLogins' /\ AllHave(device)'
BY DEF NoLogins, AllHave, Others

(* What is held in the steps that need a token has the device.             *)
LEMMA HeldHasDevice ==
  ASSUME CredentialInv, NEW device, AllHave(device), NEW p \in Callers, caller[p].pc \in TokenSteps
  PROVE  caller[p].held.token # NoToken /\ caller[p].held.device = device
<1>1. caller[p].held.token \in Issued
  BY DEF CredentialInv, Sound
<1>2. Issued \subseteq Tokens
  BY CredentialAssumption DEF CredentialInv, Shared, Issued, Tokens
<1>3. QED
  BY <1>1, <1>2, CredentialTypes DEF AllHave

(* Every step keeps the device on all copies.                              *)
LEMMA DeviceNext ==
  ASSUME CredentialInv, [Next]_vars, NoLogins, NEW device, AllHave(device), "login" \notin Commands
  PROVE  NoLogins' /\ AllHave(device)'
<1>plain. \A p \in Callers : /\ caller[p].command # "login" /\ caller[p].pc \notin LoginSteps
                             /\ caller[p] \in Invocations
  BY DEF NoLogins, CredentialInv
<1>had. /\ keyring.token # NoToken => keyring.device = device
        /\ \A p \in Callers : caller[p].held.token # NoToken => caller[p].held.device = device
  BY DEF AllHave
<1>stays. ASSUME NEW p \in Callers, NEW step, Goes(p, step), step \notin LoginSteps,
                 keyring'.token # NoToken => keyring'.device = device
          PROVE  NoLogins' /\ AllHave(device)'
  BY <1>stays, <1>plain, <1>had, GoesOn, DeviceOfOne
<1>ends. ASSUME NEW p \in Callers, Ends(p),
                keyring'.token # NoToken => keyring'.device = device
         PROVE  NoLogins' /\ AllHave(device)'
  BY <1>ends, EndsIdle, DeviceOfOne DEF LoginSteps
<1>1. ASSUME NEW p \in Callers, NEW command \in Commands, Start(p, command)
      PROVE  NoLogins' /\ AllHave(device)'
  <2>1. command # "login" /\ UNCHANGED keyring
    BY <1>1 DEF Start
  <2>2. /\ Others(p) /\ caller'[p].command = command /\ caller'[p].pc = "get"
        /\ caller'[p].held.token = NoToken
    BY <1>1 DEF Start, CredentialInv, Others, Idle, NoCredential
  <2>3. QED
    BY <1>had, <2>1, <2>2, DeviceOfOne DEF LoginSteps
<1>2. ASSUME NEW p \in Callers, GetNothing(p)
      PROVE  NoLogins' /\ AllHave(device)'
  BY <1>2, <1>plain, <1>had, <1>ends DEF GetNothing
<1>3. ASSUME NEW p \in Callers, GetCredential(p)
      PROVE  NoLogins' /\ AllHave(device)'
  <2>. DEFINE step == FirstStep(caller[p].command, keyring.token)
  <2>1. /\ UNCHANGED keyring
        /\ caller' = [caller EXCEPT ![p] = [caller[p] EXCEPT !.pc = step, !.held = keyring]]
    BY <1>3 DEF GetCredential
  <2>2. step \notin LoginSteps
    BY <1>plain DEF FirstStep, LoginSteps
  <2>. HIDE DEF step
  <2>3. /\ Others(p) /\ caller'[p].command = caller[p].command
        /\ caller'[p].pc = step /\ caller'[p].held = keyring
    BY <1>plain, <2>1 DEF CredentialInv, Others, Invocations
  <2>4. QED
    BY <1>plain, <1>had, <2>1, <2>2, <2>3, DeviceOfOne
<1>4. ASSUME NEW p \in Callers, JoinRefresh(p)
      PROVE  NoLogins' /\ AllHave(device)'
  <2>1. PICK q : caller' = [caller EXCEPT ![p] = [caller[p] EXCEPT !.pc = "await", !.leader = q]]
    BY <1>4 DEF JoinRefresh
  <2>2. /\ Others(p) /\ caller'[p].command = caller[p].command
        /\ caller'[p].pc = "await" /\ caller'[p].held = caller[p].held
    BY <1>plain, <2>1 DEF CredentialInv, Others, Invocations
  <2>3. UNCHANGED keyring
    BY <1>4 DEF JoinRefresh
  <2>4. QED
    BY <1>plain, <1>had, <2>2, <2>3, DeviceOfOne DEF LoginSteps
<1>5. ASSUME NEW p \in Callers, SendRefresh(p)
      PROVE  NoLogins' /\ AllHave(device)'
  <2>1. PICK reply : caller' = [caller EXCEPT ![p] = [caller[p] EXCEPT !.pc = "reply", !.reply = reply]]
    BY <1>5 DEF SendRefresh
  <2>2. /\ Others(p) /\ caller'[p].command = caller[p].command
        /\ caller'[p].pc = "reply" /\ caller'[p].held = caller[p].held
    BY <1>plain, <2>1 DEF CredentialInv, Others, Invocations
  <2>3. UNCHANGED keyring
    BY <1>5 DEF SendRefresh
  <2>4. QED
    BY <1>plain, <1>had, <2>2, <2>3, DeviceOfOne DEF LoginSteps
<1>6. ASSUME NEW p \in Callers, ReceiveReply(p)
      PROVE  NoLogins' /\ AllHave(device)'
  <2>. DEFINE reply == caller[p].reply
  <2>1. ASSUME NEW q \in Callers, caller[q].pc \in TokenSteps
        PROVE  LET r == AfterReply(q, reply)
               IN  /\ r.command # "login" /\ r.pc \notin LoginSteps
                   /\ r.held.token # NoToken => r.held.device = device
    <3>1. caller[q].held.device = device
      BY <2>1, HeldHasDevice
    <3>. HIDE DEF reply
    <3>2. CASE reply.status = "authorized"
      <4>1. PICK step \in {"set", "discard"} :
              AfterReply(q, reply) =
                [caller[q] EXCEPT !.pc = step,
                                  !.held = [token |-> reply.token, device |-> caller[q].held.device]]
        BY <3>2 DEF AfterReply
      <4>2. LET r == AfterReply(q, reply)
            IN  r.command = caller[q].command /\ r.pc = step /\ r.held.device = device
        BY <1>plain, <3>1, <4>1 DEF Invocations
      <4>3. QED
        BY <1>plain, <4>2 DEF LoginSteps
    <3>3. CASE reply.status = "refused"
      BY <1>plain, <1>had, <3>3 DEF AfterReply, Invocations, LoginSteps
    <3>4. CASE reply.status \notin {"authorized", "refused"}
      BY <3>4 DEF AfterReply, Idle, NoCredential, LoginSteps
    <3>5. QED
      BY <3>2, <3>3, <3>4
  <2>2. ASSUME NEW q \in Callers
        PROVE  /\ caller'[q].command # "login" /\ caller'[q].pc \notin LoginSteps
               /\ caller'[q].held.token # NoToken => caller'[q].held.device = device
    <3>1. CASE caller'[q] = AfterReply(q, reply) /\ caller[q].pc \in TokenSteps
      BY <2>1, <3>1
    <3>2. CASE caller'[q] = [caller[q] EXCEPT !.pc = "resend", !.leader = "nobody"]
      BY <1>plain, <1>had, <3>2 DEF Invocations, LoginSteps
    <3>3. CASE caller'[q] = caller[q]
      BY <1>plain, <1>had, <3>3
    <3>4. QED
      BY <1>6, <3>1, <3>2, <3>3 DEF ReceiveReply, TokenSteps
  <2>3. UNCHANGED keyring
    BY <1>6 DEF ReceiveReply
  <2>4. QED
    BY <1>had, <2>2, <2>3 DEF NoLogins, AllHave
<1>7. ASSUME NEW p \in Callers, SetCredential(p)
      PROVE  NoLogins' /\ AllHave(device)'
  <2>1. keyring' \in {keyring, caller[p].held}
    BY <1>7 DEF SetCredential
  <2>2. \E step \in {"verify", "discard"} : Goes(p, step)
    BY <1>7, <1>plain DEF SetCredential, SetFails
  <2>3. QED
    BY <1>had, <1>stays, <2>1, <2>2 DEF LoginSteps
<1>8. ASSUME NEW p \in Callers, VerifySet(p) \/ VerifyFails(p)
      PROVE  NoLogins' /\ AllHave(device)'
  <2>1. \E step \in {"use", "discard"} : Goes(p, step)
    BY <1>8, <1>plain DEF VerifySet, VerifyFails, SetFails
  <2>2. UNCHANGED keyring
    BY <1>8 DEF VerifySet, VerifyFails
  <2>3. QED
    BY <1>had, <1>stays, <2>1, <2>2 DEF LoginSteps
<1>9. ASSUME NEW p \in Callers, RevokeSession(p)
      PROVE  NoLogins' /\ AllHave(device)'
  BY <1>9, <1>had, <1>stays DEF RevokeSession, LoginSteps
<1>10. ASSUME NEW p \in Callers, DeleteCredential(p)
       PROVE  NoLogins' /\ AllHave(device)'
  BY <1>10, <1>had, <1>ends DEF DeleteCredential, NoCredential
<1>11. ASSUME NEW p \in Callers, Lend(p)
       PROVE  NoLogins' /\ AllHave(device)'
  BY <1>11, <1>had, <1>ends DEF Lend
<1>12. ASSUME NEW p \in Callers, QueryUsage(p)
       PROVE  NoLogins' /\ AllHave(device)'
  <2>1. UNCHANGED keyring
    BY <1>12 DEF QueryUsage
  <2>2. CASE Ends(p)
    BY <1>had, <1>ends, <2>1, <2>2
  <2>3. ASSUME NEW step \in {"delete", "refresh"},
               caller' = [caller EXCEPT ![p] = [caller[p] EXCEPT !.pc = step, !.again = TRUE]]
        PROVE  NoLogins' /\ AllHave(device)'
    <3>1. /\ Others(p) /\ caller'[p].command = caller[p].command
          /\ caller'[p].pc = step /\ caller'[p].held = caller[p].held
      BY <1>plain, <2>3 DEF CredentialInv, Others, Invocations
    <3>2. QED
      BY <1>plain, <1>had, <2>1, <3>1, DeviceOfOne DEF LoginSteps
  <2>4. QED
    BY <1>12, <2>2, <2>3 DEF QueryUsage
<1>13. ASSUME NEW p \in Callers,
              PollDeviceToken(p) \/ NotAuthorized(p) \/ ProvisionDevice(p) \/ RevokePrevious(p)
       PROVE  NoLogins' /\ AllHave(device)'
  BY <1>13, <1>plain
     DEF PollDeviceToken, NotAuthorized, ProvisionDevice, RevokePrevious, LoginSteps
<1>14. ASSUME NEW p \in Callers, Crash(p)
       PROVE  NoLogins' /\ AllHave(device)'
  <2>1. /\ UNCHANGED keyring
        /\ \A q \in Callers : caller'[q] \in {Idle, caller[q]}
    BY <1>14 DEF Crash
  <2>2. Idle.command # "login" /\ Idle.pc \notin LoginSteps /\ Idle.held.token = NoToken
    BY DEF Idle, LoginSteps, NoCredential
  <2>3. QED
    BY <1>plain, <1>had, <2>1, <2>2 DEF NoLogins, AllHave
<1>15. ASSUME ExpireAccess \/ ExpireRefresh \/ UNCHANGED vars
       PROVE  NoLogins' /\ AllHave(device)'
  <2>1. UNCHANGED <<keyring, caller>>
    BY <1>15 DEF ExpireAccess, ExpireRefresh, vars
  <2>2. QED
    BY <2>1 DEF NoLogins, AllHave
<1>16. QED
  BY <1>1, <1>2, <1>3, <1>4, <1>5, <1>6, <1>7, <1>8, <1>9, <1>10, <1>11, <1>12, <1>13, <1>14, <1>15
     DEF Next, Runs

(* CredentialDeviceKept: where nobody logs in, no refresh, by any number   *)
(* of invocations of any clients, through lost answers, keyring errors and *)
(* crashes, stores the session again without its enrolled device.          *)
THEOREM CredentialDeviceKept ==
  ASSUME "login" \notin Commands
  PROVE  Spec => DeviceKept
<1>. DEFINE DeviceInv == NoLogins /\ \E device \in BOOLEAN : AllHave(device)
<1>1. Init => DeviceInv
  <2> SUFFICES ASSUME Init PROVE NoLogins /\ AllHave(keyring.device) /\ keyring.device \in BOOLEAN
    OBVIOUS
  <2>1. keyring.device \in BOOLEAN
    BY CredentialInit, CredentialTypes DEF CredentialInv, Shared
  <2>2. \A p \in Callers : /\ caller[p].command # "login" /\ caller[p].pc \notin LoginSteps
                           /\ caller[p].held.token = NoToken
    BY DEF Init, Idle, NoCredential, LoginSteps
  <2>3. QED
    BY <2>1, <2>2 DEF NoLogins, AllHave
<1>2. CredentialInv /\ DeviceInv /\ [Next]_vars => DeviceInv'
  <2> SUFFICES ASSUME CredentialInv, NoLogins, [Next]_vars,
                      NEW device \in BOOLEAN, AllHave(device)
               PROVE  NoLogins' /\ AllHave(device)'
    OBVIOUS
  <2>1. QED
    BY DeviceNext
<1>3. CredentialInv /\ CredentialInv' /\ DeviceInv /\ [Next]_vars
        => [keyring.device /\ keyring'.token # NoToken
              /\ session'[keyring'.token] = session[keyring.token] => keyring'.device]_vars
  <2> SUFFICES ASSUME CredentialInv, NoLogins, [Next]_vars, keyring.device, keyring'.token # NoToken,
                      NEW device \in BOOLEAN, AllHave(device)
               PROVE  keyring'.device
    OBVIOUS
  <2>1. keyring # NoCredential
    BY DEF NoCredential
  <2>2. keyring.token # NoToken
    BY <2>1, CredentialTypes DEF CredentialInv, Shared, Credentials
  <2>3. device
    BY <2>2 DEF AllHave
  <2>4. AllHave(device)'
    BY DeviceNext
  <2>5. QED
    BY <2>3, <2>4 DEF AllHave
<1>4. QED
  BY <1>1, <1>2, <1>3, CredentialSafe, PTL DEF Spec, DeviceKept

-----------------------------------------------------------------------------
(* One command at a time: what the keyring and the control plane disagree  *)
(* on while it runs, and how much of that it will still put right.         *)

OneAtATime == MaxActive = 1 /\ "logout --local-only" \notin Commands

(* The sessions with a token that will be rotated, those that are lost at  *)
(* the end of a command (SessionsAgree), and that of one token.            *)
Open == {session[t] : t \in live \ lapsed}
Lost == {session[t] : t \in Orphans \union StoredDead}
SessionOf(t) == {session[u] : u \in {t} \ {NoToken}}

Within(sessions) == Cardinality(sessions) <= faults

(* A session has one live token, and is no younger than its tokens.        *)
Order ==
  /\ \A t, u \in live : session[t] = session[u] => t = u
  /\ \A t \in Issued : session[t] <= t

(* The way of an invocation that nobody meets.                             *)
Course(p) ==
  LET r == caller[p] IN
  /\ r.pc \notin {"await", "resend"} /\ r.command # "logout --local-only"
  /\ r.pc \in {"refresh", "reply", "use"} => r.command # "login"
  /\ r.command # "login" =>
       r.previous = NoToken /\ r.pc \notin {"poll", "provision", "revoke previous"}
  /\ r.pc \in {"get", "poll"} => ~r.again /\ r.previous = NoToken

Own(p) == SessionOf(caller[p].held.token)
Before(p) == SessionOf(caller[p].previous)

(* Of the lost sessions, each has had its fault but those that the running *)
(* command deals with in its next steps.                                   *)
Account(p) ==
  LET r == caller[p]
      stored == keyring.token = r.held.token
  IN
  /\ r.pc = "get" => Within(Lost)
  /\ r.pc = "poll" => Within(Lost) /\ Within(Open \ Own(p))
  /\ r.pc \in {"refresh", "use"} => stored /\ Within(Lost)
  /\ r.pc = "reply" =>
       /\ stored
       /\ r.reply.status = "authorized" =>
            Within(Open \ Own(p)) /\ r.reply.token \in live /\ SessionOf(r.reply.token) = Own(p)
       /\ r.reply.status = "refused" => Within(Open)
       /\ r.reply.status = "unavailable" => Within(Lost)
  /\ r.pc \in {"set", "verify", "provision", "revoke previous"} =>
       /\ r.held.token \in live /\ Own(p) \intersect Before(p) = {}
       /\ Within((Open \ Own(p)) \ Before(p))
       /\ IF r.pc = "set" /\ ~(r.command = "login" /\ r.again) THEN Within(Lost \ Own(p)) ELSE stored
  /\ r.pc = "verify" => keyring = r.held
  /\ r.pc \in {"discard", "revoke"} => Within(Open \ Own(p)) /\ Within(Lost \ Own(p))
  /\ r.pc = "delete" => Within(Open)

SoloInv ==
  /\ Order
  /\ \A p, q \in Callers : caller[p].pc # "idle" /\ caller[q].pc # "idle" => p = q
  /\ \A p \in table : caller[p].pc = "reply"
  /\ \A p \in Callers : Course(p) /\ Account(p)
  /\ Quiet => Within(Lost)

(* How the books relate.                                                   *)
Books ==
  /\ Open \subseteq Tokens /\ Lost \subseteq Tokens
  /\ NoToken \notin Issued /\ live \subseteq Issued
  /\ SessionOf(NoToken) = {} /\ \A t \in Issued : SessionOf(t) = {session[t]}
  /\ keyring.token \in Issued \union {NoToken}
  /\ Lost \subseteq Open \union SessionOf(keyring.token)
  /\ Open \ SessionOf(keyring.token) \subseteq Lost
  /\ keyring.token \in live => Lost \subseteq Open \ SessionOf(keyring.token)
  /\ keyring.token = NoToken => Lost = Open
  /\ keyring.token \notin live \ lapsed => Open \subseteq Lost

(* Lemma: they do so whenever a session has one live token.                *)
LEMMA BooksRelate == CredentialInv /\ Order => Books
<1> SUFFICES ASSUME CredentialInv, Order
             PROVE  Books
  OBVIOUS
<1>1. /\ NoToken \notin Issued /\ live \subseteq Issued
      /\ keyring.token \in Issued \union {NoToken}
      /\ \A t \in Issued : session[t] \in Tokens
  BY CredentialAssumption DEF CredentialInv, Shared, Issued, Tokens, NoToken
<1>2. /\ Open \subseteq Tokens
      /\ \A t \in Orphans \union StoredDead : t \in Issued
  BY <1>1 DEF Open, Orphans, StoredDead
<1>3. Lost \subseteq Tokens
  BY <1>1, <1>2 DEF Lost
<1>4. SessionOf(NoToken) = {} /\ \A t \in Issued : SessionOf(t) = {session[t]}
  BY <1>1 DEF SessionOf
<1>5. Lost \subseteq Open \union SessionOf(keyring.token)
  BY DEF Lost, Open, Orphans, StoredDead, SessionOf
<1>6. Open \ SessionOf(keyring.token) \subseteq Lost
  <2> SUFFICES ASSUME NEW t \in live \ lapsed, session[t] \notin SessionOf(keyring.token)
               PROVE  session[t] \in Lost
    BY DEF Open
  <2>1. t # keyring.token
    BY <1>1, <1>4
  <2>2. QED
    BY <2>1 DEF Lost, Orphans
<1>7. ASSUME keyring.token \in live
      PROVE  Lost \subseteq Open \ SessionOf(keyring.token)
  <2>1. StoredDead = {} /\ SessionOf(keyring.token) = {session[keyring.token]}
    BY <1>1, <1>4, <1>7 DEF StoredDead
  <2>2. \A t \in Orphans : session[t] # session[keyring.token]
    BY <1>7 DEF Orphans, Order
  <2>3. QED
    BY <2>1, <2>2 DEF Lost, Orphans, Open
<1>8. keyring.token = NoToken => Lost = Open
  BY <1>1 DEF Lost, Open, Orphans, StoredDead
<1>9. keyring.token \notin live \ lapsed => Open \subseteq Lost
  BY DEF Lost, Open, Orphans
<1>10. QED
  BY <1>1, <1>2, <1>3, <1>4, <1>5, <1>6, <1>7, <1>8, <1>9 DEF Books

(* Lemma: and in the next state.                                           *)
LEMMA BooksRelateNext == CredentialInv' /\ Order' => Books'
BY BooksRelate, PTL

(* Lemma: what is part of a bounded set is bounded, and with one element   *)
(* more it is by one more.                                                 *)
LEMMA Bounded ==
  ASSUME NEW S, NEW T \in SUBSET Tokens, NEW n \in Nat, Cardinality(T) <= n
  PROVE  /\ S \subseteq T => \A m \in Nat : n <= m => Cardinality(S) <= m
         /\ \A x : S \subseteq T \union {x} => Cardinality(S) <= n + 1
<1>1. IsFiniteSet(T)
  <2>1. IsFiniteSet(Tokens)
    BY FS_Interval, CredentialAssumption DEF Tokens
  <2>2. QED
    BY <2>1, FS_Subset
<1>2. S \subseteq T => \A m \in Nat : n <= m => Cardinality(S) <= m
  BY <1>1, FS_Subset, FS_CardinalityType
<1>3. ASSUME NEW x, S \subseteq T \union {x}
      PROVE  Cardinality(S) <= n + 1
  <2>0. Cardinality(T) \in Nat
    BY <1>1, FS_CardinalityType
  <2>a. /\ IsFiniteSet(T \union {x})
        /\ Cardinality(T \union {x}) = IF x \in T THEN Cardinality(T) ELSE Cardinality(T) + 1
    BY <1>1, FS_AddElement
  <2>1. IsFiniteSet(T \union {x}) /\ Cardinality(T \union {x}) <= n + 1
    BY <2>0, <2>a
  <2>2. Cardinality(S) <= Cardinality(T \union {x}) /\ IsFiniteSet(S)
    BY <1>3, <2>1, FS_Subset
  <2>3. Cardinality(S) \in Nat /\ Cardinality(T \union {x}) \in Nat
    BY <2>1, <2>2, FS_CardinalityType
  <2>4. QED
    BY <2>1, <2>2, <2>3
<1>4. QED
  BY <1>2, <1>3

(* Lemma: a bounded set of sessions stays bounded, and one more loss has   *)
(* had its fault.                                                          *)
LEMMA Budget ==
  ASSUME CredentialInv, CredentialInv', NEW S, NEW T \in SUBSET Tokens, Within(T)
  PROVE  /\ S \subseteq T /\ (Works \/ Fails) => Cardinality(S) <= faults'
         /\ \A x : S \subseteq T \union {x} /\ Fails => Cardinality(S) <= faults'
<1>1. faults \in Nat /\ faults' \in Nat
  BY CredentialAssumption DEF CredentialInv, Shared
<1>2. Cardinality(T) <= faults
  BY DEF Within
<1>3. S \subseteq T => \A m \in Nat : faults <= m => Cardinality(S) <= m
  BY <1>1, <1>2, Bounded
<1>4. \A x : S \subseteq T \union {x} => Cardinality(S) <= faults + 1
  BY <1>1, <1>2, Bounded
<1>5. (Works \/ Fails) => faults <= faults'
  BY <1>1 DEF Works, Fails
<1>6. Fails => faults' = faults + 1
  BY DEF Fails
<1>7. QED
  BY <1>1, <1>3, <1>4, <1>5, <1>6

(* Lemma: an invocation that is not running has nothing to put right.      *)
LEMMA IdleAccount == \A p : caller[p].pc = "idle" => Account(p)
BY DEF Account

(* Lemma: and in the next state.                                           *)
LEMMA IdleAccountNext == \A p : caller'[p].pc = "idle" => Account(p)'
BY DEF Account

(* Lemma: at the start there is one session at most, and it is stored.     *)
LEMMA SoloInit == Init => SoloInv
<1> SUFFICES ASSUME Init
             PROVE  SoloInv
  OBVIOUS
<1>1. CredentialInv
  BY CredentialInit
<1>2. \A p \in Callers : caller[p] = Idle
  BY DEF Init
<1>3. Order
  BY DEF Init, Order, Issued, NoCredential
<1>4. Lost = {}
  <2>1. live = Issued /\ lapsed = {} /\ live \subseteq {keyring.token}
    BY DEF Init, Issued
  <2>2. keyring.token \in {NoToken} \union live
    BY <2>1 DEF Init, NoCredential, Issued
  <2>3. Orphans = {} /\ StoredDead = {}
    BY <2>1, <2>2 DEF Orphans, StoredDead
  <2>4. QED
    BY <2>3 DEF Lost
<1>5. Within(Lost)
  <2>1. Cardinality(Lost) = 0
    BY <1>4, FS_EmptySet
  <2>2. QED
    BY <2>1 DEF Within, Init
<1>6. \A p \in Callers : Course(p) /\ Account(p)
  <2>1. \A p \in Callers : caller[p].pc = "idle" /\ caller[p].previous = NoToken
                          /\ caller[p].command = "launch"
    BY <1>2 DEF Idle
  <2>2. QED
    BY <2>1, IdleAccount DEF Course
<1>7. QED
  BY <1>2, <1>3, <1>5, <1>6 DEF SoloInv, Init, Idle

(* Lemma: nobody else moves, so that what a step leaves of its own         *)
(* invocation is what counts.                                              *)
LEMMA SoloKept ==
  ASSUME CredentialInv, CredentialInv', SoloInv, NEW p \in Callers, Others(p),
         caller[p].pc # "idle" \/ Quiet,
         table' \subseteq table \union {p}, p \in table' => caller'[p].pc = "reply",
         Order', Course(p)', Account(p)', caller'[p].pc = "idle" => Within(Lost)'
  PROVE  SoloInv'
<1>1. \A q \in Callers \ {p} : caller[q].pc = "idle" /\ caller'[q] = caller[q]
  BY DEF SoloInv, Others, Quiet
<1>2. \A q \in table' : caller'[q].pc = "reply"
  BY <1>1 DEF SoloInv, CredentialInv, Shared
<1>3. \A q \in Callers \ {p} : Course(q)' /\ Account(q)'
  <2> SUFFICES ASSUME NEW q \in Callers \ {p}
               PROVE  Course(q)' /\ Account(q)'
    OBVIOUS
  <2>1. Course(q)'
    BY <1>1 DEF SoloInv, Course
  <2>2. Account(q)'
    BY <1>1, IdleAccountNext
  <2>3. QED
    BY <2>1, <2>2
<1>4. QED
  BY <1>1, <1>2, <1>3 DEF SoloInv, Quiet

(* Lemma: a step that leaves the keyring, the sessions and their tokens    *)
(* alone leaves the books as they are.                                     *)
LEMMA BooksStay ==
  ASSUME UNCHANGED <<keyring, session, live>>, lapsed \subseteq lapsed'
  PROVE  /\ Open' \subseteq Open /\ Lost' \subseteq Lost
         /\ Order => Order'
         /\ \A p : caller'[p].held.token = caller[p].held.token => Own(p)' = Own(p)
         /\ \A p : caller'[p].previous = caller[p].previous => Before(p)' = Before(p)
BY DEF Open, Lost, Orphans, StoredDead, Order, Issued, Own, Before, SessionOf

(* Lemma: whatever a command is about when its process dies, one session   *)
(* more is lost at most.                                                   *)
LEMMA CrashLoss ==
  ASSUME CredentialInv, SoloInv, NEW p \in Callers, caller[p].pc # "idle"
  PROVE  \E T \in SUBSET Tokens : \E x : Within(T) /\ Lost \subseteq T \union {x}
<1>1. Books
  BY BooksRelate DEF SoloInv
<1>2. Course(p) /\ Account(p)
  BY DEF SoloInv
<1>3. /\ caller[p].pc \in Steps
      /\ caller[p].reply.status \in Statuses
      /\ caller[p].pc \in TokenSteps => Own(p) = {session[caller[p].held.token]}
      /\ \E x : SessionOf(keyring.token) \subseteq {x}
      /\ \E x : Before(p) \subseteq {x}
  BY <1>1 DEF CredentialInv, Sound, Invocations, Books, Own, Before, SessionOf
<1>4. Lost \in SUBSET Tokens /\ Open \in SUBSET Tokens
  BY <1>1 DEF Books
<1>5. CASE Within(Lost)
  BY <1>4, <1>5
<1>6. CASE Within(Open)
  BY <1>1, <1>3, <1>4, <1>6 DEF Books
<1>7. CASE caller[p].pc = "reply" /\ caller[p].reply.status = "authorized"
  <2>1. Within(Open \ Own(p)) /\ SessionOf(keyring.token) = Own(p)
    BY <1>2, <1>7 DEF Account, Own
  <2>2. Lost \subseteq (Open \ Own(p)) \union Own(p)
    BY <1>1, <2>1 DEF Books
  <2>3. Own(p) = {session[caller[p].held.token]}
    BY <1>3, <1>7 DEF TokenSteps
  <2>4. QED
    BY <1>4, <2>1, <2>2, <2>3
<1>8. CASE caller[p].pc \in {"discard", "revoke"} \/ (caller[p].pc = "set" /\ Within(Lost \ Own(p)))
  <2>1. Within(Lost \ Own(p)) /\ caller[p].pc \in TokenSteps
    BY <1>2, <1>8 DEF Account, TokenSteps
  <2>2. QED
    BY <1>3, <1>4, <2>1
<1>9. CASE /\ caller[p].pc \in {"set", "verify", "provision", "revoke previous"}
           /\ keyring.token = caller[p].held.token
  <2>1. /\ Within((Open \ Own(p)) \ Before(p)) /\ keyring.token \in live
        /\ SessionOf(keyring.token) = Own(p)
    BY <1>2, <1>9 DEF Account, Own
  <2>2. Lost \subseteq Open \ Own(p)
    BY <1>1, <2>1 DEF Books
  <2>3. PICK x : Before(p) \subseteq {x}
    BY <1>3
  <2>4. Lost \subseteq ((Open \ Own(p)) \ Before(p)) \union {x}
    BY <2>2, <2>3
  <2>5. QED
    BY <1>4, <2>1, <2>4
<1>10. QED
  <2>1. \/ Within(Lost) \/ Within(Open)
        \/ caller[p].pc = "reply" /\ caller[p].reply.status = "authorized"
        \/ caller[p].pc \in {"discard", "revoke"} \/ (caller[p].pc = "set" /\ Within(Lost \ Own(p)))
        \/ /\ caller[p].pc \in {"set", "verify", "provision", "revoke previous"}
           /\ keyring.token = caller[p].held.token
    BY <1>2, <1>3 DEF Account, Course, Steps, Statuses
  <2>2. QED
    BY <1>5, <1>6, <1>7, <1>8, <1>9, <2>1

(* Lemma: a token that is issued is newer than all before, whose sessions  *)
(* stay what they were.                                                    *)
LEMMA Grows ==
  ASSUME CredentialInv, NEW s \in Tokens, Len(session) + 1 \in Tokens,
         session' = Append(session, s)
  PROVE  LET new == Len(session) + 1
         IN  /\ new \in Nat /\ new \notin Issued /\ new # NoToken
             /\ Issued' = Issued \union {new} /\ session'[new] = s
             /\ \A u \in Issued : u \in Nat /\ u < new /\ session[u] \in Nat /\ session'[u] = session[u]
<1>1. session \in Seq(Tokens) /\ Len(session) \in Nat /\ Tokens \subseteq Nat /\ NoToken \notin Tokens
  BY CredentialAssumption DEF CredentialInv, Shared, Tokens, NoToken
<1>2. Issued = 1 .. Len(session) /\ \A u \in Issued : session[u] \in Tokens
  BY <1>1 DEF Issued
<1>3. Issued' = Issued \union {Len(session) + 1}
  BY <1>1, IssuedAfterAppend DEF Issued
<1>4. session'[Len(session) + 1] = s /\ \A u \in Issued : session'[u] = session[u]
  BY <1>1, <1>2
<1>5. Len(session) + 1 \in Nat /\ Len(session) + 1 \notin Issued /\ Len(session) + 1 # NoToken
  BY <1>1, <1>2
<1>6. \A u \in Issued : u \in Nat /\ u < Len(session) + 1 /\ session[u] \in Nat
  <2>1. \A u \in 1 .. Len(session) : u \in Nat /\ u < Len(session) + 1
    BY <1>1
  <2>2. QED
    BY <1>1, <1>2, <2>1
<1>7. QED
  BY <1>3, <1>4, <1>5, <1>6

(* Lemma: every step of the only command keeps the account.                *)
LEMMA SoloNext ==
  ASSUME OneAtATime, CredentialInv, CredentialInv', SoloInv, [Next]_vars
  PROVE  SoloInv'
<1>typed. /\ Shared
          /\ \A p \in Callers : Sound(caller[p], Issued, verified) /\ caller[p] \in Invocations
  BY DEF CredentialInv
<1>books. Books
  BY BooksRelate DEF SoloInv
<1>mine. Order /\ \A p \in Callers : Course(p) /\ Account(p)
  BY DEF SoloInv
<1>holds. \A p \in Callers : caller[p].pc \in TokenSteps =>
            caller[p].held.token \in Issued /\ Own(p) = {session[caller[p].held.token]}
  BY <1>typed, <1>books DEF Sound, Books, Own
<1>sets. /\ Lost \in SUBSET Tokens /\ Open \in SUBSET Tokens
         /\ \A S : (Open \ S) \in SUBSET Tokens /\ (Lost \ S) \in SUBSET Tokens
         /\ \A t : t \in Issued \union {NoToken} => \E x : SessionOf(t) \subseteq {x}
         /\ \A p \in Callers : \E x : Before(p) \subseteq {x}
  BY <1>books DEF Books, SessionOf, Before
<1>tables. \A p \in Callers : p \in table => caller[p].pc = "reply"
  BY DEF SoloInv
<1>ends. ASSUME NEW p \in Callers, caller[p].pc \notin {"idle", "reply"}, Ends(p), table' = table,
                Order', Cardinality(Lost') <= faults'
         PROVE  SoloInv'
  <2>1. /\ Others(p) /\ caller'[p].pc = "idle" /\ caller'[p].previous = NoToken
        /\ caller'[p].command = "launch"
    BY <1>ends, EndsIdle
  <2>2. Course(p)'
    BY <2>1 DEF Course
  <2>3. Account(p)'
    BY <2>1, IdleAccountNext
  <2>4. Within(Lost)'
    BY <1>ends DEF Within
  <2>5. p \notin table
    BY <1>ends, <1>tables
  <2>6. QED
    BY <1>ends, <2>1, <2>2, <2>3, <2>4, <2>5, SoloKept
<1>1. ASSUME NEW p \in Callers, NEW command \in Commands, Start(p, command)
      PROVE  SoloInv'
  <2>1. Quiet
    <3>. DEFINE running == {q \in Callers : caller[q].pc # "idle"}
    <3>1. IsFiniteSet(running) /\ Cardinality(running) < 1
      BY <1>1, CredentialAssumption, FS_Subset DEF Start, OneAtATime
    <3>2. Cardinality(running) = 0
      BY <3>1, FS_CardinalityType
    <3>3. running = {}
      BY <3>1, <3>2, FS_EmptySet
    <3>4. QED
      BY <3>3 DEF Quiet
  <2>2. /\ UNCHANGED <<keyring, session, live, lapsed, table>> /\ Works
        /\ caller' = [caller EXCEPT ![p] = [Idle EXCEPT !.pc = "get", !.command = command]]
        /\ command # "logout --local-only"
    BY <1>1 DEF Start, server, clock, OneAtATime, Works
  <2>3. /\ Others(p) /\ caller'[p].pc = "get" /\ caller'[p].previous = NoToken
        /\ ~caller'[p].again /\ caller'[p].command = command
    BY <2>2 DEF CredentialInv, Others, Idle
  <2>4. Lost' \subseteq Lost /\ Order'
    BY <1>mine, <2>2, BooksStay
  <2>5. Within(Lost)
    BY <2>1 DEF SoloInv
  <2>6. Within(Lost)'
    BY <1>sets, <2>2, <2>4, <2>5, Budget DEF Within
  <2>7. Course(p)'
    BY <2>2, <2>3 DEF Course
  <2>8. Account(p)'
    BY <2>3, <2>6 DEF Account
  <2>9. p \notin table
    BY <1>tables, <2>1 DEF Quiet
  <2>10. QED
    BY <2>1, <2>2, <2>3, <2>4, <2>7, <2>8, <2>9, SoloKept
<1>2. ASSUME NEW p \in Callers, GetNothing(p)
      PROVE  SoloInv'
  <2>1. /\ UNCHANGED <<keyring, session, live, lapsed, table>> /\ (Works \/ Fails)
        /\ caller[p].pc = "get"
    BY <1>2 DEF GetNothing, server, clock
  <2>2. /\ Lost' \subseteq Lost /\ Open' \subseteq Open /\ Order'
        /\ \A q : caller'[q].held.token = caller[q].held.token => Own(q)' = Own(q)
    BY <1>mine, <2>1, BooksStay
  <2>3. Within(Lost)
    BY <1>mine, <2>1 DEF Account
  <2>4. Cardinality(Lost') <= faults'
    BY <1>sets, <2>1, <2>2, <2>3, Budget
  <2>5. CASE Ends(p)
    BY <1>ends, <2>1, <2>2, <2>4, <2>5
  <2>6. CASE caller[p].command = "login" /\ Goes(p, "poll")
    <3>1. /\ Others(p) /\ caller'[p].pc = "poll" /\ caller'[p].held = caller[p].held
          /\ caller'[p].command = "login" /\ caller'[p].previous = caller[p].previous
          /\ caller'[p].again = caller[p].again
      BY <2>6, GoesOn
    <3>2. Own(p)' = Own(p)
      BY <2>2, <3>1
    <3>3. Cardinality(Open' \ Own(p)) <= faults'
      <4>1. CASE Works /\ keyring = NoCredential
        <5>1. Lost = Open
          BY <1>books, <4>1 DEF Books, NoCredential
        <5>2. Open' \ Own(p) \subseteq Lost
          BY <2>2, <5>1
        <5>3. QED
          BY <1>sets, <2>3, <4>1, <5>2, Budget
      <4>2. CASE Fails
        <5>1. PICK x : SessionOf(keyring.token) \subseteq {x}
          BY <1>sets, <1>books DEF Books
        <5>2. Open' \ Own(p) \subseteq Lost \union {x}
          BY <1>books, <2>2, <5>1 DEF Books
        <5>3. QED
          BY <1>sets, <2>3, <4>2, <5>2, Budget
      <4>3. QED
        BY <1>2, <4>1, <4>2 DEF GetNothing
    <3>4. Course(p)'
      BY <1>mine, <2>1, <3>1 DEF Course
    <3>5. Account(p)'
      BY <2>4, <3>1, <3>2, <3>3 DEF Account, Within
    <3>6. QED
      BY <1>tables, <2>1, <2>2, <3>1, <3>4, <3>5, SoloKept
  <2>7. QED
    BY <1>2, <2>5, <2>6 DEF GetNothing
<1>3. ASSUME NEW p \in Callers, GetCredential(p)
      PROVE  SoloInv'
  <2>. DEFINE step == FirstStep(caller[p].command, keyring.token)
  <2>1. /\ UNCHANGED <<keyring, session, live, lapsed, table>> /\ Works
        /\ caller[p].pc = "get"
        /\ caller' = [caller EXCEPT ![p] = [caller[p] EXCEPT !.pc = step, !.held = keyring]]
    BY <1>3 DEF GetCredential, server, clock, Works
  <2>2. /\ Others(p) /\ caller'[p].pc = step /\ caller'[p].held = keyring
        /\ caller'[p].command = caller[p].command /\ caller'[p].previous = NoToken
        /\ ~caller'[p].again
    BY <1>typed, <1>mine, <2>1 DEF CredentialInv, Others, Invocations, Course
  <2>3. /\ step \in {"revoke", "poll", "use", "delete", "refresh"}
        /\ step = "poll" <=> caller[p].command = "login"
        /\ step = "delete" => keyring.token \in lapsed
        /\ caller[p].command # "logout --local-only"
    BY <1>mine DEF FirstStep, Course
  <2>. HIDE DEF step
  <2>4. /\ Lost' \subseteq Lost /\ Open' \subseteq Open /\ Order'
        /\ Own(p)' = SessionOf(keyring.token)
    BY <1>mine, <2>1, <2>2, BooksStay DEF Own, SessionOf
  <2>5. Within(Lost)
    BY <1>mine, <2>1 DEF Account
  <2>6. /\ Lost' \subseteq Lost /\ Lost' \ Own(p)' \subseteq Lost /\ Open' \ Own(p)' \subseteq Lost
        /\ keyring.token \in lapsed => Open' \subseteq Lost
    BY <1>books, <2>4 DEF Books
  <2>7. \A S : S \subseteq Lost => Cardinality(S) <= faults'
    BY <1>sets, <2>1, <2>5, Budget
  <2>8. /\ Within(Lost)' /\ Within(Lost \ Own(p))' /\ Within(Open \ Own(p))'
        /\ step = "delete" => Within(Open)'
    BY <2>3, <2>6, <2>7 DEF Within
  <2>9. Course(p)'
    BY <2>2, <2>3 DEF Course
  <2>10. Account(p)'
    BY <2>1, <2>2, <2>3, <2>8 DEF Account
  <2>11. QED
    BY <1>tables, <2>1, <2>2, <2>3, <2>4, <2>9, <2>10, SoloKept
<1>4. ASSUME NEW p \in Callers, JoinRefresh(p)
      PROVE  SoloInv'
  <2>1. PICK q \in Pending(p) : TRUE
    BY <1>4 DEF JoinRefresh
  <2>2. q \in Callers /\ caller[q].pc = "reply"
    BY <1>typed, <1>tables, <2>1 DEF Pending, Shared
  <2>3. caller[p].pc = "refresh"
    BY <1>4 DEF JoinRefresh
  <2>4. QED
    BY <2>2, <2>3 DEF SoloInv
<1>5. ASSUME NEW p \in Callers, SendRefresh(p)
      PROVE  SoloInv'
  <2>. DEFINE t == caller[p].held.token
              new == Len(session) + 1
              Answered(a) == session' = a.session /\ live' = a.live
  <2>1. /\ caller[p].pc = "refresh" /\ t \in Issued /\ Own(p) = {session[t]}
        /\ keyring.token = t /\ Within(Lost) /\ SessionOf(keyring.token) = Own(p)
    BY <1>5, <1>mine, <1>holds DEF SendRefresh, TokenSteps, Course, Account, Own
  <2>2. /\ UNCHANGED <<keyring, lapsed>> /\ table' \subseteq table \union {p}
    BY <1>5 DEF SendRefresh, clock
  <2>3. PICK a \in Answers(t) :
          \/ /\ Works /\ Answered(a)
             /\ caller' = [caller EXCEPT ![p] = [caller[p] EXCEPT !.pc = "reply", !.reply = a.reply]]
          \/ /\ Fails /\ (Answered(a) \/ UNCHANGED <<session, live>>)
             /\ caller' = [caller EXCEPT ![p] = [caller[p] EXCEPT !.pc = "reply", !.reply = NoReply]]
    BY <1>5 DEF SendRefresh, server
  <2>4. /\ Others(p) /\ caller'[p].pc = "reply" /\ caller'[p].held = caller[p].held
        /\ caller'[p].command = caller[p].command /\ caller'[p].previous = caller[p].previous
        /\ \/ Works /\ Answered(a) /\ caller'[p].reply = a.reply
           \/ Fails /\ caller'[p].reply = NoReply
    <3>1. PICK reply \in {a.reply, NoReply} :
            /\ caller' = [caller EXCEPT ![p] = [caller[p] EXCEPT !.pc = "reply", !.reply = reply]]
            /\ \/ Works /\ Answered(a) /\ reply = a.reply
               \/ Fails /\ reply = NoReply
      BY <2>3
    <3>2. Others(p) /\ caller'[p] = [caller[p] EXCEPT !.pc = "reply", !.reply = reply]
      BY <3>1 DEF CredentialInv, Others
    <3>3. /\ caller'[p].pc = "reply" /\ caller'[p].held = caller[p].held
          /\ caller'[p].command = caller[p].command /\ caller'[p].previous = caller[p].previous
          /\ caller'[p].reply = reply
      BY <1>typed, <3>2 DEF Invocations
    <3>4. QED
      BY <3>1, <3>2, <3>3
  <2>5. /\ Order' /\ Own(p)' = Own(p) /\ Open' \ Own(p) \subseteq Lost
        /\ Lost' \subseteq Lost \union Own(p)
        /\ Answered(a) =>
             /\ a.reply.status = "authorized" =>
                  a.reply.token \in live' /\ SessionOf(a.reply.token)' = Own(p)
             /\ a.reply.status = "refused" => Open' \subseteq Lost
             /\ a.reply.status = "unavailable" => Lost' \subseteq Lost
    <3>0. ASSUME Order', Own(p)' = Own(p), Open' \ Own(p) \subseteq Lost
          PROVE  Lost' \subseteq Lost \union Own(p)
      <4>1. Books'
        BY <3>0, BooksRelateNext
      <4>2. Lost' \subseteq Open' \union SessionOf(keyring.token)'
        BY <4>1 DEF Books
      <4>3. SessionOf(keyring.token)' = Own(p)'
        BY <2>1, <2>2, <2>4 DEF Own, SessionOf
      <4>4. QED
        BY <3>0, <4>2, <4>3
    <3>1. CASE /\ UNCHANGED <<session, live>>
               /\ Answered(a) => a.reply.status \notin {"refused", "authorized"}
      <4>1. /\ Order' /\ Own(p)' = Own(p) /\ Lost' \subseteq Lost /\ Open' \subseteq Open
            /\ SessionOf(NoToken)' = SessionOf(NoToken)
        BY <1>mine, <2>2, <2>4, <3>1, BooksStay DEF SessionOf
      <4>2. Open \ Own(p) \subseteq Lost
        BY <1>books, <2>1 DEF Books
      <4>3. QED
        BY <3>1, <4>1, <4>2
    <3>2. CASE Answered(a) /\ a.reply.status = "refused"
      <4>1. t \notin live \ lapsed /\ session' = session /\ live' \subseteq live
        BY <2>3, <3>2 DEF Answers, WithoutSession, NoReply
      <4>2. Open \subseteq Lost
        BY <1>books, <2>1, <4>1 DEF Books
      <4>3. Open' \subseteq Open
        BY <2>2, <4>1 DEF Open
      <4>4. Order' /\ Own(p)' = Own(p)
        BY <1>mine, <2>4, <4>1 DEF Order, Issued, Own, SessionOf
      <4>5. QED
        BY <3>0, <3>2, <4>2, <4>3, <4>4
    <3>3. CASE Answered(a) /\ a.reply.status = "authorized"
      <4>1. /\ t \in live \ lapsed /\ new \in Tokens
            /\ session' = Append(session, session[t])
            /\ live' = (live \ {t}) \union {new}
            /\ a.reply.token = new
        BY <2>3, <3>3 DEF Answers, NoReply
      <4>2. /\ new \notin Issued /\ new # NoToken /\ Issued' = Issued \union {new}
            /\ session'[new] = session[t] /\ session[t] \in Nat /\ t < new /\ t \in Nat /\ new \in Nat
            /\ \A u \in Issued : session'[u] = session[u]
        <5>1. session[t] \in Tokens
          BY <1>typed, <2>1 DEF Shared, Issued
        <5>2. QED
          BY <2>1, <4>1, <5>1, Grows
      <4>3. \A u \in live \ {t} : session'[u] = session[u] /\ session[u] # session[t]
        BY <1>mine, <1>books, <4>1, <4>2 DEF Order, Books
      <4>4. Order'
        <5>1. \A u, v \in live' : session'[u] = session'[v] => u = v
          <6>1. \A u \in live' : u = new \/ u \in live \ {t}
            BY <4>1
          <6>2. \A u, v \in live \ {t} : session'[u] = session'[v] => u = v
            BY <1>mine, <4>3 DEF Order
          <6>3. \A u \in live \ {t} : session'[u] # session'[new]
            BY <4>2, <4>3
          <6>4. QED
            BY <6>1, <6>2, <6>3
        <5>2. \A u \in Issued' : session'[u] <= u
          BY <1>mine, <2>1, <4>2 DEF Order
        <5>3. QED
          BY <5>1, <5>2 DEF Order
      <4>5. Own(p)' = Own(p) /\ SessionOf(a.reply.token)' = Own(p)
        <5>1. Own(p)' = {session'[t]}
          BY <1>books, <2>1, <2>4 DEF Own, SessionOf, Books
        <5>2. SessionOf(a.reply.token)' = {session'[new]}
          BY <4>1, <4>2 DEF SessionOf
        <5>3. QED
          BY <2>1, <4>2, <5>1, <5>2
      <4>6. Open' \ Own(p) \subseteq Lost
        <5>1. Open' \ Own(p) \subseteq Open \ Own(p)
          <6> SUFFICES ASSUME NEW u \in live' \ lapsed', session'[u] \notin Own(p)
                       PROVE  session'[u] \in Open
            BY DEF Open
          <6>1. u \in live \ {t} /\ u \notin lapsed
            BY <2>1, <2>2, <4>1, <4>2
          <6>2. QED
            BY <4>3, <6>1 DEF Open
        <5>2. QED
          BY <1>books, <2>1, <5>1 DEF Books
      <4>7. QED
        BY <3>0, <3>3, <4>1, <4>4, <4>5, <4>6
    <3>4. QED
      BY <2>3, <3>1, <3>2, <3>3 DEF Answers, NoReply
  <2>6. /\ \A S : S \subseteq Lost => Cardinality(S) <= faults'
        /\ \A S : S \subseteq Lost \union Own(p) /\ Fails => Cardinality(S) <= faults'
    BY <1>sets, <2>1, <2>4, Budget
  <2>7. Course(p)'
    BY <1>mine, <2>1, <2>4 DEF Course
  <2>8. CASE Works /\ Answered(a) /\ caller'[p].reply = a.reply
    <3>1. /\ a.reply.status = "authorized" => Within(Open \ Own(p))'
          /\ a.reply.status = "refused" => Within(Open)'
          /\ a.reply.status = "unavailable" => Within(Lost)'
      BY <2>5, <2>6, <2>8 DEF Within
    <3>2. Account(p)'
      BY <2>1, <2>2, <2>4, <2>5, <2>8, <3>1 DEF Account
    <3>3. QED
      BY <2>1, <2>2, <2>4, <2>5, <2>7, <3>2, SoloKept
  <2>9. CASE Fails /\ caller'[p].reply = NoReply
    <3>1. Within(Lost)'
      BY <2>5, <2>6, <2>9 DEF Within
    <3>2. Account(p)'
      BY <2>1, <2>2, <2>4, <2>9, <3>1 DEF Account, NoReply
    <3>3. QED
      BY <2>1, <2>2, <2>4, <2>5, <2>7, <3>2, SoloKept
  <2>10. QED
    BY <2>4, <2>8, <2>9
<1>6. ASSUME NEW p \in Callers, ReceiveReply(p)
      PROVE  SoloInv'
  <2>. DEFINE reply == caller[p].reply
  <2>1. /\ Others(p) /\ caller'[p] = AfterReply(p, reply) /\ caller[p].pc = "reply"
        /\ UNCHANGED <<keyring, session, live, lapsed>> /\ table' = table \ {p} /\ Works
    <3>1. \A q \in Callers : caller[q].pc # "await"
      BY <1>mine DEF Course
    <3>2. QED
      BY <1>6, <3>1 DEF ReceiveReply, Others, server, clock, Works
  <2>2. /\ Order' /\ Lost' \subseteq Lost /\ Open' \subseteq Open
        /\ \A t : SessionOf(t)' = SessionOf(t)
    BY <1>mine, <2>1, BooksStay DEF SessionOf
  <2>3. /\ keyring.token = caller[p].held.token /\ caller[p].command # "login"
        /\ caller[p].command # "logout --local-only" /\ caller[p].previous = NoToken
        /\ reply.status \in Statuses
    BY <1>mine, <1>typed, <2>1 DEF Account, Course, Invocations
  <2>4. CASE reply.status = "authorized"
    <3>1. PICK step \in {"set", "discard"} :
            AfterReply(p, reply) =
              [caller[p] EXCEPT !.pc = step,
                                !.held = [token |-> reply.token, device |-> caller[p].held.device]]
      BY <2>4 DEF AfterReply
    <3>2. /\ caller'[p].pc = step /\ caller'[p].held.token = reply.token
          /\ caller'[p].command = caller[p].command /\ caller'[p].previous = NoToken
      <4>. DEFINE cred == [token |-> reply.token, device |-> caller[p].held.device]
      <4>1. caller'[p] = [caller[p] EXCEPT !.pc = step, !.held = cred]
        BY <2>1, <3>1
      <4>2. cred.token = reply.token
        OBVIOUS
      <4>. HIDE DEF cred, reply
      <4>3. /\ caller'[p].pc = step /\ caller'[p].held = cred
            /\ caller'[p].command = caller[p].command /\ caller'[p].previous = caller[p].previous
        BY <1>typed, <4>1 DEF Invocations
      <4>4. QED
        BY <2>3, <4>2, <4>3
    <3>3. /\ Within(Open \ Own(p)) /\ reply.token \in live
          /\ SessionOf(reply.token) = Own(p) /\ SessionOf(keyring.token) = Own(p)
      BY <1>mine, <2>1, <2>4 DEF Account, Own
    <3>4. Own(p)' = Own(p) /\ Before(p)' = {}
      BY <2>2, <3>2, <3>3 DEF Own, Before, SessionOf
    <3>5. Open' \ Own(p) \subseteq Open \ Own(p) /\ Lost' \ Own(p) \subseteq Open \ Own(p)
      BY <1>books, <2>2, <3>3 DEF Books
    <3>6. Within(Open \ Own(p))' /\ Within(Lost \ Own(p))'
      BY <1>sets, <2>1, <3>3, <3>4, <3>5, Budget DEF Within
    <3>7. Within((Open \ Own(p)) \ Before(p))'
      <4>1. (Open' \ Own(p)') \ Before(p)' = Open' \ Own(p)'
        BY <3>4
      <4>2. QED
        BY <3>6, <4>1 DEF Within
    <3>8. Course(p)'
      BY <2>3, <3>2 DEF Course
    <3>9. Account(p)'
      BY <2>1, <2>3, <3>2, <3>3, <3>4, <3>6, <3>7 DEF Account
    <3>10. QED
      BY <2>1, <2>2, <3>2, <3>8, <3>9, SoloKept
  <2>5. CASE reply.status = "refused"
    <3>1. /\ caller'[p].pc = "delete" /\ caller'[p].held = caller[p].held
          /\ caller'[p].command = caller[p].command /\ caller'[p].previous = NoToken
      BY <1>typed, <2>1, <2>3, <2>5 DEF AfterReply, Invocations
    <3>2. Within(Open)
      BY <1>mine, <2>1, <2>5 DEF Account
    <3>3. Within(Open)'
      BY <1>sets, <2>1, <2>2, <3>2, Budget DEF Within
    <3>4. Course(p)'
      BY <2>3, <3>1 DEF Course
    <3>5. Account(p)'
      BY <3>1, <3>3 DEF Account
    <3>6. QED
      BY <2>1, <2>2, <3>1, <3>4, <3>5, SoloKept
  <2>6. CASE reply.status = "unavailable"
    <3>1. caller'[p].pc = "idle" /\ caller'[p].previous = NoToken /\ caller'[p].command = "launch"
      BY <2>1, <2>6 DEF AfterReply, Idle
    <3>2. Within(Lost)
      BY <1>mine, <2>1, <2>6 DEF Account
    <3>3. Within(Lost)'
      BY <1>sets, <2>1, <2>2, <3>2, Budget DEF Within
    <3>4. Course(p)'
      BY <3>1 DEF Course
    <3>5. QED
      BY <2>1, <2>2, <3>1, <3>3, <3>4, IdleAccountNext, SoloKept
  <2>7. QED
    BY <2>3, <2>4, <2>5, <2>6 DEF Statuses
<1>7. ASSUME NEW p \in Callers, SetCredential(p)
      PROVE  SoloInv'
  <2>1. /\ UNCHANGED <<session, live, lapsed, table>> /\ caller[p].pc = "set"
        /\ keyring' \in {keyring, caller[p].held}
        /\ \/ Works /\ keyring' = caller[p].held /\ Goes(p, "verify")
           \/ Fails /\ SetFails(p)
    BY <1>7 DEF SetCredential, server, clock
  <2>2. PICK step \in {"verify", "discard", "revoke previous"} : Goes(p, step)
    BY <2>1 DEF SetFails
  <2>3. /\ Others(p) /\ caller'[p].pc = step /\ caller'[p].held = caller[p].held
        /\ caller'[p].command = caller[p].command /\ caller'[p].previous = caller[p].previous
        /\ caller'[p].again = caller[p].again
    BY <2>2, GoesOn
  <2>4. /\ caller[p].held.token \in live /\ Own(p) \intersect Before(p) = {}
        /\ Within((Open \ Own(p)) \ Before(p))
        /\ IF caller[p].command = "login" /\ caller[p].again
           THEN keyring.token = caller[p].held.token ELSE Within(Lost \ Own(p))
    BY <1>mine, <2>1 DEF Account
  <2>5. /\ Order' /\ Open' = Open /\ Own(p)' = Own(p) /\ Before(p)' = Before(p)
    BY <1>mine, <2>1, <2>3 DEF Order, Issued, Open, Own, Before, SessionOf
  <2>6. Within((Open \ Own(p)) \ Before(p))'
    BY <1>sets, <2>1, <2>4, <2>5, Budget DEF Within
  <2>7. /\ step = "verify" => keyring' = caller[p].held
        /\ step = "revoke previous" => caller[p].command = "login" /\ caller[p].again
        /\ step = "discard" => Fails /\ ~(caller[p].command = "login" /\ caller[p].again)
    <3>1. \A s : Goes(p, s) => s = step
      BY <2>3, GoesOn
    <3>2. QED
      BY <2>1, <3>1 DEF SetFails
  <2>8. ASSUME step = "discard"
        PROVE  Within(Open \ Own(p))' /\ Within(Lost \ Own(p))'
    <3>1. PICK x : Before(p) \subseteq {x}
      BY <1>sets
    <3>2. Open \ Own(p) \subseteq ((Open \ Own(p)) \ Before(p)) \union {x}
      BY <3>1
    <3>3. \A S : S \subseteq ((Open \ Own(p)) \ Before(p)) \union {x} => Cardinality(S) <= faults'
      BY <1>sets, <2>4, <2>7, <2>8, Budget
    <3>4. Within(Open \ Own(p))'
      BY <2>5, <3>2, <3>3 DEF Within
    <3>5. CASE keyring' = keyring
      <4>1. Lost' = Lost
        BY <2>1, <3>5 DEF Lost, Orphans, StoredDead
      <4>2. Within(Lost \ Own(p))
        BY <2>4, <2>7, <2>8
      <4>3. Cardinality(Lost \ Own(p)) <= faults'
        BY <1>sets, <2>7, <2>8, <4>2, Budget
      <4>4. QED
        BY <2>5, <3>4, <4>1, <4>3 DEF Within
    <3>6. CASE keyring' = caller[p].held
      <4>1. Books'
        BY <2>5, BooksRelateNext
      <4>2. Lost' \subseteq Open' \ SessionOf(keyring.token)'
        BY <2>1, <2>4, <3>6, <4>1 DEF Books
      <4>3. Lost' \ Own(p)' \subseteq ((Open \ Own(p)) \ Before(p)) \union {x}
        BY <2>5, <3>2, <4>2
      <4>4. QED
        BY <3>3, <3>4, <4>3 DEF Within
    <3>7. QED
      BY <2>1, <3>5, <3>6
  <2>9. Course(p)'
    BY <1>mine, <2>1, <2>3, <2>7 DEF Course
  <2>10. Account(p)'
    BY <2>1, <2>3, <2>4, <2>5, <2>6, <2>7, <2>8 DEF Account
  <2>11. QED
    BY <1>tables, <2>1, <2>3, <2>5, <2>9, <2>10, SoloKept
<1>8. ASSUME NEW p \in Callers, VerifySet(p)
      PROVE  SoloInv'
  <2>1. /\ UNCHANGED <<keyring, session, live, lapsed, table>> /\ Works
        /\ caller[p].pc = "verify" /\ keyring.token = caller[p].held.token
    BY <1>8 DEF VerifySet, server, clock, Works
  <2>2. PICK step \in {"use", "provision", "revoke previous"} :
          Goes(p, step) /\ (step = "use" <=> caller[p].command # "login")
    BY <1>8 DEF VerifySet
  <2>3. /\ Others(p) /\ caller'[p].pc = step /\ caller'[p].held = caller[p].held
        /\ caller'[p].command = caller[p].command /\ caller'[p].previous = caller[p].previous
        /\ caller'[p].again = caller[p].again
    BY <2>2, GoesOn
  <2>4. /\ caller[p].held.token \in live /\ Own(p) \intersect Before(p) = {}
        /\ Within((Open \ Own(p)) \ Before(p))
        /\ step = "use" => Before(p) = {}
    BY <1>mine, <1>books, <2>1, <2>2 DEF Account, Course, Before, Books
  <2>5. /\ Order' /\ Open' = Open /\ Lost' = Lost /\ Own(p)' = Own(p) /\ Before(p)' = Before(p)
    BY <1>mine, <2>1, <2>3 DEF Order, Issued, Open, Lost, Orphans, StoredDead, Own, Before, SessionOf
  <2>6. \A S : S \subseteq (Open \ Own(p)) \ Before(p) => Cardinality(S) <= faults'
    BY <1>sets, <2>1, <2>4, Budget
  <2>7. Within((Open \ Own(p)) \ Before(p))'
    BY <2>5, <2>6 DEF Within
  <2>8. step = "use" => Within(Lost)'
    <3>1. Lost \subseteq Open \ Own(p)
      BY <1>books, <2>1, <2>4 DEF Books, Own
    <3>2. step = "use" => Lost \subseteq (Open \ Own(p)) \ Before(p)
      BY <2>4, <3>1
    <3>3. QED
      BY <2>5, <2>6, <3>2 DEF Within
  <2>9. Course(p)'
    BY <1>mine, <2>1, <2>2, <2>3 DEF Course
  <2>10. Account(p)'
    BY <2>1, <2>3, <2>4, <2>5, <2>7, <2>8 DEF Account
  <2>11. QED
    BY <1>tables, <2>1, <2>3, <2>5, <2>9, <2>10, SoloKept
<1>9. ASSUME NEW p \in Callers, VerifyFails(p)
      PROVE  SoloInv'
  <2>1. /\ UNCHANGED <<keyring, session, live, lapsed, table>> /\ caller[p].pc = "verify"
    BY <1>9 DEF VerifyFails, server, clock
  <2>2. /\ caller[p].held.token \in live /\ Own(p) \intersect Before(p) = {}
        /\ Within((Open \ Own(p)) \ Before(p)) /\ keyring = caller[p].held
    BY <1>mine, <2>1 DEF Account
  <2>3. Fails /\ SetFails(p)
    BY <1>9, <2>2 DEF VerifyFails
  <2>4. PICK step \in {"discard", "revoke previous"} :
          Goes(p, step) /\ (step = "revoke previous" => caller[p].command = "login")
    BY <2>3 DEF SetFails
  <2>5. /\ Others(p) /\ caller'[p].pc = step /\ caller'[p].held = caller[p].held
        /\ caller'[p].command = caller[p].command /\ caller'[p].previous = caller[p].previous
        /\ caller'[p].again = caller[p].again
    BY <2>4, GoesOn
  <2>6. /\ Order' /\ Open' = Open /\ Lost' = Lost /\ Own(p)' = Own(p) /\ Before(p)' = Before(p)
    BY <1>mine, <2>1, <2>5 DEF Order, Issued, Open, Lost, Orphans, StoredDead, Own, Before, SessionOf
  <2>7. Within((Open \ Own(p)) \ Before(p))'
    BY <1>sets, <2>2, <2>3, <2>6, Budget DEF Within
  <2>8. Within(Open \ Own(p))' /\ Within(Lost \ Own(p))'
    <3>1. PICK x : Before(p) \subseteq {x}
      BY <1>sets
    <3>2. Open \ Own(p) \subseteq ((Open \ Own(p)) \ Before(p)) \union {x}
      BY <3>1
    <3>3. Lost \subseteq Open \ Own(p)
      BY <1>books, <2>2 DEF Books, Own
    <3>4. Lost \ Own(p) \subseteq ((Open \ Own(p)) \ Before(p)) \union {x}
      BY <3>2, <3>3
    <3>5. \A S : S \subseteq ((Open \ Own(p)) \ Before(p)) \union {x} => Cardinality(S) <= faults'
      BY <1>sets, <2>2, <2>3, Budget
    <3>6. QED
      BY <2>6, <3>2, <3>4, <3>5 DEF Within
  <2>9. Course(p)'
    BY <1>mine, <2>1, <2>4, <2>5 DEF Course
  <2>10. Account(p)'
    BY <2>1, <2>2, <2>5, <2>6, <2>7, <2>8 DEF Account
  <2>11. QED
    BY <1>tables, <2>1, <2>5, <2>6, <2>9, <2>10, SoloKept
<1>10. ASSUME NEW p \in Callers, RevokeSession(p)
       PROVE  SoloInv'
  <2>. DEFINE t == caller[p].held.token
  <2>1. /\ UNCHANGED <<keyring, session, lapsed, table>> /\ caller[p].pc \in {"discard", "revoke"}
        /\ Goes(p, "delete")
        /\ \/ Works /\ live' = WithoutSession(t)
           \/ Fails /\ live' \subseteq live
    BY <1>10 DEF RevokeSession, Revoke, WithoutSession, clock
  <2>2. /\ Others(p) /\ caller'[p].pc = "delete" /\ caller'[p].held = caller[p].held
        /\ caller'[p].command = caller[p].command /\ caller'[p].previous = caller[p].previous
        /\ caller'[p].again = caller[p].again
    BY <2>1, GoesOn
  <2>3. live' \subseteq live
    BY <2>1 DEF WithoutSession
  <2>4. Order' /\ Open' \subseteq Open
    BY <1>mine, <2>1, <2>3 DEF Order, Issued, Open
  <2>5. Own(p) = {session[t]} /\ Within(Open \ Own(p))
    BY <1>mine, <1>holds, <2>1 DEF Account, TokenSteps
  <2>6. Cardinality(Open') <= faults'
    <3>1. CASE Works /\ live' = WithoutSession(t)
      <4>1. Open' \subseteq Open \ Own(p)
        BY <2>1, <2>5, <3>1 DEF Open, WithoutSession
      <4>2. QED
        BY <1>sets, <2>5, <3>1, <4>1, Budget
    <3>2. CASE Fails
      <4>1. Open' \subseteq (Open \ Own(p)) \union {session[t]}
        BY <2>4, <2>5
      <4>2. QED
        BY <1>sets, <2>5, <3>2, <4>1, Budget
    <3>3. QED
      BY <2>1, <3>1, <3>2
  <2>7. Course(p)'
    BY <1>mine, <2>2 DEF Course
  <2>8. Account(p)'
    BY <2>2, <2>6 DEF Account, Within
  <2>9. QED
    BY <1>tables, <2>1, <2>2, <2>4, <2>7, <2>8, SoloKept
<1>11. ASSUME NEW p \in Callers, DeleteCredential(p)
       PROVE  SoloInv'
  <2>1. /\ UNCHANGED <<session, live, lapsed, table>> /\ caller[p].pc = "delete" /\ Ends(p)
        /\ \/ Works /\ keyring' = NoCredential
           \/ Fails /\ UNCHANGED keyring
    BY <1>11 DEF DeleteCredential, server, clock
  <2>2. Order' /\ Open' = Open
    BY <1>mine, <2>1 DEF Order, Issued, Open
  <2>3. Within(Open) /\ Books'
    BY <1>mine, <2>1, <2>2, BooksRelateNext DEF Account
  <2>4. CASE Works /\ keyring' = NoCredential
    <3>1. Lost' = Open
      BY <2>2, <2>3, <2>4 DEF Books, NoCredential
    <3>2. Cardinality(Lost') <= faults'
      BY <1>sets, <2>3, <2>4, <3>1, Budget
    <3>3. QED
      BY <1>ends, <2>1, <2>2, <3>2
  <2>5. CASE Fails /\ UNCHANGED keyring
    <3>1. PICK x : SessionOf(keyring.token) \subseteq {x}
      BY <1>sets, <1>books DEF Books
    <3>2. Lost' \subseteq Open \union {x}
      BY <1>books, <2>1, <2>5, <3>1 DEF Books, Lost, Orphans, StoredDead
    <3>3. Cardinality(Lost') <= faults'
      BY <1>sets, <2>3, <2>5, <3>2, Budget
    <3>4. QED
      BY <1>ends, <2>1, <2>2, <3>3
  <2>6. QED
    BY <2>1, <2>4, <2>5
<1>12. ASSUME NEW p \in Callers,
              \/ Lend(p) \/ NotAuthorized(p)
              \/ caller[p].pc = "use" /\ Ends(p) /\ UNCHANGED <<keyring, server, clock, table, faults>>
       PROVE  SoloInv'
  <2>1. /\ UNCHANGED <<keyring, session, live, lapsed, table>> /\ Works /\ Ends(p)
        /\ caller[p].pc \in {"use", "poll"}
    BY <1>12 DEF Lend, NotAuthorized, server, clock, Works
  <2>2. Order' /\ Lost' \subseteq Lost
    BY <1>mine, <2>1, BooksStay
  <2>3. Within(Lost)
    BY <1>mine, <2>1 DEF Account
  <2>4. Cardinality(Lost') <= faults'
    BY <1>sets, <2>1, <2>2, <2>3, Budget
  <2>5. QED
    BY <1>ends, <2>1, <2>2, <2>4
<1>13. ASSUME NEW p \in Callers, QueryUsage(p)
       PROVE  SoloInv'
  <2>1. /\ UNCHANGED <<keyring, session, live, lapsed, table>> /\ Works
        /\ caller[p].pc = "use" /\ caller[p].command = "usage"
    BY <1>13 DEF QueryUsage, server, clock, Works
  <2>2. CASE Ends(p)
    BY <1>12, <1>13, <2>1, <2>2 DEF QueryUsage
  <2>3. CASE ~Ends(p)
    <3>1. /\ Unauthorized(p)
          /\ \E step \in {"delete", "refresh"} :
               /\ caller' = [caller EXCEPT ![p] = [caller[p] EXCEPT !.pc = step, !.again = TRUE]]
               /\ step = "delete" => caller[p].again
      BY <1>13, <2>3 DEF QueryUsage
    <3>2. PICK step \in {"delete", "refresh"} :
            /\ caller' = [caller EXCEPT ![p] = [caller[p] EXCEPT !.pc = step, !.again = TRUE]]
            /\ step = "delete" => caller[p].again
      BY <3>1
    <3>3. /\ Others(p) /\ caller'[p].pc = step /\ caller'[p].held = caller[p].held
          /\ caller'[p].command = caller[p].command /\ caller'[p].previous = caller[p].previous
      BY <1>typed, <3>2 DEF CredentialInv, Others, Invocations
    <3>4. /\ keyring.token = caller[p].held.token /\ Within(Lost)
      BY <1>mine, <2>1 DEF Account
    <3>5. /\ Order' /\ Lost' \subseteq Lost /\ Open' \subseteq Open
      BY <1>mine, <2>1, BooksStay
    <3>6. \A S : S \subseteq Lost => Cardinality(S) <= faults'
      BY <1>sets, <2>1, <3>4, Budget
    <3>7. step = "delete" => Open \subseteq Lost
      <4>1. step = "delete" => caller[p].held.token \notin live
        BY <3>1, <3>2 DEF Unauthorized, WithoutSession
      <4>2. QED
        BY <1>books, <3>4, <4>1 DEF Books
    <3>8. Within(Lost)' /\ (step = "delete" => Within(Open)')
      BY <3>5, <3>6, <3>7 DEF Within
    <3>9. Course(p)'
      BY <1>mine, <2>1, <3>3 DEF Course
    <3>10. Account(p)'
      BY <2>1, <3>3, <3>4, <3>8 DEF Account
    <3>11. QED
      BY <1>tables, <2>1, <3>3, <3>5, <3>9, <3>10, SoloKept
  <2>4. QED
    BY <2>2, <2>3
<1>14. ASSUME NEW p \in Callers, PollDeviceToken(p)
       PROVE  SoloInv'
  <2>. DEFINE new == Len(session) + 1
  <2>1. /\ UNCHANGED <<keyring, lapsed, table>> /\ caller[p].pc = "poll" /\ new \in Tokens
        /\ session' = Append(session, new) /\ live' = live \union {new}
        /\ \/ /\ Works
              /\ caller' = [caller EXCEPT ![p] = [caller[p] EXCEPT
                   !.pc = "set", !.previous = caller[p].held.token,
                   !.held = [token |-> new, device |-> FALSE]]]
           \/ Fails /\ UNCHANGED caller
    BY <1>14 DEF PollDeviceToken, clock
  <2>2. /\ new \notin Issued /\ new # NoToken /\ new \in Nat
        /\ Issued' = Issued \union {new} /\ session'[new] = new
        /\ \A u \in Issued : u \in Nat /\ u < new /\ session[u] \in Nat /\ session'[u] = session[u]
    BY <2>1, Grows
  <2>3. \A u \in Issued : session[u] <= u /\ session[u] # new
    BY <1>mine, <2>2 DEF Order
  <2>4. Order'
    <3>1. \A u, v \in live' : session'[u] = session'[v] => u = v
      <4>1. \A u \in live' : u = new \/ u \in live
        BY <2>1
      <4>2. \A u, v \in live : session'[u] = session'[v] => u = v
        BY <1>mine, <1>books, <2>2 DEF Order, Books
      <4>3. \A u \in live : session'[u] # session'[new]
        BY <1>books, <2>2, <2>3 DEF Books
      <4>4. QED
        BY <4>1, <4>2, <4>3
    <3>2. \A u \in Issued' : session'[u] <= u
      BY <2>2, <2>3
    <3>3. QED
      BY <3>1, <3>2 DEF Order
  <2>5. Open' \subseteq Open \union {new}
    <3> SUFFICES ASSUME NEW u \in live' \ lapsed'
                 PROVE  session'[u] \in Open \union {new}
      BY DEF Open
    <3>1. CASE u = new
      BY <2>2, <3>1
    <3>2. CASE u # new
      <4>1. u \in live \ lapsed /\ u \in Issued
        BY <1>books, <2>1, <3>2 DEF Books
      <4>2. QED
        BY <2>2, <4>1 DEF Open
    <3>3. QED
      BY <3>1, <3>2
  <2>6. Lost' \subseteq Lost \union {new}
    <3>1. /\ Orphans' \subseteq Orphans \union {new} /\ StoredDead' \subseteq StoredDead
          /\ Orphans \union StoredDead \subseteq Issued
      BY <1>books, <2>1 DEF Orphans, StoredDead, Books
    <3>2. QED
      BY <2>2, <3>1 DEF Lost
  <2>7. Within(Lost) /\ Within(Open \ Own(p))
    BY <1>mine, <2>1 DEF Account
  <2>8. /\ caller[p].command = "login" /\ ~caller[p].again /\ caller[p].previous = NoToken
        /\ caller[p].held.token \in Issued \union {NoToken}
    BY <1>mine, <1>typed, <2>1 DEF Course, Sound
  <2>9. /\ {session'[u] : u \in {caller[p].held.token} \ {NoToken}} = Own(p)
        /\ new \notin Own(p)
    <3>1. CASE caller[p].held.token = NoToken
      BY <3>1 DEF Own, SessionOf
    <3>2. CASE caller[p].held.token \in Issued
      BY <1>books, <2>2, <2>3, <3>2 DEF Own, SessionOf, Books
    <3>3. QED
      BY <2>8, <3>1, <3>2
  <2>10. p \notin table
    BY <1>tables, <2>1
  <2>11. CASE Fails /\ UNCHANGED caller
    <3>1. Own(p)' = Own(p)
      BY <2>9, <2>11 DEF Own, SessionOf
    <3>2. Open' \ Own(p) \subseteq (Open \ Own(p)) \union {new}
      BY <2>5
    <3>3. Within(Lost)' /\ Within(Open \ Own(p))'
      <4>1. Cardinality(Lost') <= faults'
        BY <1>sets, <2>6, <2>7, <2>11, Budget
      <4>2. Cardinality(Open' \ Own(p)) <= faults'
        BY <1>sets, <2>7, <2>11, <3>2, Budget
      <4>3. QED
        BY <3>1, <4>1, <4>2 DEF Within
    <3>4. Course(p)'
      BY <1>mine, <2>11 DEF Course
    <3>5. Account(p)'
      BY <2>1, <2>11, <3>3 DEF Account
    <3>6. QED
      BY <2>1, <2>4, <2>10, <2>11, <3>4, <3>5, SoloKept DEF Others
  <2>12. ASSUME Works,
                caller' = [caller EXCEPT ![p] = [caller[p] EXCEPT
                  !.pc = "set", !.previous = caller[p].held.token,
                  !.held = [token |-> new, device |-> FALSE]]]
         PROVE  SoloInv'
    <3>1. /\ Others(p) /\ caller'[p].pc = "set" /\ caller'[p].held.token = new
          /\ caller'[p].command = "login" /\ caller'[p].previous = caller[p].held.token
          /\ ~caller'[p].again
      <4>. DEFINE cred == [token |-> new, device |-> FALSE]
      <4>1. cred.token = new
        OBVIOUS
      <4>2. caller' = [caller EXCEPT ![p] = [caller[p] EXCEPT
              !.pc = "set", !.previous = caller[p].held.token, !.held = cred]]
        BY <2>12
      <4>. HIDE DEF cred
      <4>3. /\ Others(p) /\ caller'[p].pc = "set" /\ caller'[p].held = cred
            /\ caller'[p].command = caller[p].command
            /\ caller'[p].previous = caller[p].held.token /\ caller'[p].again = caller[p].again
        BY <1>typed, <4>2 DEF CredentialInv, Others, Invocations
      <4>4. QED
        BY <2>8, <4>1, <4>3
    <3>2. Own(p)' = {new} /\ Before(p)' = Own(p)
      BY <2>2, <2>9, <3>1 DEF Own, Before, SessionOf
    <3>3. (Open' \ {new}) \ Own(p) \subseteq Open \ Own(p) /\ Lost' \ {new} \subseteq Lost
      BY <2>5, <2>6
    <3>4. Within((Open \ Own(p)) \ Before(p))' /\ Within(Lost \ Own(p))'
      BY <1>sets, <2>7, <2>12, <3>2, <3>3, Budget DEF Within
    <3>5. Course(p)'
      BY <3>1 DEF Course
    <3>6. Account(p)'
      BY <2>1, <2>9, <3>1, <3>2, <3>4 DEF Account
    <3>7. QED
      BY <2>1, <2>4, <2>10, <3>1, <3>5, <3>6, SoloKept
  <2>13. QED
    BY <2>1, <2>11, <2>12
<1>15. ASSUME NEW p \in Callers, ProvisionDevice(p)
       PROVE  SoloInv'
  <2>1. /\ UNCHANGED <<keyring, session, live, lapsed, table>> /\ Works /\ caller[p].pc = "provision"
    BY <1>15 DEF ProvisionDevice, server, clock, Works
  <2>2. /\ Others(p) /\ caller'[p].pc \in {"set", "revoke previous"}
        /\ caller'[p].held.token = caller[p].held.token
        /\ caller'[p].command = caller[p].command /\ caller'[p].previous = caller[p].previous
        /\ caller'[p].pc = "set" => caller'[p].again
    <3>1. CASE Goes(p, "revoke previous")
      <4>1. /\ Others(p) /\ caller'[p].pc = "revoke previous" /\ caller'[p].held = caller[p].held
            /\ caller'[p].command = caller[p].command /\ caller'[p].previous = caller[p].previous
        BY <3>1, GoesOn
      <4>2. QED
        BY <4>1
    <3>2. CASE caller' = [caller EXCEPT ![p] =
                 [caller[p] EXCEPT !.pc = "set", !.again = TRUE, !.held.device = TRUE]]
      <4>1. Others(p) /\ caller'[p] = [caller[p] EXCEPT !.pc = "set", !.again = TRUE, !.held.device = TRUE]
        BY <3>2 DEF CredentialInv, Others
      <4>2. caller[p].held \in Credentials
        BY <1>typed, <1>holds, <1>books, <2>1, CredentialTypes
           DEF Invocations, TokenSteps, NoCredential, Books
      <4>3. QED
        BY <1>typed, <4>1, <4>2 DEF Invocations, Credentials
    <3>3. QED
      BY <1>15, <3>1, <3>2 DEF ProvisionDevice
  <2>3. /\ caller[p].held.token \in live /\ Own(p) \intersect Before(p) = {}
        /\ Within((Open \ Own(p)) \ Before(p)) /\ keyring.token = caller[p].held.token
        /\ caller[p].command = "login"
    BY <1>mine, <2>1 DEF Account, Course
  <2>4. /\ Order' /\ Open' = Open /\ Own(p)' = Own(p) /\ Before(p)' = Before(p)
    BY <1>mine, <2>1, <2>2 DEF Order, Issued, Open, Own, Before, SessionOf
  <2>5. Within((Open \ Own(p)) \ Before(p))'
    BY <1>sets, <2>1, <2>3, <2>4, Budget DEF Within
  <2>6. Course(p)'
    BY <2>2, <2>3 DEF Course
  <2>7. Account(p)'
    BY <2>1, <2>2, <2>3, <2>4, <2>5 DEF Account
  <2>8. QED
    BY <1>tables, <2>1, <2>2, <2>4, <2>6, <2>7, SoloKept
<1>16. ASSUME NEW p \in Callers, RevokePrevious(p)
       PROVE  SoloInv'
  <2>. DEFINE t == caller[p].previous
  <2>1. /\ UNCHANGED <<keyring, session, lapsed, table>> /\ Ends(p) /\ caller[p].pc = "revoke previous"
        /\ IF t \in {NoToken, caller[p].held.token} THEN Works /\ UNCHANGED live ELSE Revoke(t)
    BY <1>16 DEF RevokePrevious, clock
  <2>2. /\ caller[p].held.token \in live /\ Own(p) \intersect Before(p) = {}
        /\ Within((Open \ Own(p)) \ Before(p)) /\ keyring.token = caller[p].held.token
        /\ SessionOf(keyring.token) = Own(p)
    BY <1>mine, <2>1 DEF Account, Own
  <2>3. Own(p) = {session[keyring.token]} /\ keyring.token \in Issued
    BY <1>books, <2>2 DEF Books
  <2>4. live' \subseteq live /\ (live' = live \/ live' = WithoutSession(t))
    BY <2>1 DEF Revoke, WithoutSession
  <2>5. Order' /\ Open' \subseteq Open
    BY <1>mine, <2>1, <2>4 DEF Order, Issued, Open
  <2>6. t # caller[p].held.token
    BY <2>2, <2>3 DEF Before, Own
  <2>7. keyring.token \in live'
    <3>1. t \notin {NoToken, caller[p].held.token} => session[t] # session[keyring.token]
      BY <2>2, <2>3 DEF Before, SessionOf
    <3>2. CASE t \in {NoToken, caller[p].held.token}
      <4>1. live' = live
        BY <2>1, <3>2
      <4>2. keyring.token \in live
        BY <2>2
      <4>3. QED
        BY <2>1, <4>1, <4>2
    <3>3. CASE t \notin {NoToken, caller[p].held.token}
      BY <2>2, <2>4, <3>1, <3>3 DEF WithoutSession
    <3>4. QED
      BY <3>2, <3>3
  <2>8. Books'
    BY <2>5, BooksRelateNext
  <2>9. Lost' \subseteq Open' \ Own(p)
    BY <2>1, <2>2, <2>7, <2>8 DEF Books, SessionOf
  <2>10. CASE Works /\ (t = NoToken \/ live' = WithoutSession(t))
    <3>1. Open' \subseteq Open \ Before(p)
      <4>1. CASE t = NoToken
        BY <2>5, <4>1 DEF Before, SessionOf
      <4>2. CASE live' = WithoutSession(t)
        BY <2>1, <4>2 DEF Before, SessionOf, Open, WithoutSession
      <4>3. QED
        BY <2>10, <4>1, <4>2
    <3>2. Lost' \subseteq (Open \ Own(p)) \ Before(p)
      BY <2>9, <3>1
    <3>3. Cardinality(Lost') <= faults'
      BY <1>sets, <2>2, <2>10, <3>2, Budget
    <3>4. QED
      BY <1>ends, <2>1, <2>5, <3>3
  <2>11. CASE Fails
    <3>1. PICK x : Before(p) \subseteq {x}
      BY <1>sets
    <3>2. Lost' \subseteq ((Open \ Own(p)) \ Before(p)) \union {x}
      BY <2>5, <2>9, <3>1
    <3>3. Cardinality(Lost') <= faults'
      BY <1>sets, <2>2, <2>11, <3>2, Budget
    <3>4. QED
      BY <1>ends, <2>1, <2>5, <3>3
  <2>12. QED
    BY <2>1, <2>6, <2>10, <2>11 DEF Revoke
<1>17. ASSUME NEW p \in Callers, Crash(p)
       PROVE  SoloInv'
  <2>. DEFINE dead == {q \in Callers : ClientOf[q] = ClientOf[p]}
  <2>1. /\ UNCHANGED <<keyring, session, live, lapsed>> /\ Fails /\ caller[p].pc # "idle"
        /\ caller' = [q \in Callers |-> IF q \in dead THEN Idle ELSE caller[q]]
        /\ table' = table \ dead
    BY <1>17 DEF Crash, server, clock
  <2>2. Order' /\ Lost' \subseteq Lost
    BY <1>mine, <2>1, BooksStay
  <2>3. p \in dead /\ \A q \in Callers \ {p} : caller[q].pc = "idle"
    BY <2>1 DEF SoloInv
  <2>4. \A q \in Callers : caller'[q].pc = "idle" /\ caller'[q] \in {Idle, caller[q]}
    BY <2>1, <2>3 DEF Idle
  <2>5. table' = {}
    BY <1>typed, <1>tables, <2>1, <2>3 DEF Shared
  <2>6. \A q \in Callers : Course(q)'
    <3>1. Idle.pc = "idle" /\ Idle.previous = NoToken /\ Idle.command = "launch"
      BY DEF Idle
    <3>2. QED
      BY <1>mine, <2>4, <3>1 DEF Course
  <2>7. \A q \in Callers : Account(q)'
    BY <2>4, IdleAccountNext
  <2>8. Within(Lost)'
    <3>1. PICK T \in SUBSET Tokens : \E x : Within(T) /\ Lost \subseteq T \union {x}
      BY <2>1, CrashLoss
    <3>2. PICK x : Within(T) /\ Lost \subseteq T \union {x}
      BY <3>1
    <3>3. Lost' \subseteq T \union {x}
      BY <2>2, <3>2
    <3>4. QED
      BY <2>1, <3>2, <3>3, Budget DEF Within
  <2>9. QED
    BY <2>2, <2>4, <2>5, <2>6, <2>7, <2>8 DEF SoloInv
<1>18. ASSUME ExpireAccess \/ ExpireRefresh \/ UNCHANGED vars
       PROVE  SoloInv'
  <2>1. UNCHANGED <<keyring, session, live, caller, table>> /\ Works /\ lapsed \subseteq lapsed'
    BY <1>18 DEF ExpireAccess, ExpireRefresh, vars, server, clock, Works
  <2>2. /\ Order' /\ Lost' \subseteq Lost /\ Open' \subseteq Open
        /\ \A p : Own(p)' = Own(p) /\ Before(p)' = Before(p)
        /\ \A t : SessionOf(t)' = SessionOf(t)
    BY <1>mine, <2>1, BooksStay DEF SessionOf
  <2>3. /\ Within(Lost) => Within(Lost)'
        /\ Within(Open) => Within(Open)'
        /\ \A S : Within(Lost \ S) => Cardinality(Lost' \ S) <= faults'
        /\ \A S : Within(Open \ S) => Cardinality(Open' \ S) <= faults'
        /\ \A S, U : Within((Open \ S) \ U) => Cardinality((Open' \ S) \ U) <= faults'
    <3>1. ASSUME NEW S, NEW T \in SUBSET Tokens, S \subseteq T, Within(T)
          PROVE  Cardinality(S) <= faults'
      BY <2>1, <3>1, Budget
    <3>2. \A S : Within(Lost \ S) => Cardinality(Lost' \ S) <= faults'
      BY <1>sets, <2>2, <3>1
    <3>3. \A S : Within(Open \ S) => Cardinality(Open' \ S) <= faults'
      BY <1>sets, <2>2, <3>1
    <3>4. \A S, U : Within((Open \ S) \ U) => Cardinality((Open' \ S) \ U) <= faults'
      <4> SUFFICES ASSUME NEW S, NEW U, Within((Open \ S) \ U)
                   PROVE  Cardinality((Open' \ S) \ U) <= faults'
        OBVIOUS
      <4>1. (Open' \ S) \ U \subseteq (Open \ S) \ U /\ (Open \ S) \ U \in SUBSET Tokens
        BY <1>sets, <2>2
      <4>2. QED
        BY <3>1, <4>1
    <3>5. (Within(Lost) => Within(Lost)') /\ (Within(Open) => Within(Open)')
      <4>1. Within(Lost) => Cardinality(Lost') <= faults'
        BY <1>sets, <2>2, <3>1
      <4>2. Within(Open) => Cardinality(Open') <= faults'
        BY <1>sets, <2>2, <3>1
      <4>3. QED
        BY <4>1, <4>2 DEF Within
    <3>6. QED
      BY <3>2, <3>3, <3>4, <3>5
  <2>4. \A p \in Callers : Course(p)'
    BY <1>mine, <2>1 DEF Course
  <2>5. \A p \in Callers : Account(p)'
    BY <1>mine, <2>1, <2>2, <2>3 DEF Account, Within
  <2>6. QED
    BY <2>1, <2>2, <2>3, <2>4, <2>5 DEF SoloInv, Quiet
<1>19. QED
  BY <1>1, <1>2, <1>3, <1>4, <1>5, <1>6, <1>7, <1>8, <1>9, <1>10, <1>11, <1>12, <1>13, <1>14,
     <1>15, <1>16, <1>17, <1>18
     DEF Next, Runs

(* CredentialSessionsAgree: while one command runs at a time, and no       *)
(* logout is told to leave the session open, the keyring and the control   *)
(* plane disagree, between commands, on no more sessions than messages     *)
(* were lost, keyring accesses failed and processes died: whatever of it   *)
(* failed at whatever step, a command leaves nothing else behind.          *)
THEOREM CredentialSessionsAgree ==
  ASSUME OneAtATime
  PROVE  Spec => []SessionsAgree
<1>1. Init => SoloInv
  BY SoloInit
<1>2. CredentialInv /\ CredentialInv' /\ SoloInv /\ [Next]_vars => SoloInv'
  BY SoloNext
<1>3. SoloInv => SessionsAgree
  BY DEF SoloInv, SessionsAgree, Within, Lost
<1>4. QED
  BY <1>1, <1>2, <1>3, CredentialSafe, PTL DEF Spec
=============================================================================
