-------------------------- MODULE LauncherIpc_proofs --------------------------
(***************************************************************************)
(* What LauncherIpc guarantees for any credentials, any number of frames   *)
(* and any number of faults.                                               *)
(***************************************************************************)
EXTENDS LauncherIpc, SequenceTheorems, TLAPS

(* Where the session is in its order of requests.                          *)
Order ==
  /\ status \in {"none", "abandoned", "disposed"} => request = "none"
  /\ status = "none" => acked = 0 /\ sequence = 0 /\ ~sending
  /\ status = "opening" => request # "none" /\ sequence = 0 /\ acked = 0 /\ ~sending
  /\ status = "open" => /\ request # "none" => sending
                        /\ acked = IF sending THEN sequence ELSE sequence + 1
  /\ status \in {"opening", "open"} => secret = "live"
  /\ request # "none" => acked = sequence
  /\ acked <= sequence + 1

(* A frame the engine has not read is the one that is in flight, or one it *)
(* would refuse; an acknowledgement is of a frame that it took.            *)
Current(f) ==
  \/ f = Bootstrap
  \/ f.sequence < engine.next
  \/ request # "none" /\ f.sequence = acked /\ f.credential = offer

Taken(part, n) == part.type = "session_ack" /\ part.session = "this" => part.sequence < n
Old(part) == Taken(part, engine.next)

Agreement ==
  /\ \/ engine.next = acked /\ engine.holds = lent
     \/ request # "none" /\ engine.next = acked + 1 /\ engine.holds = offer
  /\ \A i \in DOMAIN outbox : Current(outbox[i])
  /\ \A i \in DOMAIN pipe : Current(pipe[i])
  /\ \A i \in DOMAIN answers : Old(answers[i])
  /\ \A i \in DOMAIN buffer : Old(buffer[i])

Agreeing == status \in {"none", "opening", "open"} /\ ~engine.closed

IpcInv == IpcTypeOK /\ Order /\ (Agreeing => Agreement)

(* A step of the session as its owner sees it.                             *)
LoanStep == Loan!Next \/ UNCHANGED Loan!loan

-----------------------------------------------------------------------------
(* What is cut from a sequence, or put together from two, consists of      *)
(* their elements.                                                         *)
LEMMA Cutting ==
  ASSUME NEW S, NEW s \in Seq(S), NEW k \in Nat, k <= Len(s)
  PROVE  /\ SubSeq(s, 1, k) \in Seq(S) /\ Len(SubSeq(s, 1, k)) = k
         /\ SubSeq(s, k + 1, Len(s)) \in Seq(S) /\ Len(SubSeq(s, k + 1, Len(s))) = Len(s) - k
         /\ \A i \in 1 .. k : SubSeq(s, 1, k)[i] = s[i]
         /\ \A i \in 1 .. Len(s) - k : SubSeq(s, k + 1, Len(s))[i] = s[k + i]
OBVIOUS

(* The same for a response, which takes two parts from the queue.          *)
LEMMA DroppingTwo ==
  ASSUME NEW S, NEW s \in Seq(S), 2 <= Len(s)
  PROVE  /\ SubSeq(s, 3, Len(s)) \in Seq(S) /\ Len(SubSeq(s, 3, Len(s))) = Len(s) - 2
         /\ \A i \in 1 .. Len(s) - 2 : SubSeq(s, 3, Len(s))[i] = s[2 + i]
<1>. DEFINE Rest(m) == /\ SubSeq(s, m, Len(s)) \in Seq(S) /\ Len(SubSeq(s, m, Len(s))) = Len(s) - 2
                       /\ \A i \in 1 .. Len(s) - 2 : SubSeq(s, m, Len(s))[i] = s[2 + i]
<1>1. ASSUME NEW k \in Nat, k = 2 PROVE Rest(k + 1)
  <2>1. k <= Len(s)
    BY <1>1
  <2>2. /\ SubSeq(s, k + 1, Len(s)) \in Seq(S) /\ Len(SubSeq(s, k + 1, Len(s))) = Len(s) - k
        /\ \A i \in 1 .. Len(s) - k : SubSeq(s, k + 1, Len(s))[i] = s[k + i]
    BY <2>1, Cutting
  <2>3. Len(s) - k = Len(s) - 2
    BY <1>1
  <2>4. \A i \in 1 .. Len(s) - 2 : k + i = 2 + i
    BY <1>1
  <2>. QED
    BY <2>2, <2>3, <2>4
<1>. HIDE DEF Rest
<1>2. Rest(2 + 1)
  BY <1>1
<1>3. 2 + 1 = 3
  OBVIOUS
<1>4. Rest(3)
  BY <1>2, <1>3
<1>. QED
  BY <1>4 DEF Rest

(* A sequence joined to another.                                           *)
LEMMA Joining ==
  ASSUME NEW S, NEW s \in Seq(S), NEW t \in Seq(S)
  PROVE  /\ s \o t \in Seq(S) /\ Len(s \o t) = Len(s) + Len(t)
         /\ \A i \in 1 .. Len(s) + Len(t) : (s \o t)[i] = IF i <= Len(s) THEN s[i] ELSE t[i - Len(s)]
OBVIOUS

(* The parts of a response are told apart by their type and session.       *)
LEMMA PartTypes ==
  /\ \A part \in Parts : part.sequence \in Nat
  /\ \A n : Ack(n).type = "session_ack" /\ Ack(n).session = "this" /\ Ack(n).sequence = n
  /\ \A part \in {SessionError, OtherSession, Unauthentic, Malformed, Length, TooLong} :
       part \in Parts /\ ~(part.type = "session_ack" /\ part.session = "this")
  /\ \A n \in 0 .. MaxFrames - 1 : Ack(n) \in Parts
<1>1. \A n : Ack(n).type = "session_ack" /\ Ack(n).session = "this" /\ Ack(n).sequence = n
  BY DEF Ack
<1>2. \A part \in {SessionError, OtherSession, Unauthentic, Malformed, Length, TooLong} :
        /\ part.sequence \in Nat
        /\ ~(part.type = "session_ack" /\ part.session = "this")
  <2>. DEFINE Good(part) == part.sequence \in Nat /\ ~(part.type = "session_ack" /\ part.session = "this")
  <2>1. Good(SessionError)
    BY DEF SessionError
  <2>2. Good(OtherSession)
    BY DEF OtherSession
  <2>3. Good(Unauthentic)
    BY DEF Unauthentic
  <2>4. Good(Malformed)
    BY DEF Malformed
  <2>5. Good(Length)
    BY DEF Length
  <2>6. Good(TooLong)
    BY DEF TooLong
  <2>. HIDE DEF Good
  <2>7. \A part \in {SessionError, OtherSession, Unauthentic, Malformed, Length, TooLong} : Good(part)
    BY <2>1, <2>2, <2>3, <2>4, <2>5, <2>6
  <2>. QED
    BY <2>7 DEF Good
<1>3. \A part \in Acks : part.sequence \in Nat
  BY IpcAssumption DEF Acks, Ack
<1>. QED
  BY <1>1, <1>2, <1>3 DEF Parts, Acks

(* A frame the launcher writes has the type of frames.                     *)
LEMMA FrameTypes ==
  ASSUME secret = "live", NEW kind \in Kinds, NEW n \in 0 .. MaxFrames - 1, NEW c \in MaybeCredential
  PROVE  /\ Frame(kind, n, c) \in Frames
         /\ <<Frame(kind, n, c)>> \in Seq(Frames) /\ Len(<<Frame(kind, n, c)>>) = 1
         /\ Frame(kind, n, c).sequence = n /\ Frame(kind, n, c).credential = c
<1>1. Frame(kind, n, c) \in Frames
  BY DEF Frame, Frames
<1>. QED
  BY <1>1 DEF Frame

-----------------------------------------------------------------------------
(* Whatever ends the session keeps the invariant, and ends the loan.       *)
LEMMA DisposeKeeps ==
  ASSUME IpcInv, Dispose, UNCHANGED <<offer, pipe, engine>>,
         sequence' \in 0 .. MaxFrames - 1, acked' \in 0 .. MaxFrames, acked' <= sequence' + 1,
         lent' \in MaybeCredential, faults' \in 0 .. MaxFaults
  PROVE  IpcInv'
<1>1. IpcTypeOK'
  <2>1. <<>> \in Seq(Frames) /\ <<>> \in Seq(Parts) /\ Len(<<>>) = 0
    OBVIOUS
  <2>2. MaxBuffered \in Nat
    BY IpcAssumption
  <2>3. /\ status' = "disposed" /\ request' = "none" /\ stage' = "idle" /\ sending' = FALSE
        /\ secret' = (IF secret = "none" THEN "none" ELSE "zeroed")
        /\ transport' = "closed" /\ buffer' = <<>> /\ outbox' = <<>> /\ answers' = <<>>
        /\ UNCHANGED <<offer, pipe, engine>>
    BY DEF Dispose, CloseTransport
  <2>4. /\ outbox' \in Seq(Frames) /\ Len(outbox') <= 1 /\ answers' \in Seq(Parts)
        /\ buffer' \in Seq(Parts) /\ Len(buffer') <= MaxBuffered
    BY <2>1, <2>2, <2>3
  <2>5. pipe' \in Seq(Frames)
    BY <2>3 DEF IpcInv, IpcTypeOK
  <2>6. /\ offer' \in MaybeCredential
        /\ engine' \in [keyed : BOOLEAN, next : 0 .. MaxFrames, holds : MaybeCredential, closed : BOOLEAN]
    BY <2>3 DEF IpcInv, IpcTypeOK
  <2>. QED
    BY <2>3, <2>4, <2>5, <2>6 DEF IpcTypeOK
<1>. QED
  BY <1>1 DEF IpcInv, Order, Agreeing, Dispose

(* A failure disposes of the session, and ends the loan.                   *)
LEMMA FailKeeps ==
  ASSUME IpcInv, Fail, faults' \in 0 .. MaxFaults
  PROVE  IpcInv' /\ LoanStep
<1>1. IpcInv'
  BY DisposeKeeps DEF Fail, IpcInv, IpcTypeOK, Order, ledger
<1>2. Loan!End
  BY DEF Loan!End, Fail, Dispose, ledger
<1>. QED
  BY <1>1, <1>2 DEF LoanStep, Loan!Next

-----------------------------------------------------------------------------
(* A response to the request in flight: the engine took its frame, so that *)
(* what it holds is what the request offered.                              *)
LEMMA AcknowledgedKeeps ==
  ASSUME IpcInv, request # "none",
         NEW queue \in Seq(Parts), NEW unread \in Seq(Parts), Len(queue) > 1, Len(queue) <= MaxBuffered,
         queue[2] = Ack(sequence),
         Agreeing => \A i \in 1 .. Len(queue) : Old(queue[i]),
         Agreeing => \A i \in 1 .. Len(unread) : Old(unread[i]),
         Acknowledged(queue, unread), faults' = faults
  PROVE  IpcInv' /\ LoanStep
<1>1. /\ IpcTypeOK /\ Order /\ acked = sequence /\ status \in {"opening", "open"}
      /\ acked \in Nat /\ sequence \in 0 .. MaxFrames - 1 /\ MaxFrames \in Nat
      /\ offer \in MaybeCredential /\ offer # "nothing"
  BY IpcAssumption DEF IpcInv, IpcTypeOK, Order, MaybeCredential
<1>2. /\ lent' = offer /\ acked' = acked + 1
      /\ UNCHANGED <<sequence, offer, pipe, engine>>
  BY DEF Acknowledged
<1>3. IpcInv'
  <2>1. CASE request = "session_end"
    <3>1. Dispose
      BY <2>1 DEF Acknowledged
    <3>2. faults' \in 0 .. MaxFaults
      BY <1>1 DEF IpcTypeOK
    <3>. QED
      BY <1>1, <1>2, <3>1, <3>2, DisposeKeeps
  <2>2. CASE request # "session_end"
    <3>1. /\ status' = "open" /\ request' = "none" /\ stage' = "idle" /\ sending' = FALSE
          /\ buffer' = SubSeq(queue, 3, Len(queue)) /\ answers' = unread
          /\ UNCHANGED <<secret, transport, outbox>>
      BY <2>2 DEF Acknowledged
    <3>2. /\ buffer' \in Seq(Parts) /\ Len(buffer') <= MaxBuffered
          /\ \A i \in 1 .. Len(buffer') : i + 2 \in 1 .. Len(queue) /\ buffer'[i] = queue[i + 2]
      <4>1. 2 \in Nat /\ 2 <= Len(queue) /\ Len(queue) \in Nat /\ MaxBuffered \in Nat
        BY IpcAssumption
      <4>2. /\ SubSeq(queue, 3, Len(queue)) \in Seq(Parts)
            /\ Len(SubSeq(queue, 3, Len(queue))) = Len(queue) - 2
            /\ \A i \in 1 .. Len(queue) - 2 : SubSeq(queue, 3, Len(queue))[i] = queue[2 + i]
        BY <4>1, DroppingTwo
      <4>. QED
        BY <3>1, <4>1, <4>2
    <3>3. IpcTypeOK'
      <4>1. /\ outbox' \in Seq(Frames) /\ Len(outbox') <= 1 /\ pipe' \in Seq(Frames)
            /\ answers' \in Seq(Parts)
        BY <1>1, <1>2, <3>1 DEF IpcTypeOK
      <4>2. /\ engine' \in [keyed : BOOLEAN, next : 0 .. MaxFrames, holds : MaybeCredential, closed : BOOLEAN]
            /\ secret' \in {"none", "live", "zeroed"} /\ transport' \in {"open", "closed"}
        BY <1>1, <1>2, <3>1 DEF IpcTypeOK
      <4>3. /\ sequence' \in 0 .. MaxFrames - 1 /\ acked' \in 0 .. MaxFrames /\ faults' \in 0 .. MaxFaults
            /\ offer' \in MaybeCredential /\ lent' \in MaybeCredential
        BY <1>1, <1>2 DEF IpcTypeOK
      <4>4. buffer' \in Seq(Parts) /\ Len(buffer') <= MaxBuffered
        BY <3>2
      <4>5. /\ status' = "open" /\ request' = "none" /\ stage' = "idle" /\ sending' = FALSE
        BY <3>1
      <4>. QED
        BY <4>1, <4>2, <4>3, <4>4, <4>5 DEF IpcTypeOK
    <3>4. Order'
      BY <1>1, <1>2, <3>1 DEF Order
    <3>5. ASSUME Agreeing' PROVE Agreement'
      <4>1. Agreeing /\ Agreement
        BY <1>1, <1>2, <3>1, <3>5 DEF Agreeing, IpcInv
      <4>2. sequence < engine.next
        <5>1. 2 \in 1 .. Len(queue)
          OBVIOUS
        <5>2. Old(Ack(sequence))
          BY <4>1, <5>1
        <5>3. /\ Ack(sequence).type = "session_ack" /\ Ack(sequence).session = "this"
              /\ Ack(sequence).sequence = sequence
          BY PartTypes
        <5>. QED
          BY <5>2, <5>3 DEF Old, Taken
      <4>3. engine.next = acked + 1 /\ engine.holds = offer
        BY <1>1, <4>1, <4>2 DEF Agreement
      <4>4. \A f \in Frames \union {Bootstrap} : Current(f) => f = Bootstrap \/ f.sequence < engine.next
        BY <1>1, <4>3 DEF Current
      <4>5. /\ outbox \in Seq(Frames) /\ pipe \in Seq(Frames)
            /\ \A i \in DOMAIN outbox : outbox[i] = Bootstrap \/ outbox[i].sequence < engine.next
            /\ \A i \in DOMAIN pipe : pipe[i] = Bootstrap \/ pipe[i].sequence < engine.next
        BY <1>1, <4>1, <4>4 DEF Agreement, IpcTypeOK
      <4>6. /\ \A i \in DOMAIN outbox' : Current(outbox[i])'
            /\ \A i \in DOMAIN pipe' : Current(pipe[i])'
        BY <1>2, <3>1, <4>5 DEF Current
      <4>7. \A i \in DOMAIN answers' : Old(answers[i])'
        BY <1>2, <3>1, <4>1 DEF Old
      <4>8. \A i \in DOMAIN buffer' : Old(buffer[i])'
        BY <1>2, <3>2, <4>1 DEF Old
      <4>. QED
        BY <1>2, <4>3, <4>6, <4>7, <4>8 DEF Agreement
    <3>. QED
      BY <3>3, <3>4, <3>5 DEF IpcInv
  <2>. QED
    BY <2>1, <2>2
<1>4. Loan!Answer
  <2>1. request' = "none" /\ acked' # 0
    BY <1>1, <1>2 DEF Acknowledged, Dispose
  <2>. QED
    BY <1>1, <1>2, <2>1 DEF Loan!Answer
<1>. QED
  BY <1>3, <1>4 DEF LoanStep, Loan!Next

(* What is received settles the request, or is kept for the next read.     *)
LEMMA AwaitKeeps ==
  ASSUME IpcInv, request # "none", stage # "idle",
         NEW queue \in Seq(Parts), NEW unread \in Seq(Parts), Len(queue) <= MaxBuffered,
         Agreeing => \A i \in 1 .. Len(queue) : Old(queue[i]),
         Agreeing => \A i \in 1 .. Len(unread) : Old(unread[i]),
         Await(queue, unread), faults' = faults
  PROVE  IpcInv' /\ LoanStep
<1>1. CASE Complete(queue) /\ Accepts(queue)
  <2>1. Len(queue) > 1 /\ queue[2] = Ack(sequence)
    <3>1. Length # TooLong
      BY DEF Length, TooLong
    <3>. QED
      BY <1>1, <3>1 DEF Complete, Accepts
  <2>2. Acknowledged(queue, unread)
    BY <1>1 DEF Await
  <2>. QED
    BY <2>1, <2>2, AcknowledgedKeeps
<1>2. CASE Complete(queue) /\ ~Accepts(queue)
  BY <1>2, FailKeeps DEF Await, IpcInv, IpcTypeOK
<1>3. CASE ~Complete(queue)
  <2>1. /\ stage' = "answer" /\ buffer' = queue /\ answers' = unread
        /\ UNCHANGED <<status, request, offer, sequence, sending, secret, lent, acked, transport, outbox,
                       pipe, engine>>
    BY <1>3 DEF Await, ledger
  <2>2. IpcTypeOK'
    BY <2>1 DEF IpcInv, IpcTypeOK
  <2>3. Order'
    BY <2>1 DEF IpcInv, Order
  <2>4. Agreeing' => Agreement'
    BY <2>1 DEF IpcInv, Agreeing, Agreement, Current, Old
  <2>5. UNCHANGED Loan!loan
    BY <2>1 DEF Loan!loan
  <2>. QED
    BY <2>2, <2>3, <2>4, <2>5 DEF IpcInv, LoanStep
<1>. QED
  BY <1>1, <1>2, <1>3

-----------------------------------------------------------------------------
(* The facts of the invariant that the actions below rest on.              *)
LEMMA Parameters ==
  MaxFrames \in Nat /\ MaxFrames > 0 /\ MaxBuffered \in Nat /\ MaxFaults \in Nat
BY IpcAssumption

(* The types of the launcher's side, with their bounds.                    *)
LEMMA Reading ==
  ASSUME IpcInv
  PROVE  /\ status \in {"none", "abandoned", "opening", "open", "disposed"}
         /\ sequence \in 0 .. MaxFrames - 1 /\ sequence \in Nat /\ acked \in 0 .. MaxFrames /\ acked \in Nat
         /\ sending \in BOOLEAN
         /\ offer \in MaybeCredential /\ lent \in MaybeCredential /\ faults \in 0 .. MaxFaults
         /\ engine \in [keyed : BOOLEAN, next : 0 .. MaxFrames, holds : MaybeCredential, closed : BOOLEAN]
         /\ engine.next \in 0 .. MaxFrames /\ engine.next \in Nat
<1>1. engine.next \in 0 .. MaxFrames
  BY DEF IpcInv, IpcTypeOK
<1>. QED
  BY <1>1, Parameters DEF IpcInv, IpcTypeOK

(* The types of what is under way between the two sides.                   *)
LEMMA Wires ==
  ASSUME IpcInv
  PROVE  /\ outbox \in Seq(Frames) /\ Len(outbox) <= 1 /\ pipe \in Seq(Frames)
         /\ answers \in Seq(Parts) /\ buffer \in Seq(Parts) /\ Len(buffer) <= MaxBuffered
         /\ DOMAIN outbox = 1 .. Len(outbox) /\ DOMAIN pipe = 1 .. Len(pipe)
         /\ DOMAIN answers = 1 .. Len(answers) /\ DOMAIN buffer = 1 .. Len(buffer)
BY DEF IpcInv, IpcTypeOK

(* Ends of the session that any of the launcher's callbacks may bring.     *)
LEMMA EndingsKeep ==
  ASSUME IpcInv, WriteFails \/ PeerClosed \/ Deadline \/ Abort \/ LimitExceeded \/ EndWhileSending
  PROVE  IpcInv' /\ LoanStep
<1>1. Fail
  BY DEF WriteFails, PeerClosed, Deadline, Abort, LimitExceeded, EndWhileSending
<1>2. faults' = faults \/ Faulty
  BY DEF WriteFails, PeerClosed, Deadline, Abort, LimitExceeded, EndWhileSending
<1>3. faults' \in 0 .. MaxFaults
  BY <1>2, Reading, Parameters DEF Faulty
<1>. QED
  BY <1>1, <1>3, FailKeeps

(* Opening a session begins the loan.                                      *)
LEMMA OpenKeeps ==
  ASSUME IpcInv, NEW c \in MaybeCredential, Open(c)
  PROVE  IpcInv' /\ LoanStep
<1>1. /\ status = "none" /\ status' = "opening"
      /\ request' = "session_start" /\ stage' = "bootstrap" /\ offer' = c
      /\ secret' = "live" /\ outbox' = <<Bootstrap>>
      /\ UNCHANGED <<sequence, sending, lent, acked, transport, pipe, answers, buffer, engine, faults>>
  BY DEF Open, ledger
<1>2. request = "none" /\ acked = 0 /\ sequence = 0 /\ ~sending
  BY <1>1 DEF IpcInv, Order
<1>3. outbox' \in Seq(Frames) /\ Len(outbox') = 1 /\ outbox'[1] = Bootstrap
  BY <1>1 DEF Frames
<1>4. IpcTypeOK'
  BY <1>1, <1>3 DEF IpcInv, IpcTypeOK, Kinds
<1>5. Order'
  BY <1>1, <1>2 DEF Order
<1>6. ASSUME Agreeing' PROVE Agreement'
  <2>1. Agreement
    BY <1>1, <1>6 DEF IpcInv, Agreeing
  <2>2. engine.next = acked /\ engine.holds = lent
    BY <1>2, <2>1 DEF Agreement
  <2>3. \A i \in DOMAIN outbox' : Current(outbox[i])'
    BY <1>3 DEF Current
  <2>4. \A i \in DOMAIN pipe' : Current(pipe[i])'
    BY <1>1, <1>2, <2>1 DEF Agreement, Current
  <2>5. (\A i \in DOMAIN answers' : Old(answers[i])') /\ (\A i \in DOMAIN buffer' : Old(buffer[i])')
    BY <1>1, <2>1 DEF Agreement, Old
  <2>. QED
    BY <1>1, <2>2, <2>3, <2>4, <2>5 DEF Agreement
<1>7. Loan!Offer(c)
  BY <1>1, <1>2 DEF Loan!Offer
<1>. QED
  BY <1>4, <1>5, <1>6, <1>7 DEF IpcInv, LoanStep, Loan!Next

(* A session that cannot be opened leaves the loan not begun.              *)
LEMMA OpenThrowsKeeps ==
  ASSUME IpcInv, OpenThrows
  PROVE  IpcInv' /\ LoanStep
<1>1. /\ status = "none" /\ status' = "abandoned" /\ secret' = "live"
      /\ UNCHANGED <<request, stage, offer, sequence, sending, lent, acked, transport, outbox, answers,
                     pipe, buffer, engine>>
  BY DEF OpenThrows, operation, ledger, wires, streams
<1>2. faults' \in 0 .. MaxFaults
  BY Reading, Parameters DEF OpenThrows, Faulty
<1>3. IpcTypeOK'
  BY <1>1, <1>2 DEF IpcInv, IpcTypeOK
<1>4. Order' /\ ~Agreeing'
  BY <1>1 DEF IpcInv, Order, Agreeing
<1>5. UNCHANGED Loan!loan
  BY <1>1 DEF Loan!loan
<1>. QED
  BY <1>3, <1>4, <1>5 DEF IpcInv, LoanStep

(* The key is written, and the first frame follows.                        *)
LEMMA BootstrapWrittenKeeps ==
  ASSUME IpcInv, BootstrapWritten
  PROVE  IpcInv' /\ LoanStep
<1>1. /\ stage = "bootstrap" /\ stage' = "frame"
      /\ outbox' = <<Frame("session_start", 0, offer)>>
      /\ UNCHANGED <<status, request, offer, sequence, sending, secret, lent, acked, transport, pipe,
                     answers, buffer, engine, faults>>
  BY DEF BootstrapWritten, ledger
<1>2. request # "none" /\ secret = "live"
  BY <1>1 DEF IpcInv, IpcTypeOK, Order
<1>3. /\ outbox' \in Seq(Frames) /\ Len(outbox') = 1
      /\ outbox'[1].sequence = 0 /\ outbox'[1].credential = offer
  <2>1. "session_start" \in Kinds /\ 0 \in 0 .. MaxFrames - 1 /\ offer \in MaybeCredential
    BY Reading, Parameters DEF Kinds
  <2>. QED
    BY <1>1, <1>2, <2>1, FrameTypes
<1>4. IpcTypeOK'
  BY <1>1, <1>2, <1>3 DEF IpcInv, IpcTypeOK
<1>5. Order'
  BY <1>1 DEF IpcInv, Order
<1>6. ASSUME Agreeing' PROVE Agreement'
  <2>1. Agreement
    BY <1>1, <1>6 DEF IpcInv, Agreeing
  <2>2. 0 < engine.next \/ acked = 0
    BY <2>1, Reading DEF Agreement
  <2>3. \A i \in DOMAIN outbox' : Current(outbox[i])'
    BY <1>1, <1>2, <1>3, <2>2 DEF Current
  <2>4. \A i \in DOMAIN pipe' : Current(pipe[i])'
    BY <1>1, <2>1 DEF Agreement, Current
  <2>5. (\A i \in DOMAIN answers' : Old(answers[i])') /\ (\A i \in DOMAIN buffer' : Old(buffer[i])')
    BY <1>1, <2>1 DEF Agreement, Old
  <2>6. (\/ engine.next = acked /\ engine.holds = lent
         \/ request # "none" /\ engine.next = acked + 1 /\ engine.holds = offer)'
    BY <1>1, <2>1 DEF Agreement
  <2>. QED
    BY <2>3, <2>4, <2>5, <2>6 DEF Agreement
<1>7. UNCHANGED Loan!loan
  BY <1>1 DEF Loan!loan
<1>. QED
  BY <1>4, <1>5, <1>6, <1>7 DEF IpcInv, LoanStep

(* A frame is written, and its answer awaited.                             *)
LEMMA FrameWrittenKeeps ==
  ASSUME IpcInv, FrameWritten
  PROVE  IpcInv' /\ LoanStep
<1>1. stage = "frame" /\ Await(buffer, answers) /\ faults' = faults
  BY DEF FrameWritten
<1>2. request # "none"
  BY <1>1 DEF IpcInv, IpcTypeOK
<1>3. Agreeing => /\ \A i \in 1 .. Len(buffer) : Old(buffer[i])
                  /\ \A i \in 1 .. Len(answers) : Old(answers[i])
  BY Wires DEF IpcInv, Agreement
<1>. QED
  BY <1>1, <1>2, <1>3, Wires, AwaitKeeps

(* What arrives answers the request in flight, or ends the session.        *)
LEMMA ReceiveKeeps ==
  ASSUME IpcInv, NEW k \in 1 .. Len(answers), Receive(k)
  PROVE  IpcInv' /\ LoanStep
<1>0. k \in Nat /\ k <= Len(answers) /\ answers \in Seq(Parts)
  BY Wires
<1>. DEFINE cut == SubSeq(answers, 1, k)
            queue == buffer \o cut
            unread == SubSeq(answers, k + 1, Len(answers))
<1>1. /\ stage = "answer" /\ faults' = faults
      /\ IF Len(queue) > MaxBuffered THEN Fail ELSE Await(queue, unread)
  BY DEF Receive
<1>2. request # "none"
  BY <1>1 DEF IpcInv, IpcTypeOK
<1>3. /\ cut \in Seq(Parts) /\ Len(cut) = k
      /\ unread \in Seq(Parts) /\ Len(unread) = Len(answers) - k
      /\ \A i \in 1 .. k : cut[i] = answers[i]
      /\ \A i \in 1 .. Len(answers) - k : unread[i] = answers[k + i]
  BY <1>0, Cutting
<1>. HIDE DEF cut
<1>4. /\ queue \in Seq(Parts) /\ Len(queue) = Len(buffer) + k
      /\ \A i \in 1 .. Len(buffer) + k :
           queue[i] = IF i <= Len(buffer) THEN buffer[i] ELSE cut[i - Len(buffer)]
  <2>1. buffer \in Seq(Parts) /\ cut \in Seq(Parts) /\ Len(cut) = k
    BY <1>3, Wires
  <2>2. /\ buffer \o cut \in Seq(Parts) /\ Len(buffer \o cut) = Len(buffer) + Len(cut)
        /\ \A i \in 1 .. Len(buffer) + Len(cut) :
             (buffer \o cut)[i] = IF i <= Len(buffer) THEN buffer[i] ELSE cut[i - Len(buffer)]
    BY <2>1, Joining
  <2>. QED
    BY <2>1, <2>2
<1>. HIDE DEF queue, unread
<1>5. ASSUME Agreeing
      PROVE  /\ \A i \in 1 .. Len(queue) : Old(queue[i])
             /\ \A i \in 1 .. Len(unread) : Old(unread[i])
  <2>1. /\ \A i \in 1 .. Len(buffer) : Old(buffer[i])
        /\ \A i \in 1 .. Len(answers) : Old(answers[i])
    BY <1>5, Wires DEF IpcInv, Agreement
  <2>2. ASSUME NEW i \in 1 .. Len(queue) PROVE Old(queue[i])
    <3>1. Len(buffer) \in Nat /\ Len(answers) \in Nat
      BY Wires
    <3>2. CASE i <= Len(buffer)
      BY <1>4, <2>1, <3>1, <3>2
    <3>3. CASE i > Len(buffer)
      <4>1. i - Len(buffer) \in 1 .. k /\ i - Len(buffer) \in 1 .. Len(answers)
        BY <1>4, <3>1, <3>3
      <4>2. queue[i] = cut[i - Len(buffer)]
        BY <1>4, <3>1, <3>3
      <4>3. queue[i] = answers[i - Len(buffer)]
        BY <1>3, <4>1, <4>2
      <4>. QED
        BY <2>1, <4>1, <4>3
    <3>. QED
      BY <3>1, <3>2, <3>3
  <2>3. ASSUME NEW i \in 1 .. Len(unread) PROVE Old(unread[i])
    <3>1. k + i \in 1 .. Len(answers) /\ unread[i] = answers[k + i]
      BY <1>3, Wires
    <3>. QED
      BY <2>1, <3>1
  <2>. QED
    BY <2>2, <2>3
<1>6. CASE Len(queue) > MaxBuffered
  BY <1>1, <1>6, FailKeeps, Reading
<1>7. CASE ~(Len(queue) > MaxBuffered)
  <2>1. Len(queue) <= MaxBuffered /\ Await(queue, unread)
    BY <1>1, <1>4, <1>7, Parameters, Wires
  <2>. QED
    BY <1>1, <1>2, <1>3, <1>4, <1>5, <2>1, AwaitKeeps
<1>. QED
  BY <1>6, <1>7

(* The next request offers its token, or takes the last one back.          *)
LEMMA SendContinuationKeeps ==
  ASSUME IpcInv, NEW kind \in Continuations, NEW c \in MaybeCredential, SendContinuation(kind, c)
  PROVE  IpcInv' /\ LoanStep
<1>1. /\ status = "open" /\ ~sending /\ sequence + 1 < MaxFrames
      /\ sending' = TRUE /\ sequence' = sequence + 1
      /\ request' = kind /\ stage' = "frame" /\ offer' = c
      /\ outbox' = <<Frame(kind, sequence + 1, c)>>
      /\ UNCHANGED <<status, secret, lent, acked, transport, pipe, answers, buffer, engine, faults>>
  BY DEF SendContinuation, ledger
<1>2. request = "none" /\ acked = sequence + 1 /\ secret = "live"
  BY <1>1 DEF IpcInv, Order
<1>3. sequence' \in 0 .. MaxFrames - 1 /\ acked' = sequence'
  BY <1>1, <1>2, Reading, Parameters
<1>4. kind \in Kinds /\ kind # "none"
  BY DEF Kinds, Continuations
<1>5. /\ outbox' \in Seq(Frames) /\ Len(outbox') = 1
      /\ outbox'[1].sequence = acked /\ outbox'[1].credential = c
  BY <1>1, <1>2, <1>3, <1>4, FrameTypes
<1>6. IpcTypeOK'
  BY <1>1, <1>3, <1>4, <1>5 DEF IpcInv, IpcTypeOK
<1>7. Order'
  BY <1>1, <1>2, <1>3, Reading DEF Order
<1>8. ASSUME Agreeing' PROVE Agreement'
  <2>1. Agreement
    BY <1>1, <1>8 DEF IpcInv, Agreeing
  <2>2. engine.next = acked /\ engine.holds = lent
    BY <1>2, <2>1 DEF Agreement
  <2>3. \A i \in DOMAIN outbox' : Current(outbox[i])'
    BY <1>1, <1>4, <1>5 DEF Current
  <2>4. \A i \in DOMAIN pipe' : Current(pipe[i])'
    BY <1>1, <1>2, <2>1 DEF Agreement, Current
  <2>5. (\A i \in DOMAIN answers' : Old(answers[i])') /\ (\A i \in DOMAIN buffer' : Old(buffer[i])')
    BY <1>1, <2>1 DEF Agreement, Old
  <2>. QED
    BY <1>1, <2>2, <2>3, <2>4, <2>5 DEF Agreement
<1>9. Loan!Offer(c)
  BY <1>1, <1>2, <1>4 DEF Loan!Offer
<1>. QED
  BY <1>6, <1>7, <1>8, <1>9 DEF IpcInv, LoanStep, Loan!Next

(* A request that throws uses up its number; the next is refused, or the   *)
(* session over.                                                           *)
LEMMA ContinuationThrowsKeeps ==
  ASSUME IpcInv, NEW kind \in Continuations, NEW c \in MaybeCredential, ContinuationThrows(kind, c)
  PROVE  IpcInv' /\ LoanStep
<1>1. /\ status = "open" /\ ~sending /\ sequence + 1 < MaxFrames /\ sequence' = sequence + 1
      /\ UNCHANGED <<offer, lent, acked, pipe, engine>>
  BY DEF ContinuationThrows, ledger
<1>2. request = "none" /\ acked = sequence + 1 /\ secret = "live"
  BY <1>1 DEF IpcInv, Order
<1>3. /\ sequence' \in 0 .. MaxFrames - 1 /\ acked' = sequence' /\ faults' \in 0 .. MaxFaults
      /\ acked' \in 0 .. MaxFrames /\ acked' <= sequence' + 1 /\ lent' \in MaybeCredential
  BY <1>1, <1>2, Reading, Parameters DEF ContinuationThrows, Faulty
<1>4. CASE kind = "session_end"
  <2>1. Dispose
    BY <1>4 DEF ContinuationThrows
  <2>2. IpcInv'
    BY <1>1, <1>3, <2>1, DisposeKeeps
  <2>3. Loan!End
    BY <1>1, <2>1 DEF Loan!End, Dispose
  <2>. QED
    BY <2>2, <2>3 DEF LoanStep, Loan!Next
<1>5. CASE kind # "session_end"
  <2>1. sending' = TRUE
        /\ UNCHANGED <<status, request, stage, secret, transport, outbox, answers, buffer>>
    BY <1>5 DEF ContinuationThrows, streams
  <2>2. IpcTypeOK'
    BY <1>1, <1>3, <2>1 DEF IpcInv, IpcTypeOK
  <2>3. Order'
    BY <1>1, <1>2, <1>3, <2>1, Reading DEF Order
  <2>4. ASSUME Agreeing' PROVE Agreement'
    <3>1. Agreement
      BY <1>1, <2>1, <2>4 DEF IpcInv, Agreeing
    <3>. QED
      BY <1>1, <1>2, <2>1, <3>1 DEF Agreement, Current, Old
  <2>5. UNCHANGED Loan!loan
    BY <1>1, <2>1 DEF Loan!loan
  <2>. QED
    BY <2>2, <2>3, <2>4, <2>5 DEF IpcInv, LoanStep
<1>. QED
  BY <1>4, <1>5

-----------------------------------------------------------------------------
(* The operating system passes a frame on to the engine.                   *)
LEMMA FlushKeeps ==
  ASSUME IpcInv, Flush
  PROVE  IpcInv' /\ LoanStep
<1>1. /\ outbox # <<>> /\ pipe' = Append(pipe, Head(outbox)) /\ outbox' = <<>>
      /\ UNCHANGED <<status, request, stage, offer, sequence, sending, secret, lent, acked, transport,
                     answers, buffer, engine, faults>>
  BY DEF Flush, operation, ledger
<1>2. 1 \in DOMAIN outbox /\ Head(outbox) = outbox[1] /\ Head(outbox) \in Frames
  BY <1>1, Wires
<1>3. /\ pipe' \in Seq(Frames) /\ Len(pipe') = Len(pipe) + 1
      /\ \A i \in 1 .. Len(pipe) + 1 : pipe'[i] = IF i = Len(pipe) + 1 THEN outbox[1] ELSE pipe[i]
  BY <1>1, <1>2, Wires
<1>4. outbox' \in Seq(Frames) /\ Len(outbox') = 0
  BY <1>1
<1>5. IpcTypeOK'
  BY <1>1, <1>3, <1>4 DEF IpcInv, IpcTypeOK
<1>6. Order'
  BY <1>1 DEF IpcInv, Order
<1>7. ASSUME Agreeing' PROVE Agreement'
  <2>1. Agreement
    BY <1>1, <1>7 DEF IpcInv, Agreeing
  <2>2. ASSUME NEW i \in DOMAIN pipe' PROVE Current(pipe[i])'
    <3>1. Current(pipe'[i])
      <4>1. i \in 1 .. Len(pipe) + 1 /\ Len(pipe) \in Nat
        BY <1>3, Wires
      <4>2. CASE i = Len(pipe) + 1
        BY <1>2, <1>3, <2>1, <4>1, <4>2 DEF Agreement
      <4>3. CASE i # Len(pipe) + 1
        BY <1>3, <2>1, <4>1, <4>3, Wires DEF Agreement
      <4>. QED
        BY <4>2, <4>3
    <3>. QED
      BY <1>1, <3>1 DEF Current
  <2>3. \A i \in DOMAIN outbox' : Current(outbox[i])'
    BY <1>4
  <2>4. (\A i \in DOMAIN answers' : Old(answers[i])') /\ (\A i \in DOMAIN buffer' : Old(buffer[i])')
    BY <1>1, <2>1 DEF Agreement, Old
  <2>5. (\/ engine.next = acked /\ engine.holds = lent
         \/ request # "none" /\ engine.next = acked + 1 /\ engine.holds = offer)'
    BY <1>1, <2>1 DEF Agreement
  <2>. QED
    BY <2>2, <2>3, <2>4, <2>5 DEF Agreement
<1>8. UNCHANGED Loan!loan
  BY <1>1 DEF Loan!loan
<1>. QED
  BY <1>5, <1>6, <1>7, <1>8 DEF IpcInv, LoanStep

(* What the engine took, it has still taken when it has taken more.        *)
LEMMA Growing ==
  ASSUME NEW m \in Nat, NEW n \in Nat, m <= n
  PROVE  /\ \A part \in Parts : Taken(part, m) => Taken(part, n)
         /\ \A f \in Frames : f.sequence < m => f.sequence < n
<1>1. ASSUME NEW a \in Nat, a < m PROVE a < n
  BY <1>1
<1>2. \A part \in Parts : part.sequence \in Nat
  BY PartTypes
<1>3. \A f \in Frames : f.sequence \in Nat
  BY Parameters DEF Frames, Bootstrap
<1>. QED
  BY <1>1, <1>2, <1>3 DEF Taken

(* What the engine sends reaches a launcher that still reads.              *)
LEMMA RespondTypes ==
  ASSUME IpcInv, NEW parts \in Seq(Parts), Respond(parts), NEW n
  PROVE  /\ answers' \in Seq(Parts)
         /\ (\A i \in DOMAIN answers : Taken(answers[i], n)) /\ (\A i \in DOMAIN parts : Taken(parts[i], n))
              => \A i \in DOMAIN answers' : Taken(answers'[i], n)
<1>1. answers' = <<>> \/ answers' = answers \o parts
  BY DEF Respond
<1>2. CASE answers' = <<>>
  BY <1>2
<1>3. CASE answers' = answers \o parts
  <2>1. /\ answers' \in Seq(Parts) /\ DOMAIN answers' = 1 .. Len(answers) + Len(parts)
        /\ DOMAIN parts = 1 .. Len(parts) /\ Len(parts) \in Nat /\ Len(answers) \in Nat
        /\ \A i \in 1 .. Len(answers) + Len(parts) :
             answers'[i] = IF i <= Len(answers) THEN answers[i] ELSE parts[i - Len(answers)]
    BY <1>3, Wires, Joining
  <2>2. ASSUME NEW i \in DOMAIN answers',
               \A j \in DOMAIN answers : Taken(answers[j], n), \A j \in DOMAIN parts : Taken(parts[j], n)
        PROVE  Taken(answers'[i], n)
    <3>1. CASE i <= Len(answers)
      <4>1. i \in DOMAIN answers /\ answers'[i] = answers[i]
        BY <2>1, <3>1, Wires
      <4>. QED
        BY <2>2, <4>1
    <3>2. CASE ~(i <= Len(answers))
      <4>1. i - Len(answers) \in DOMAIN parts /\ answers'[i] = parts[i - Len(answers)]
        BY <2>1, <3>2, Wires
      <4>. QED
        BY <2>2, <4>1
    <3>. QED
      BY <3>1, <3>2
  <2>. QED
    BY <2>1, <2>2
<1>. QED
  BY <1>1, <1>2, <1>3

(* The parts of a response are parts, an acknowledgement among them.       *)
LEMMA PairTypes ==
  ASSUME NEW part \in Parts, NEW n \in Nat, Taken(part, n)
  PROVE  /\ <<Length, part>> \in Seq(Parts)
         /\ \A i \in DOMAIN <<Length, part>> : Taken(<<Length, part>>[i], n)
<1>1. Length \in Parts /\ Taken(Length, n)
  BY PartTypes DEF Taken
<1>2. DOMAIN <<Length, part>> = {1, 2}
  BY SMT
<1>. QED
  BY <1>1, <1>2

(* The engine takes a frame, or refuses it.                                *)
LEMMA EngineReadsKeeps ==
  ASSUME IpcInv, EngineReads
  PROVE  IpcInv' /\ LoanStep
<1>. DEFINE f == Head(pipe)
<1>1. /\ pipe # <<>> /\ ~engine.closed /\ pipe' = Tail(pipe)
      /\ \/ f = Bootstrap /\ engine' = [engine EXCEPT !.keyed = TRUE] /\ UNCHANGED answers
         \/ f # Bootstrap /\ (EngineAccepts(f) \/ EngineRefuses)
      /\ UNCHANGED <<status, request, stage, offer, sequence, sending, secret, lent, acked, transport,
                     outbox, buffer, faults>>
  BY DEF EngineReads, operation, ledger
<1>2. /\ f \in Frames /\ f = pipe[1] /\ 1 \in DOMAIN pipe
      /\ pipe' \in Seq(Frames) /\ Len(pipe') = Len(pipe) - 1
      /\ \A i \in 1 .. Len(pipe) - 1 : pipe'[i] = pipe[i + 1]
  BY <1>1, Wires
<1>. HIDE DEF f
<1>3. f # Bootstrap => f.sequence \in 0 .. MaxFrames - 1 /\ f.credential \in MaybeCredential
  BY <1>2 DEF Frames
<1>4. UNCHANGED Loan!loan
  BY <1>1 DEF Loan!loan
<1>5. Order'
  BY <1>1 DEF IpcInv, Order
<1>6. ASSUME /\ engine' \in [keyed : BOOLEAN, next : 0 .. MaxFrames, holds : MaybeCredential, closed : BOOLEAN]
             /\ answers' \in Seq(Parts)
      PROVE  IpcTypeOK'
  BY <1>1, <1>2, <1>6 DEF IpcInv, IpcTypeOK
<1>7. ASSUME Agreement, NEW n \in Nat, engine.next <= n, n = engine'.next
      PROVE  /\ \A i \in DOMAIN outbox' : Current(outbox[i])'
             /\ \A i \in DOMAIN pipe' : Current(pipe[i])'
             /\ \A i \in DOMAIN buffer' : Old(buffer[i])'
             /\ \A i \in DOMAIN answers : Taken(answers[i], n)
  <2>1. /\ \A part \in Parts : Taken(part, engine.next) => Taken(part, n)
        /\ \A g \in Frames : g.sequence < engine.next => g.sequence < n
    BY <1>7, Growing, Reading
  <2>2. ASSUME NEW g \in Frames, Current(g)
        PROVE  \/ g = Bootstrap \/ g.sequence < n
               \/ request # "none" /\ g.sequence = acked /\ g.credential = offer
    BY <2>1, <2>2 DEF Current
  <2>3. ASSUME NEW i \in DOMAIN outbox' PROVE Current(outbox[i])'
    <3>1. outbox[i] \in Frames /\ Current(outbox[i]) /\ outbox'[i] = outbox[i]
      BY <1>1, <1>7, Wires DEF Agreement
    <3>. QED
      BY <1>1, <1>7, <2>2, <3>1 DEF Current
  <2>4. ASSUME NEW i \in DOMAIN pipe' PROVE Current(pipe[i])'
    <3>1. i \in 1 .. Len(pipe) - 1 /\ i + 1 \in DOMAIN pipe /\ pipe'[i] = pipe[i + 1]
      BY <1>2, Wires
    <3>2. pipe[i + 1] \in Frames /\ Current(pipe[i + 1])
      BY <1>7, <3>1, Wires DEF Agreement
    <3>. QED
      BY <1>1, <1>7, <2>2, <3>1, <3>2 DEF Current
  <2>5. ASSUME NEW i \in DOMAIN buffer' PROVE Old(buffer[i])'
    <3>1. buffer[i] \in Parts /\ Taken(buffer[i], engine.next) /\ buffer'[i] = buffer[i]
      BY <1>1, <1>7, Wires DEF Agreement, Old
    <3>. QED
      BY <1>7, <2>1, <3>1 DEF Old
  <2>6. ASSUME NEW i \in DOMAIN answers PROVE Taken(answers[i], n)
    BY <1>7, <2>1, Wires DEF Agreement, Old
  <2>. QED
    BY <2>3, <2>4, <2>5, <2>6
<1>8. CASE f = Bootstrap /\ engine' = [engine EXCEPT !.keyed = TRUE] /\ UNCHANGED answers
  <2>1. /\ engine' \in [keyed : BOOLEAN, next : 0 .. MaxFrames, holds : MaybeCredential, closed : BOOLEAN]
        /\ engine'.next = engine.next /\ engine'.holds = engine.holds /\ engine'.closed = engine.closed
    BY <1>8, Reading
  <2>2. IpcTypeOK'
    BY <1>6, <1>8, <2>1, Wires
  <2>3. ASSUME Agreeing' PROVE Agreement'
    <3>1. Agreement
      BY <1>1, <2>1, <2>3 DEF IpcInv, Agreeing
    <3>2. /\ \A i \in DOMAIN outbox' : Current(outbox[i])'
          /\ \A i \in DOMAIN pipe' : Current(pipe[i])'
          /\ \A i \in DOMAIN buffer' : Old(buffer[i])'
          /\ \A i \in DOMAIN answers : Taken(answers[i], engine.next)
      BY <1>7, <2>1, <3>1, Reading
    <3>3. \A i \in DOMAIN answers' : Old(answers[i])'
      BY <1>8, <2>1, <3>2 DEF Old
    <3>4. (\/ engine.next = acked /\ engine.holds = lent
           \/ request # "none" /\ engine.next = acked + 1 /\ engine.holds = offer)'
      BY <1>1, <2>1, <3>1 DEF Agreement
    <3>. QED
      BY <3>2, <3>3, <3>4 DEF Agreement
  <2>. QED
    BY <1>4, <1>5, <2>2, <2>3 DEF IpcInv, LoanStep
<1>9. CASE f # Bootstrap /\ EngineAccepts(f)
  <2>1. /\ f.sequence = engine.next /\ Respond(<<Length, Ack(f.sequence)>>)
        /\ engine' = [engine EXCEPT !.next = @ + 1, !.holds = f.credential,
                                    !.closed = f.kind = "session_end"]
    BY <1>9 DEF EngineAccepts
  <2>2. /\ engine.next \in 0 .. MaxFrames - 1 /\ engine.next + 1 \in 0 .. MaxFrames
        /\ f.credential \in MaybeCredential
    BY <1>3, <1>9, <2>1, Parameters
  <2>3. /\ engine' \in [keyed : BOOLEAN, next : 0 .. MaxFrames, holds : MaybeCredential, closed : BOOLEAN]
        /\ engine'.next = engine.next + 1 /\ engine'.holds = f.credential
    BY <2>1, <2>2, Reading
  <2>4. Ack(engine.next) \in Parts /\ Taken(Ack(engine.next), engine.next + 1)
    BY <2>2, PartTypes, Reading DEF Taken
  <2>5. /\ <<Length, Ack(engine.next)>> \in Seq(Parts)
        /\ \A i \in DOMAIN <<Length, Ack(engine.next)>> :
             Taken(<<Length, Ack(engine.next)>>[i], engine.next + 1)
    BY <2>2, <2>4, PairTypes
  <2>6. /\ answers' \in Seq(Parts)
        /\ (\A i \in DOMAIN answers : Taken(answers[i], engine.next + 1))
             => \A i \in DOMAIN answers' : Taken(answers'[i], engine.next + 1)
    BY <2>1, <2>5, RespondTypes
  <2>7. IpcTypeOK'
    BY <1>6, <2>3, <2>6
  <2>8. ASSUME Agreeing' PROVE Agreement'
    <3>1. Agreement
      BY <1>1, <2>8 DEF IpcInv, Agreeing
    <3>2. /\ \A i \in DOMAIN outbox' : Current(outbox[i])'
          /\ \A i \in DOMAIN pipe' : Current(pipe[i])'
          /\ \A i \in DOMAIN buffer' : Old(buffer[i])'
          /\ \A i \in DOMAIN answers : Taken(answers[i], engine.next + 1)
      BY <1>7, <2>2, <2>3, <3>1, Reading
    <3>3. \A i \in DOMAIN answers' : Old(answers[i])'
      BY <2>3, <2>6, <3>2 DEF Old
    <3>4. request # "none" /\ engine.next = acked /\ f.credential = offer
      <4>1. Current(f)
        BY <1>2, <3>1 DEF Agreement
      <4>2. ~(f.sequence < engine.next)
        BY <2>1, <2>2
      <4>. QED
        BY <1>9, <2>1, <4>1, <4>2 DEF Current
    <3>5. (request # "none" /\ engine.next = acked + 1 /\ engine.holds = offer)'
      BY <1>1, <2>3, <3>4
    <3>. QED
      BY <3>2, <3>3, <3>5 DEF Agreement
  <2>. QED
    BY <1>4, <1>5, <2>7, <2>8 DEF IpcInv, LoanStep
<1>10. CASE EngineRefuses
  <2>1. /\ engine' = [engine EXCEPT !.holds = NoCredential, !.closed = TRUE]
        /\ Respond(<<Length, SessionError>>)
    BY <1>10 DEF EngineRefuses
  <2>2. /\ engine' \in [keyed : BOOLEAN, next : 0 .. MaxFrames, holds : MaybeCredential, closed : BOOLEAN]
        /\ engine'.closed
    BY <2>1, Reading DEF MaybeCredential
  <2>3. Length \in Parts /\ SessionError \in Parts
    BY PartTypes
  <2>4. <<Length, SessionError>> \in Seq(Parts)
    BY <2>3
  <2>5. answers' \in Seq(Parts)
    BY <2>1, <2>4, RespondTypes
  <2>. QED
    BY <1>4, <1>5, <1>6, <2>2, <2>5 DEF IpcInv, LoanStep, Agreeing
<1>. QED
  BY <1>1, <1>8, <1>9, <1>10

(* What the engine should not have sent acknowledges nothing in flight.    *)
LEMMA EngineStraysKeeps ==
  ASSUME IpcInv, EngineStrays
  PROVE  IpcInv' /\ LoanStep
<1>1. PICK parts \in Strays : Respond(parts)
  BY DEF EngineStrays
<1>2. UNCHANGED <<status, request, stage, offer, sequence, sending, secret, lent, acked, transport, outbox,
                  pipe, buffer, engine>>
  BY DEF EngineStrays, operation, ledger
<1>3. faults' \in 0 .. MaxFaults
  BY Reading, Parameters DEF EngineStrays, Faulty
<1>4. parts \in Seq(Parts) /\ \A i \in DOMAIN parts : Taken(parts[i], engine.next)
  <2>1. \A part \in {SessionError, OtherSession, Unauthentic, Malformed, Length, TooLong} :
          part \in Parts /\ Taken(part, engine.next)
    BY PartTypes DEF Taken
  <2>2. \A n \in 0 .. engine.next - 1 : Ack(n) \in Parts /\ Taken(Ack(n), engine.next)
    <3>1. \A n \in 0 .. engine.next - 1 : n \in 0 .. MaxFrames - 1 /\ n < engine.next
      BY Reading, Parameters
    <3>. QED
      BY <3>1, PartTypes DEF Taken
  <2>3. \/ parts = <<TooLong>> \/ parts = <<Length>>
        \/ \E part \in Parts : parts = <<Length, part>> /\ Taken(part, engine.next)
    <3>1. CASE parts \in {<<TooLong>>, <<Length>>, <<Length, Unauthentic>>}
      BY <2>1, <3>1
    <3>2. CASE parts \in {<<Length, part>> : part \in {Malformed, OtherSession, SessionError}}
      BY <2>1, <3>2
    <3>3. CASE parts \in {<<Length, Ack(n)>> : n \in 0 .. engine.next - 1}
      BY <2>2, <3>3
    <3>. QED
      BY <3>1, <3>2, <3>3 DEF Strays
  <2>4. CASE parts = <<TooLong>> \/ parts = <<Length>>
    <3>1. PICK part \in Parts : parts = <<part>> /\ Taken(part, engine.next)
      BY <2>1, <2>4
    <3>. QED
      BY <3>1
  <2>5. CASE \E part \in Parts : parts = <<Length, part>> /\ Taken(part, engine.next)
    BY <2>5, PairTypes, Reading
  <2>. QED
    BY <2>3, <2>4, <2>5
<1>5. /\ answers' \in Seq(Parts)
      /\ (\A i \in DOMAIN answers : Taken(answers[i], engine.next))
           => \A i \in DOMAIN answers' : Taken(answers'[i], engine.next)
  BY <1>1, <1>4, RespondTypes
<1>6. IpcTypeOK'
  BY <1>2, <1>3, <1>5 DEF IpcInv, IpcTypeOK
<1>7. Order'
  BY <1>2 DEF IpcInv, Order
<1>8. ASSUME Agreeing' PROVE Agreement'
  <2>1. Agreement
    BY <1>2, <1>8 DEF IpcInv, Agreeing
  <2>2. \A i \in DOMAIN answers' : Old(answers[i])'
    BY <1>2, <1>5, <2>1 DEF Agreement, Old
  <2>. QED
    BY <1>2, <2>1, <2>2 DEF Agreement, Current, Old
<1>9. UNCHANGED Loan!loan
  BY <1>2 DEF Loan!loan
<1>. QED
  BY <1>6, <1>7, <1>8, <1>9 DEF IpcInv, LoanStep

(* An engine that closes its end agrees on nothing any more.               *)
LEMMA EngineClosesKeeps ==
  ASSUME IpcInv, EngineCloses
  PROVE  IpcInv' /\ LoanStep
<1>1. /\ engine' = [engine EXCEPT !.holds = NoCredential, !.closed = TRUE]
      /\ UNCHANGED <<status, request, stage, offer, sequence, sending, secret, lent, acked, transport,
                     outbox, answers, pipe, buffer, faults>>
  BY DEF EngineCloses, operation, ledger, wires, streams
<1>2. /\ engine' \in [keyed : BOOLEAN, next : 0 .. MaxFrames, holds : MaybeCredential, closed : BOOLEAN]
      /\ engine'.closed
  BY <1>1, Reading DEF MaybeCredential
<1>3. IpcTypeOK'
  BY <1>1, <1>2 DEF IpcInv, IpcTypeOK
<1>4. Order' /\ ~Agreeing'
  BY <1>1, <1>2 DEF IpcInv, Order, Agreeing
<1>5. UNCHANGED Loan!loan
  BY <1>1 DEF Loan!loan
<1>. QED
  BY <1>3, <1>4, <1>5 DEF IpcInv, LoanStep

(* A step that changes nothing keeps the invariant.                        *)
LEMMA StutteringKeeps ==
  ASSUME IpcInv, UNCHANGED ipcVars
  PROVE  IpcInv' /\ LoanStep
<1>1. UNCHANGED <<status, request, stage, offer, sequence, sending, secret, lent, acked, transport,
                  outbox, answers, pipe, buffer, engine, faults>>
  BY DEF ipcVars, operation, ledger, wires, streams
<1>2. IpcTypeOK' /\ Order'
  BY <1>1 DEF IpcInv, IpcTypeOK, Order
<1>3. Agreeing' => Agreement'
  BY <1>1 DEF IpcInv, Agreeing, Agreement, Current, Old
<1>4. UNCHANGED Loan!loan
  BY <1>1 DEF Loan!loan
<1>. QED
  BY <1>2, <1>3, <1>4 DEF IpcInv, LoanStep

-----------------------------------------------------------------------------
(* A session that was not opened yet.                                      *)
LEMMA IpcStarts ==
  ASSUME IpcInit
  PROVE  IpcInv /\ Loan!Init
<1>1. engine = NewEngine /\ engine.next = 0 /\ engine.holds = NoCredential
  BY DEF IpcInit, NewEngine
<1>2. engine \in [keyed : BOOLEAN, next : 0 .. MaxFrames, holds : MaybeCredential, closed : BOOLEAN]
  BY <1>1, Parameters DEF NewEngine, MaybeCredential
<1>3. /\ <<>> \in Seq(Frames) /\ <<>> \in Seq(Parts) /\ Len(<<>>) = 0 /\ 0 <= MaxBuffered
      /\ 0 \in 0 .. MaxFrames - 1 /\ 0 \in 0 .. MaxFrames /\ 0 \in 0 .. MaxFaults
  BY Parameters
<1>4. IpcTypeOK
  <2>1. /\ status = "none" /\ request = "none" /\ stage = "idle" /\ sending = FALSE
        /\ secret = "none" /\ transport = "open"
    BY DEF IpcInit
  <2>2. /\ sequence \in 0 .. MaxFrames - 1 /\ acked \in 0 .. MaxFrames /\ faults \in 0 .. MaxFaults
        /\ offer \in MaybeCredential /\ lent \in MaybeCredential
    BY <1>3 DEF IpcInit, MaybeCredential
  <2>3. /\ outbox \in Seq(Frames) /\ Len(outbox) <= 1 /\ pipe \in Seq(Frames)
        /\ answers \in Seq(Parts) /\ buffer \in Seq(Parts) /\ Len(buffer) <= MaxBuffered
    BY <1>3 DEF IpcInit
  <2>. QED
    BY <1>2, <2>1, <2>2, <2>3 DEF IpcTypeOK
<1>5. Order
  BY DEF IpcInit, Order
<1>6. Agreement
  BY <1>1 DEF IpcInit, Agreement
<1>7. Loan!Init
  BY DEF IpcInit, Loan!Init
<1>. QED
  BY <1>4, <1>5, <1>6, <1>7 DEF IpcInv

(* Every step of the session keeps the invariant and is a step of the loan.*)
LEMMA IpcSteps ==
  ASSUME IpcInv, [IpcNext]_ipcVars
  PROVE  IpcInv' /\ LoanStep
<1>1. CASE Launcher
  <2>1. CASE WriteFails \/ PeerClosed \/ Deadline
    BY <2>1, EndingsKeep
  <2>2. CASE BootstrapWritten
    BY <2>2, BootstrapWrittenKeeps
  <2>3. CASE FrameWritten
    BY <2>3, FrameWrittenKeeps
  <2>4. CASE \E k \in 1 .. Len(answers) : Receive(k)
    BY <2>4, ReceiveKeeps
  <2>. QED
    BY <1>1, <2>1, <2>2, <2>3, <2>4 DEF Launcher
<1>2. CASE Owner
  <2>1. CASE \E c \in MaybeCredential : Open(c)
    BY <2>1, OpenKeeps
  <2>2. CASE OpenThrows
    BY <2>2, OpenThrowsKeeps
  <2>3. CASE \E kind \in Continuations, c \in MaybeCredential :
               SendContinuation(kind, c) \/ ContinuationThrows(kind, c)
    BY <2>3, SendContinuationKeeps, ContinuationThrowsKeeps
  <2>4. CASE LimitExceeded \/ EndWhileSending \/ Abort
    BY <2>4, EndingsKeep
  <2>. QED
    BY <1>2, <2>1, <2>2, <2>3, <2>4 DEF Owner
<1>3. CASE Engine
  BY <1>3, FlushKeeps, EngineReadsKeeps, EngineStraysKeeps, EngineClosesKeeps DEF Engine
<1>4. CASE UNCHANGED ipcVars
  BY <1>4, StutteringKeeps
<1>. QED
  BY <1>1, <1>2, <1>3, <1>4 DEF IpcNext

(* The invariant the rest follows from: the requests follow each other,    *)
(* and what is on the wires is of the request in flight, or old.           *)
THEOREM IpcInvariant == IpcSpec => []IpcInv
<1>1. IpcInit => IpcInv
  BY IpcStarts
<1>2. IpcInv /\ [IpcNext]_ipcVars => IpcInv'
  BY IpcSteps
<1>. QED
  BY <1>1, <1>2, PTL DEF IpcSpec

(* Every variable of the session has its type: no response queue outgrows  *)
(* its limit and no sequence number passes the last frame, whatever the    *)
(* engine sends (ResponseFrameQueue, sendContinuation).                    *)
THEOREM IpcTypeCorrect == IpcSpec => []IpcTypeOK
<1>1. IpcInv => IpcTypeOK
  BY DEF IpcInv
<1>. QED
  BY <1>1, IpcInvariant, PTL

(* Between requests the engine holds the token of the last one that was    *)
(* acknowledged, for any number of requests and faults                     *)
(* (sendContinuation, expectAcknowledgement).                              *)
THEOREM IpcEngineAgrees == IpcSpec => []EngineAgrees
<1>1. IpcInv => EngineAgrees
  BY DEF IpcInv, Agreeing, Agreement, EngineAgrees, Quiet
<1>. QED
  BY <1>1, IpcInvariant, PTL

(* The safety of the refinement: the session starts as a loan, and each of *)
(* its steps is a step of the loan or none (LauncherIpcSession).           *)
THEOREM IpcIsALoan == IpcSpec => Loan!Init /\ [][Loan!Next]_(Loan!loan)
<1>1. IpcInit => Loan!Init
  BY IpcStarts
<1>2. IpcInv /\ [IpcNext]_ipcVars => [Loan!Next]_(Loan!loan)
  BY IpcSteps DEF LoanStep
<1>. QED
  BY <1>1, <1>2, IpcInvariant, PTL DEF IpcSpec
=============================================================================
