------------------------------ MODULE LauncherIpc ------------------------------
(***************************************************************************)
(* The session in which the launcher lends an access token to the engine   *)
(* over two inherited pipes (privacy/launcher-ipc.ts, node-transport.ts):  *)
(* bootstrap and session_start, then updates, clears and the end, one      *)
(* request at a time, each under a deadline, each answered in its turn.    *)
(* A request's deadline, the abort of the owner and the engine's answer    *)
(* race; Node runs one callback at a time, with all that resolves because  *)
(* of it, so a callback is one action.  The engine is external.            *)
(***************************************************************************)
EXTENDS Naturals, Sequences, FiniteSets

CONSTANTS
  Credentials,   \* the access tokens that may be lent
  NoCredential,
  MaxFrames,     \* LAUNCHER_IPC_MAX_FRAMES
  MaxBuffered,   \* what the response queue holds, in parts of a response
  MaxFaults      \* bound on failing calls and on what the engine should not send

ASSUME IpcAssumption ==
  /\ NoCredential \notin Credentials /\ "nothing" \notin Credentials \union {NoCredential}
  /\ MaxFrames \in Nat \ {0} /\ MaxBuffered \in Nat \ {0} /\ MaxFaults \in Nat

VARIABLES
  status,      \* of the session
  request,     \* the kind of the request in flight, or "none"
  stage,       \* what that request awaits
  sequence,
  sending,
  secret,      \* the session's HMAC key
  offer,       \* the credential of the last request
  lent,        \* the credential of the last request that was acknowledged
  acked,       \* how many requests were acknowledged
  transport,   \* the launcher's ends of the pipes
  outbox,      \* the write the stream has not passed on yet
  pipe,        \* frames on their way to the engine
  answers,     \* parts of responses on their way to the launcher
  buffer,      \* the response queue
  engine,
  faults

operation == <<request, stage, offer>>
ledger == <<lent, acked>>
streams == <<transport, outbox, answers>>
wires == <<streams, pipe, buffer>>
ipcVars == <<status, operation, sequence, sending, secret, ledger, wires, engine, faults>>

MaybeCredential == Credentials \union {NoCredential}
Continuations == {"credential_update", "credential_clear", "session_end"}
Kinds == {"session_start"} \union Continuations

Bootstrap == [kind |-> "bootstrap", sequence |-> 0, credential |-> NoCredential,
              key |-> "live"]
Frames ==
  {Bootstrap} \union
  [kind : Kinds, sequence : 0 .. MaxFrames - 1, credential : MaybeCredential, key : {"live", "zeroed"}]

(* A response arrives in two parts, a length and an authenticated body, or *)
(* with a length over the limits.                                          *)
Ack(n) == [type |-> "session_ack", session |-> "this", sequence |-> n]
SessionError == [type |-> "session_error", session |-> "none", sequence |-> 0]
OtherSession == [type |-> "session_ack", session |-> "other", sequence |-> 0]
Unauthentic == [type |-> "bad tag", session |-> "none", sequence |-> 0]
Malformed == [type |-> "malformed", session |-> "none", sequence |-> 0]
Length == [type |-> "length", session |-> "none", sequence |-> 0]
TooLong == [type |-> "too long", session |-> "none", sequence |-> 0]
Acks == {Ack(n) : n \in 0 .. MaxFrames - 1}
Parts == Acks \union {SessionError, OtherSession, Unauthentic, Malformed, Length, TooLong}

NewEngine == [keyed |-> FALSE, next |-> 0, holds |-> NoCredential, closed |-> FALSE]

IpcTypeOK ==
  /\ status \in {"none", "abandoned", "opening", "open", "disposed"}
  /\ request \in Kinds \union {"none"}
  /\ stage \in {"idle", "bootstrap", "frame", "answer"}
  /\ (request = "none") <=> (stage = "idle")
  /\ sequence \in 0 .. MaxFrames - 1 /\ acked \in 0 .. MaxFrames
  /\ sending \in BOOLEAN
  /\ secret \in {"none", "live", "zeroed"}
  /\ offer \in MaybeCredential /\ lent \in MaybeCredential
  /\ transport \in {"open", "closed"}
  /\ outbox \in Seq(Frames) /\ Len(outbox) <= 1
  /\ pipe \in Seq(Frames)
  /\ answers \in Seq(Parts)
  /\ buffer \in Seq(Parts) /\ Len(buffer) <= MaxBuffered
  /\ engine \in [keyed : BOOLEAN, next : 0 .. MaxFrames, holds : MaybeCredential, closed : BOOLEAN]
  /\ faults \in 0 .. MaxFaults

IpcInit ==
  /\ status = "none"
  /\ request = "none" /\ stage = "idle" /\ offer = NoCredential
  /\ sequence = 0 /\ sending = FALSE
  /\ secret = "none"
  /\ lent = NoCredential /\ acked = 0
  /\ transport = "open"
  /\ outbox = <<>> /\ pipe = <<>> /\ answers = <<>> /\ buffer = <<>>
  /\ engine = NewEngine
  /\ faults = 0

Faulty == faults < MaxFaults /\ faults' = faults + 1

-----------------------------------------------------------------------------
(* Closing drops what the streams hold; what is in the pipe can be read.   *)
CloseTransport == transport' = "closed" /\ outbox' = <<>> /\ answers' = <<>>

WrongDisposeKeepsTransport ==
  /\ status' = "disposed"
  /\ request' = "none" /\ stage' = "idle" /\ sending' = FALSE
  /\ secret' = IF secret = "none" THEN "none" ELSE "zeroed"
  /\ buffer' = <<>>
  /\ UNCHANGED streams

(* dispose: the key is zeroed, the queue cleared and the transport closed. *)
(* A request in flight is aborted, and its promise rejects as CANCELLED.   *)
Dispose ==
  /\ status' = "disposed"
  /\ request' = "none" /\ stage' = "idle" /\ sending' = FALSE
  /\ secret' = IF secret = "none" THEN "none" ELSE "zeroed"
  /\ buffer' = <<>>
  /\ CloseTransport

(* A request that fails, for whatever reason, ends the session.            *)
Fail == Dispose /\ UNCHANGED <<sequence, offer, ledger, pipe, engine>>

Frame(kind, n, c) == [kind |-> kind, sequence |-> n, credential |-> c, key |-> secret]

(* openLauncherIpcSession up to its first await: the bootstrap is written. *)
Open(c) ==
  /\ status = "none"
  /\ status' = "opening"
  /\ request' = "session_start" /\ stage' = "bootstrap" /\ offer' = c
  /\ secret' = "live"
  /\ outbox' = <<Bootstrap>>
  /\ UNCHANGED <<sequence, sending, ledger, transport, pipe, answers, buffer, engine, faults>>

(* The nonce cannot be drawn: the throw leaves the key and the listener    *)
(* for the owner's abort behind.                                           *)
OpenThrows ==
  /\ status = "none"
  /\ Faulty
  /\ status' = "abandoned"
  /\ secret' = "live"
  /\ UNCHANGED <<operation, sequence, sending, ledger, wires, engine>>

WrongAcceptsAnySequence(queue) ==
  queue[1] = Length /\ queue[2].type = "session_ack" /\ queue[2].session = "this"

(* readResponse and expectAcknowledgement on what the queue begins with.   *)
Complete(queue) == queue # <<>> /\ (queue[1] = TooLong \/ Len(queue) > 1)
Accepts(queue) == queue[1] = Length /\ queue[2] = Ack(sequence)

Acknowledged(queue, unread) ==
  /\ lent' = offer /\ acked' = acked + 1
  /\ IF request = "session_end"
       THEN Dispose
       ELSE /\ status' = "open"
            /\ request' = "none" /\ stage' = "idle" /\ sending' = FALSE
            /\ buffer' = SubSeq(queue, 3, Len(queue)) /\ answers' = unread
            /\ UNCHANGED <<secret, transport, outbox>>
  /\ UNCHANGED <<sequence, offer, pipe, engine>>

(* The queue holds these parts, and more may be unread: a response that is *)
(* complete settles the request, and without one the next read is awaited. *)
Await(queue, unread) ==
  IF Complete(queue)
    THEN IF Accepts(queue) THEN Acknowledged(queue, unread) ELSE Fail
    ELSE /\ stage' = "answer" /\ buffer' = queue /\ answers' = unread
         /\ UNCHANGED <<status, request, offer, sequence, sending, secret, ledger, transport, outbox,
                        pipe, engine>>

(* The stream's callback: after the bootstrap session_start is written.    *)
BootstrapWritten ==
  /\ stage = "bootstrap" /\ outbox = <<>>
  /\ outbox' = <<Frame("session_start", 0, offer)>>
  /\ stage' = "frame"
  /\ UNCHANGED <<status, request, offer, sequence, sending, secret, ledger, transport, pipe,
                 answers, buffer, engine, faults>>

(* After a frame the response is awaited; one that came early is there.    *)
FrameWritten ==
  /\ stage = "frame" /\ outbox = <<>>
  /\ Await(buffer, answers)
  /\ UNCHANGED faults

WriteFails ==
  /\ stage \in {"bootstrap", "frame"}
  /\ IF engine.closed THEN UNCHANGED faults ELSE Faulty
  /\ Fail

(* The readable event, with any number of parts.                           *)
Receive(k) ==
  /\ stage = "answer" /\ k <= Len(answers)
  /\ LET queue == buffer \o SubSeq(answers, 1, k) IN
       IF Len(queue) > MaxBuffered THEN Fail ELSE Await(queue, SubSeq(answers, k + 1, Len(answers)))
  /\ UNCHANGED faults

PeerClosed ==
  /\ stage = "answer" /\ answers = <<>> /\ engine.closed
  /\ Fail
  /\ UNCHANGED faults

WrongDeadlineForAnswersOnly ==
  /\ stage = "answer"
  /\ Fail
  /\ UNCHANGED faults

(* The timer that withinDeadline sets for the whole of a request.          *)
Deadline ==
  /\ request # "none"
  /\ Fail
  /\ UNCHANGED faults

(* The owner disposes, or its signal aborts.                               *)
Abort ==
  /\ status \in {"abandoned", "opening", "open"}
  /\ Fail
  /\ UNCHANGED faults

-----------------------------------------------------------------------------
Carries(kind, c) == (kind = "credential_update") <=> (c # NoCredential)

WrongSendContinuationPastLimit(kind, c) ==
  /\ status = "open" /\ ~sending
  /\ sequence + 1 <= MaxFrames
  /\ Carries(kind, c)
  /\ sending' = TRUE
  /\ sequence' = sequence + 1
  /\ request' = kind /\ stage' = "frame" /\ offer' = c
  /\ outbox' = <<Frame(kind, sequence + 1, c)>>
  /\ UNCHANGED <<status, secret, ledger, transport, pipe, answers, buffer, engine, faults>>

(* sendContinuation up to its first await.                                 *)
SendContinuation(kind, c) ==
  /\ status = "open" /\ ~sending
  /\ sequence + 1 < MaxFrames
  /\ Carries(kind, c)
  /\ sending' = TRUE
  /\ sequence' = sequence + 1
  /\ request' = kind /\ stage' = "frame" /\ offer' = c
  /\ outbox' = <<Frame(kind, sequence + 1, c)>>
  /\ UNCHANGED <<status, secret, ledger, transport, pipe, answers, buffer, engine, faults>>

(* The nonce is drawn after sending is set and before the try that resets  *)
(* it; only end() disposes.                                                *)
ContinuationThrows(kind, c) ==
  /\ status = "open" /\ ~sending
  /\ sequence + 1 < MaxFrames
  /\ Carries(kind, c)
  /\ Faulty
  /\ IF kind = "session_end"
       THEN Dispose
       ELSE sending' = TRUE /\ UNCHANGED <<status, request, stage, secret, streams, buffer>>
  /\ sequence' = sequence + 1
  /\ UNCHANGED <<offer, ledger, pipe, engine>>

LimitExceeded ==
  /\ status = "open" /\ ~sending
  /\ sequence + 1 >= MaxFrames
  /\ Fail
  /\ UNCHANGED faults

(* end() while a request is in flight is refused, and disposes.            *)
EndWhileSending ==
  /\ status = "open" /\ sending
  /\ Fail
  /\ UNCHANGED faults

-----------------------------------------------------------------------------
(* The pipe takes what the stream wrote.                                   *)
Flush ==
  /\ outbox # <<>> /\ ~engine.closed
  /\ pipe' = Append(pipe, Head(outbox))
  /\ outbox' = <<>>
  /\ UNCHANGED <<status, operation, sequence, sending, secret, ledger, transport, answers,
                 buffer, engine, faults>>

(* A response reaches a launcher that has not closed its end.              *)
Respond(parts) == answers' = IF transport = "closed" THEN <<>> ELSE answers \o parts

EngineAccepts(f) ==
  /\ engine.keyed /\ f.key = "live" /\ f.sequence = engine.next
  /\ engine' = [engine EXCEPT !.next = @ + 1, !.holds = f.credential,
                              !.closed = f.kind = "session_end"]
  /\ Respond(<<Length, Ack(f.sequence)>>)

EngineRefuses ==
  /\ engine' = [engine EXCEPT !.holds = NoCredential, !.closed = TRUE]
  /\ Respond(<<Length, SessionError>>)

EngineReads ==
  /\ pipe # <<>> /\ ~engine.closed
  /\ pipe' = Tail(pipe)
  /\ IF Head(pipe) = Bootstrap
       THEN engine' = [engine EXCEPT !.keyed = TRUE] /\ UNCHANGED answers
       ELSE EngineAccepts(Head(pipe)) \/ EngineRefuses
  /\ UNCHANGED <<status, operation, sequence, sending, secret, ledger, transport, outbox, buffer,
                 faults>>

(* What an engine out of order may send at any time: with the key, also    *)
(* what authenticates, and acknowledgements that it has given before.      *)
Strays ==
  {<<TooLong>>, <<Length>>, <<Length, Unauthentic>>} \union
  (IF engine.keyed
     THEN {<<Length, part>> : part \in {Malformed, OtherSession, SessionError}} \union
          {<<Length, Ack(n)>> : n \in 0 .. engine.next - 1}
     ELSE {})

EngineStrays ==
  /\ status # "none" /\ transport = "open" /\ ~engine.closed
  /\ Faulty
  /\ \E parts \in Strays : Respond(parts)
  /\ UNCHANGED <<status, operation, sequence, sending, secret, ledger, transport, outbox, pipe,
                 buffer, engine>>

(* The engine exits, at once or when it reads the end of its pipe.         *)
EngineCloses ==
  /\ ~engine.closed
  /\ engine' = [engine EXCEPT !.holds = NoCredential, !.closed = TRUE]
  /\ UNCHANGED <<status, operation, sequence, sending, secret, ledger, wires, faults>>

EngineSeesEnd ==
  /\ transport = "closed" /\ pipe = <<>>
  /\ EngineCloses

-----------------------------------------------------------------------------
Launcher ==
  \/ BootstrapWritten \/ FrameWritten \/ WriteFails \/ PeerClosed \/ Deadline
  \/ \E k \in 1 .. Len(answers) : Receive(k)

Owner ==
  \/ \E c \in MaybeCredential : Open(c)
  \/ OpenThrows
  \/ \E kind \in Continuations, c \in MaybeCredential :
       SendContinuation(kind, c) \/ ContinuationThrows(kind, c)
  \/ LimitExceeded \/ EndWhileSending \/ Abort

Engine == Flush \/ EngineReads \/ EngineStrays \/ EngineCloses

IpcNext == Launcher \/ Owner \/ Engine

(* A timer fires, and the engine reads its pipe to the end.                *)
IpcSpec ==
  /\ IpcInit /\ [][IpcNext]_ipcVars
  /\ WF_ipcVars(Deadline) /\ WF_ipcVars(EngineReads) /\ WF_ipcVars(EngineSeesEnd)

-----------------------------------------------------------------------------
Quiet == status = "open" /\ request = "none"

(* EngineAgrees: whenever no request is in flight, an engine that only     *)
(* acknowledges what it took - be it more than once, or among answers that *)
(* it should not give - holds the token of the last request whose call     *)
(* resolved, and none after a clear; a call that failed has ended the      *)
(* session (sendContinuation, expectAcknowledgement).                      *)
EngineAgrees ==
  Quiet /\ ~engine.closed => engine.holds = lent /\ engine.next = acked

(* Recalled: whatever ends the session takes the token back, because the   *)
(* engine reads the end of its pipe (dispose closes the transport).        *)
Recalled == (status = "disposed") ~> (engine.holds = NoCredential)

(* ImplementsLoan: the session is a loan of one credential at a time that  *)
(* is settled in bounded time and ends for good.                           *)
Loan == INSTANCE CredentialLoan WITH
  Terms <- MaybeCredential,
  Nothing <- "nothing",
  offered <- IF request = "none" THEN "nothing" ELSE offer,
  lent <- IF acked = 0 THEN "nothing" ELSE lent,
  ended <- status = "disposed"

ImplementsLoan == Loan!Spec
=============================================================================
