---------------------------- MODULE CredentialLoan ----------------------------
(***************************************************************************)
(* What a launcher session promises its owner, without a word of frames:   *)
(* one credential at a time is offered to the engine; the owner learns     *)
(* that it was taken only by an answer to that very offer; an offer is     *)
(* settled in bounded time, by the answer or by the end of the loan; and   *)
(* after the end nothing is offered again.                                 *)
(***************************************************************************)
CONSTANTS Terms, Nothing   \* what may be offered; no offer

VARIABLES
  offered,     \* the offer without an answer, or Nothing
  lent,        \* the last one answered
  ended

loan == <<offered, lent, ended>>

Init == offered = Nothing /\ lent = Nothing /\ ended = FALSE

Offer(c) ==
  /\ ~ended /\ offered = Nothing
  /\ offered' = c
  /\ UNCHANGED <<lent, ended>>

(* The engine's answer; after the last offer the loan ends with it.        *)
Answer ==
  /\ offered # Nothing
  /\ lent' = offered
  /\ offered' = Nothing
  /\ ended' \in BOOLEAN

End ==
  /\ ended' = TRUE
  /\ offered' = Nothing
  /\ UNCHANGED lent

Settle == offered # Nothing /\ (Answer \/ End)

Next == (\E c \in Terms : Offer(c)) \/ Answer \/ End

Spec == Init /\ [][Next]_loan /\ WF_loan(Settle)
=============================================================================
