---------------------------- MODULE EventStream -----------------------------
(***************************************************************************)
(* What the consumer of Receive() is promised: the events come in the      *)
(* order emit accepted them, none twice and none skipped; after the stream *)
(* ended nothing comes any more.  Events accepted shortly before the end   *)
(* may be missing at the end, never in the middle.                         *)
(***************************************************************************)
EXTENDS Naturals, Sequences

VARIABLES sent,            \* the events accepted so far, in order
          got,             \* the events the consumer received
          ended            \* the consumer saw the channel closed

esVars == <<sent, got, ended>>

Init == sent = <<>> /\ got = <<>> /\ ended = FALSE

\* emit returns true for one more event, whatever it is.
Accept ==
    /\ Len(sent') = Len(sent) + 1
    /\ \A i \in 1 .. Len(sent) : sent'[i] = sent[i]
    /\ UNCHANGED <<got, ended>>

\* The consumer receives the next event.
Deliver ==
    /\ ~ended
    /\ Len(got) < Len(sent)
    /\ got' = Append(got, sent[Len(got) + 1])
    /\ UNCHANGED <<sent, ended>>

\* The consumer finds the channel closed.
End ==
    /\ ended' = TRUE
    /\ UNCHANGED <<sent, got>>

Next == Accept \/ Deliver \/ End

Spec == Init /\ [][Next]_esVars
=============================================================================
