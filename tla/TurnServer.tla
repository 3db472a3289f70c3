----------------------------- MODULE TurnServer -----------------------------
(***************************************************************************)
(* What ClaudeAdapter promises the caller of Send: a message is accepted   *)
(* at most once, the accepted messages are served one turn at a time, a    *)
(* turn serves one or more of the messages that were waiting, and a        *)
(* message that was dropped by Cancel or Stop is never served.             *)
(* It says nothing of goroutines, locks or contexts: RunLoop does, and is  *)
(* shown to implement this specification.                                  *)
(***************************************************************************)
CONSTANT Msgs              \* the messages callers may send

VARIABLES waiting,         \* accepted, not yet part of a turn
          current,         \* the messages of the turn being served
          finished,        \* the messages of the turns that are over
          dropped          \* accepted, and cancelled before a turn took them

tsVars == <<waiting, current, finished, dropped>>

Seen == waiting \cup current \cup finished \cup dropped

Init == waiting = {} /\ current = {} /\ finished = {} /\ dropped = {}

\* A caller hands over a message that was never accepted before.
Accept(m) ==
    /\ m \notin Seen
    /\ waiting' = waiting \cup {m}
    /\ UNCHANGED <<current, finished, dropped>>

\* A turn begins with some of the waiting messages, never beside another turn.
Begin(S) ==
    /\ current = {}
    /\ S # {}
    /\ current' = S
    /\ waiting' = waiting \ S
    /\ UNCHANGED <<finished, dropped>>

\* The turn is over.
Finish ==
    /\ current # {}
    /\ finished' = finished \cup current
    /\ current' = {}
    /\ UNCHANGED <<waiting, dropped>>

\* Waiting messages are given up; the turn being served is not undone.
Drop(S) ==
    /\ waiting' = waiting \ S
    /\ dropped' = dropped \cup S
    /\ UNCHANGED <<current, finished>>

Next ==
    \/ \E m \in Msgs : Accept(m)
    \/ \E S \in SUBSET waiting : Begin(S) \/ Drop(S)
    \/ Finish

Spec == Init /\ [][Next]_tsVars

-----------------------------------------------------------------------------
\* A message is in one place at a time, so it is served at most once, and one
\* that was dropped is never served.
OnePlace ==
    /\ waiting \cap (current \cup finished \cup dropped) = {}
    /\ current \cap (finished \cup dropped) = {}
    /\ finished \cap dropped = {}
=============================================================================
