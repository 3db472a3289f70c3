------------------------------ MODULE RunLoop -------------------------------
(***************************************************************************)
(* Message intake and turn scheduling of ClaudeAdapter (claude.go): Send,  *)
(* Cancel, Stop, a successful Start, and the runLoop goroutine that Send   *)
(* spawns.  Every action is one critical section of c.mu, or one step of   *)
(* a goroutine outside it; callers and goroutines interleave freely.       *)
(*                                                                         *)
(* A message is the number of the Send call that carried it, counted in    *)
(* the order in which the calls took c.mu.  A runLoop goroutine has the    *)
(* number of the message whose Send spawned it.  A turn's context has the  *)
(* number of the first message of the turn.                                *)
(* What a turn does with the CLI is left to Adapter: here a turn           *)
(* (runClaude) begins, lasts, and ends.                                    *)
(***************************************************************************)
EXTENDS Naturals, Sequences, Functions

CONSTANTS MaxSends,        \* bound: Send calls considered
          MaxQueue,        \* maxQueueSize (100 in the code)
          MaxStarts        \* bound: successful Start calls considered

ASSUME RunLoopAssumption ==
    /\ MaxSends \in Nat
    /\ MaxQueue \in Nat \ {0}
    /\ MaxStarts \in Nat

Msgs  == 1 .. MaxSends
Lives == 1 .. MaxStarts
None  == 0                 \* a nil runCancel

VARIABLES
    status,                \* c.status
    life,                  \* how many times Start succeeded
    sent,                  \* how many Send calls were made
    running, queue,        \* c.running, c.queue
    runCancel,             \* the context that c.runCancel cancels, or None
    pc,                    \* where each runLoop goroutine stands
    turn,                  \* the messages combined in its msg variable
    cancelled,             \* the contexts that are done
    stop,                  \* the Stop call that ended each life
    fate,                  \* history: what became of each message
    doomed                 \* history: cancelled before their turn began

loopVars == <<running, queue, runCancel, pc, turn, cancelled>>
vars == <<status, life, sent, running, queue, runCancel, pc, turn, cancelled,
          stop, fate, doomed>>

\* runLoop: "begin" enters runClaude, "turn" is inside it, "drain" is about to
\* look at the queue, "release" has left the loop but still owns running,
\* "wgDone" has given running back, "gone" has returned.
Places == {"none", "begin", "turn", "drain", "release", "wgDone", "gone"}

\* The goroutines between the start of runLoop and its deferred running = false.
Owners == {l \in Msgs : pc[l] \in {"begin", "turn", "drain", "release"}}

\* if c.runCancel != nil { c.runCancel() }
RunCancelled == cancelled \cup ({runCancel} \ {None})

\* The goroutines that have not come to wg.Done.
Live == {l \in Msgs : pc[l] \notin {"none", "gone"}}

\* The messages whose turn is assembled and whose context is not yet checked.
AboutToBegin == UNION {Range(turn[l]) : l \in {k \in Msgs : pc[k] = "begin"}}

Waiting == Range(queue) \cup AboutToBegin

Init ==
    /\ status = "idle" /\ life = 0 /\ sent = 0
    /\ running = FALSE /\ queue = <<>> /\ runCancel = None
    /\ pc = [l \in Msgs |-> "none"]
    /\ turn = [l \in Msgs |-> <<>>]
    /\ cancelled = {}
    /\ stop = [k \in Lives |-> "none"]
    /\ fate = [m \in Msgs |-> "none"]
    /\ doomed = {}

-----------------------------------------------------------------------------
(* The calls of the user of the adapter.                                   *)

\* Mutant: Start forgets what the previous life left running.
Start_ResetsRunning ==
    /\ status # "running" /\ life < MaxStarts
    /\ life' = life + 1 /\ status' = "running" /\ running' = FALSE
    /\ UNCHANGED <<sent, queue, runCancel, pc, turn, cancelled, stop, fate,
                   doomed>>

\* Start connects, with a relay and a forwarder of transport errors beside the
\* run loops, and the adapter accepts messages.
\* Neither running nor the queue is reset: they are what the previous life left.
Start ==
    /\ status # "running"
    /\ life < MaxStarts
    /\ life' = life + 1
    /\ status' = "running"
    /\ UNCHANGED <<sent, stop, fate, doomed, loopVars>>

\* Send returns ErrAdapterNotRunning or ErrQueueFull.
SendRefused ==
    /\ sent < MaxSends
    /\ \/ status # "running"
       \/ running /\ Len(queue) >= MaxQueue
    /\ sent' = sent + 1
    /\ fate' = [fate EXCEPT ![sent + 1] = "refused"]
    /\ UNCHANGED <<status, life, stop, doomed, loopVars>>

\* Mutant: the length check of the queue is missing.
SendQueues_NoLimit ==
    /\ sent < MaxSends /\ status = "running" /\ running
    /\ sent' = sent + 1 /\ queue' = Append(queue, sent + 1)
    /\ UNCHANGED <<status, life, running, runCancel, pc, turn, cancelled,
                   stop, fate, doomed>>

\* Mutant: the message is put at the front.
SendQueues_Front ==
    /\ sent < MaxSends /\ status = "running" /\ running
    /\ Len(queue) < MaxQueue
    /\ sent' = sent + 1 /\ queue' = <<sent + 1>> \o queue
    /\ UNCHANGED <<status, life, running, runCancel, pc, turn, cancelled,
                   stop, fate, doomed>>

\* Send finds a run loop: the message is left for it in the queue.
SendQueues ==
    /\ sent < MaxSends
    /\ status = "running"
    /\ running
    /\ Len(queue) < MaxQueue
    /\ sent' = sent + 1
    /\ queue' = Append(queue, sent + 1)
    /\ UNCHANGED <<status, life, running, runCancel, pc, turn, cancelled,
                   stop, fate, doomed>>

\* Send finds none: it spawns one for its message, under the caller's context.
SendStarts ==
    /\ sent < MaxSends
    /\ status = "running"
    /\ ~running
    /\ sent' = sent + 1
    /\ running' = TRUE
    /\ runCancel' = sent + 1
    /\ pc' = [pc EXCEPT ![sent + 1] = "begin"]
    /\ turn' = [turn EXCEPT ![sent + 1] = <<sent + 1>>]
    /\ UNCHANGED <<status, life, queue, cancelled, stop, fate, doomed>>

\* The caller of Send cancels the context it passed.  Only the message that
\* spawned the loop has a context derived from it: a queued one runs under
\* context.Background().
CallerCancels(l) ==
    /\ pc[l] \in {"begin", "turn"}
    /\ turn[l] = <<l>>
    /\ l \notin cancelled
    /\ cancelled' = cancelled \cup {l}
    /\ doomed' = IF pc[l] = "begin" THEN doomed \cup {l} ELSE doomed
    /\ UNCHANGED <<status, life, sent, running, queue, runCancel, pc, turn,
                   stop, fate>>

\* Cancel clears the queue and cancels the current turn.
Cancel ==
    /\ running
    /\ queue' = <<>>
    /\ cancelled' = RunCancelled
    /\ fate' = [m \in Msgs |-> IF m \in Range(queue) THEN "dropped" ELSE fate[m]]
    /\ doomed' = doomed \cup Waiting
    /\ UNCHANGED <<status, life, sent, running, runCancel, pc, turn, stop>>

\* Stop cancels the current turn, not the queue, and waits for the loops.
Stop ==
    /\ status = "running"
    /\ status' = "stopped"
    /\ cancelled' = RunCancelled
    /\ stop' = [stop EXCEPT ![life] = "waiting"]
    /\ doomed' = doomed \cup AboutToBegin
    /\ UNCHANGED <<life, sent, running, queue, runCancel, pc, turn, fate>>

\* Mutant: Stop does not wait for the run loops.
StopWaited_NoWait(k) ==
    /\ stop[k] = "waiting"
    /\ stop' = [stop EXCEPT ![k] = "relayWait"]
    /\ UNCHANGED <<status, life, sent, fate, doomed, loopVars>>

\* wg.Wait returns: no run loop is left, and no forwarder.  The forwarders of a
\* life that is over end of themselves, as Stop disconnected its client.  If the
\* adapter was started again meanwhile, the new life's forwarder holds wg.Wait
\* up, except while its process is dead and not replaced.
StopWaited(k) ==
    /\ stop[k] = "waiting"
    /\ Live = {}
    /\ stop' = [stop EXCEPT ![k] = "relayWait"]
    /\ UNCHANGED <<status, life, sent, fate, doomed, loopVars>>

\* relayWg.Wait returns, and so does Stop.  The relay of a life lasts as long as
\* the life, and ends of itself after the Stop that closed its done; that of a
\* new life holds this call up as well.
StopReturns(k) ==
    /\ stop[k] = "relayWait"
    /\ status # "running"
    /\ stop' = [stop EXCEPT ![k] = "returned"]
    /\ UNCHANGED <<status, life, sent, fate, doomed, loopVars>>

-----------------------------------------------------------------------------
(* The steps of a runLoop goroutine.                                       *)

\* runClaude checks its context first: the turn begins ...
BeginTurn(l) ==
    /\ pc[l] = "begin"
    /\ turn[l][1] \notin cancelled
    /\ pc' = [pc EXCEPT ![l] = "turn"]
    /\ fate' = [m \in Msgs |-> IF m \in Range(turn[l]) THEN "begun" ELSE fate[m]]
    /\ UNCHANGED <<status, life, sent, running, queue, runCancel, turn,
                   cancelled, stop, doomed>>

\* Mutant: a cancelled turn makes runLoop return without a look at the queue.
SkipTurn_Returns(l) ==
    /\ pc[l] = "begin" /\ turn[l][1] \in cancelled
    /\ pc' = [pc EXCEPT ![l] = "release"]
    /\ fate' = [m \in Msgs |-> IF m \in Range(turn[l]) THEN "dropped" ELSE fate[m]]
    /\ UNCHANGED <<status, life, sent, running, queue, runCancel, turn,
                   cancelled, stop, doomed>>

\* ... or runClaude returns at once, without an event.
SkipTurn(l) ==
    /\ pc[l] = "begin"
    /\ turn[l][1] \in cancelled
    /\ pc' = [pc EXCEPT ![l] = "drain"]
    /\ fate' = [m \in Msgs |-> IF m \in Range(turn[l]) THEN "dropped" ELSE fate[m]]
    /\ UNCHANGED <<status, life, sent, running, queue, runCancel, turn,
                   cancelled, stop, doomed>>

\* runClaude returns: a result, an error, a closed stdout, or a cancellation.
EndTurn(l) ==
    /\ pc[l] = "turn"
    /\ pc' = [pc EXCEPT ![l] = "drain"]
    /\ UNCHANGED <<status, life, sent, running, queue, runCancel, turn,
                   cancelled, stop, fate, doomed>>

\* Mutant: only the first queued message makes the turn.
Drain_First(l) ==
    /\ pc[l] = "drain" /\ queue # <<>>
    /\ turn' = [turn EXCEPT ![l] = <<Head(queue)>>] /\ queue' = <<>>
    /\ cancelled' = RunCancelled /\ runCancel' = Head(queue)
    /\ pc' = [pc EXCEPT ![l] = "begin"]
    /\ UNCHANGED <<status, life, sent, running, stop, fate, doomed>>

\* Mutant: runCancel is called after it was replaced.
Drain_CancelsNext(l) ==
    /\ pc[l] = "drain" /\ queue # <<>>
    /\ turn' = [turn EXCEPT ![l] = queue] /\ queue' = <<>>
    /\ cancelled' = cancelled \cup {Head(queue)} /\ runCancel' = Head(queue)
    /\ pc' = [pc EXCEPT ![l] = "begin"]
    /\ UNCHANGED <<status, life, sent, running, stop, fate, doomed>>

\* Mutant: the queue is not reset.
Drain_KeepsQueue(l) ==
    /\ pc[l] = "drain" /\ queue # <<>>
    /\ turn' = [turn EXCEPT ![l] = queue]
    /\ cancelled' = RunCancelled /\ runCancel' = Head(queue)
    /\ pc' = [pc EXCEPT ![l] = "begin"]
    /\ UNCHANGED <<status, life, sent, running, queue, stop, fate, doomed>>

\* The queue becomes the next turn, under a fresh context; the old one is
\* cancelled before it is replaced.
Drain(l) ==
    /\ pc[l] = "drain"
    /\ queue # <<>>
    /\ turn' = [turn EXCEPT ![l] = queue]
    /\ queue' = <<>>
    /\ cancelled' = RunCancelled
    /\ runCancel' = Head(queue)
    /\ pc' = [pc EXCEPT ![l] = "begin"]
    /\ UNCHANGED <<status, life, sent, running, stop, fate, doomed>>

\* The queue is empty: the loop unlocks and returns, running still TRUE.
LeaveLoop(l) ==
    /\ pc[l] = "drain"
    /\ queue = <<>>
    /\ pc' = [pc EXCEPT ![l] = "release"]
    /\ UNCHANGED <<status, life, sent, running, queue, runCancel, turn,
                   cancelled, stop, fate, doomed>>

\* The deferred critical section.
Release(l) ==
    /\ pc[l] = "release"
    /\ running' = FALSE
    /\ runCancel' = None
    /\ pc' = [pc EXCEPT ![l] = "wgDone"]
    /\ UNCHANGED <<status, life, sent, queue, turn, cancelled, stop, fate,
                   doomed>>

\* Mutant: runLoop forgets defer c.wg.Done().
WgDone_Forgotten(l) ==
    /\ pc[l] = "wgDone" /\ FALSE
    /\ UNCHANGED vars

\* The deferred wg.Done.
WgDone(l) ==
    /\ pc[l] = "wgDone"
    /\ pc' = [pc EXCEPT ![l] = "gone"]
    /\ UNCHANGED <<status, life, sent, running, queue, runCancel, turn,
                   cancelled, stop, fate, doomed>>

LoopStep(l) ==
    \/ BeginTurn(l) \/ SkipTurn(l) \/ EndTurn(l)
    \/ Drain(l) \/ LeaveLoop(l) \/ Release(l) \/ WgDone(l)

Next ==
    \/ Start \/ SendRefused \/ SendQueues \/ SendStarts \/ Cancel \/ Stop
    \/ \E k \in Lives : StopWaited(k) \/ StopReturns(k)
    \/ \E l \in Msgs : CallerCancels(l) \/ LoopStep(l)

Spec == Init /\ [][Next]_vars

\* Goroutines are scheduled, mutexes are granted, and the CLI ends every turn;
\* nobody is obliged to call the adapter, and nothing makes a wait end that the
\* goroutines of a running life hold up.
Fairness ==
    /\ \A l \in Msgs : WF_vars(LoopStep(l))
    /\ \A k \in Lives : /\ WF_vars(status # "running" /\ StopWaited(k))
                        /\ WF_vars(StopReturns(k))

FairSpec == Spec /\ Fairness
-----------------------------------------------------------------------------
(* Properties.                                                             *)

\* Every variable has its type; a queued or combined message was sent, and the
\* queue respects maxQueueSize.
TypeOK ==
    /\ status \in {"idle", "running", "stopped"}
    /\ life \in 0 .. MaxStarts
    /\ sent \in 0 .. MaxSends
    /\ running \in BOOLEAN
    /\ queue \in Seq(1 .. sent) /\ Len(queue) <= MaxQueue
    /\ runCancel \in 0 .. sent
    /\ pc \in [Msgs -> Places]
    /\ turn \in [Msgs -> Seq(1 .. sent)]
    /\ cancelled \subseteq 1 .. sent
    /\ stop \in [Lives -> {"none", "waiting", "relayWait", "returned"}]
    /\ fate \in [Msgs -> {"none", "refused", "begun", "dropped"}]
    /\ doomed \subseteq 1 .. sent

\* Turns never overlap: at most one goroutine stands between the start of
\* runLoop and its deferred running = false, across Stop and Start as well.
OneTurnAtATime == \A k, l \in Owners : k = l

\* A message that Send accepted and whose fate is open is in exactly one place,
\* the queue or a turn that has not begun, and no other message is there.
NothingLost ==
    /\ Range(queue) \cap AboutToBegin = {}
    /\ \A m \in Msgs : m \in Waiting <=> m <= sent /\ fate[m] = "none"

\* The queue, and every turn made of it, keep the order of the Send calls.
Ascending(s) == \A i, j \in DOMAIN s : i < j => s[i] < s[j]
KeptInOrder == Ascending(queue) /\ \A l \in Msgs : Ascending(turn[l])

\* A message whose turn had not begun when Cancel, Stop or its own caller
\* cancelled it never reaches the CLI (Cancel: "cancels the in-progress run and
\* clears the queue", claude.go:451), whatever goroutine was at what point.
CancelledNeverBegins == \A m \in doomed : fate[m] # "begun"

\* Conversely no message is dropped that nobody cancelled: the runCancel call
\* that ends the previous context never hits the turn that follows.
OnlyCancelledDropped == \A m \in Msgs : fate[m] = "dropped" => m \in doomed

\* Cancellation reaches the messages it is meant for, all of them and no others.
CancelledExactly == CancelledNeverBegins /\ OnlyCancelledDropped

\* Once Stop has waited for its producers, and until the next Start, no run loop
\* is left to emit events or to talk to the client (claude.go:995-999).
StoppedIsQuiet ==
    \A k \in Lives :
        stop[k] \in {"relayWait", "returned"} /\ life = k => Live = {}

\* Every Stop returns, though Stop leaves the queue and all lives share two
\* WaitGroups: unless the adapter is started again while the call waits.  It
\* then waits for the goroutines of the new life too, until that is stopped.
EveryStopReturns ==
    \A k \in Lives :
        stop[k] # "none" /\ status # "running"
            ~> stop[k] = "returned" \/ status = "running"

\* A message queued while a turn lasts is taken by a turn, or dropped.
InTurn == \E l \in Msgs : pc[l] \in {"begin", "turn"}
QueuedBehindTurnIsTaken ==
    \A m \in Msgs : m \in Range(queue) /\ InTurn ~> m \notin Range(queue)

\* What the documentation promises of every queued message: "queued and
\* processed automatically after the current turn completes"
\* (docs/getting-started.md:130, claude.go:94).
QueuedIsTaken ==
    \A m \in Msgs : m \in Range(queue) /\ status = "running"
                    ~> m \notin Range(queue) \/ status # "running"

\* The code implements the abstract turn server.

Current == UNION {Range(turn[l]) : l \in {k \in Msgs : pc[k] = "turn"}}

Server == INSTANCE TurnServer WITH
    waiting  <- Waiting,
    current  <- Current,
    finished <- {m \in Msgs : fate[m] = "begun"} \ Current,
    dropped  <- {m \in Msgs : fate[m] = "dropped"}

ServerSpec == Server!Spec
=============================================================================
