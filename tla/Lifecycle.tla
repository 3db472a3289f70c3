------------------------------ MODULE Lifecycle -----------------------------
(***************************************************************************)
(* Start, Stop and the relay goroutines over several lives of one          *)
(* ClaudeAdapter (claude.go).  Start replaces the fields c.events, c.done  *)
(* and c.internalEvents and spawns eventRelay before it connects, so a     *)
(* Start that fails leaves a relay behind.  The relay reads the fields     *)
(* without the lock: close(c.events) is bound when it begins to run, done  *)
(* and internalEvents each time it enters a select.                        *)
(*                                                                         *)
(* A generation is a Start call that got past its status check; it has     *)
(* channels and a relay of its own.  What flows through the channels is    *)
(* EventRelay's matter.                                                    *)
(*                                                                         *)
(* Start and Stop hold c.mu while setStatus calls the status listeners, so *)
(* a listener that calls a method of the adapter waits for its own caller. *)
(***************************************************************************)
EXTENDS Naturals

CONSTANTS MaxGens,         \* bound: Start calls considered
          MaxFails,        \* bound: how many of them fail to connect
          Overlap          \* may Start be called while a Stop still waits?

ASSUME LifecycleAssumption ==
    /\ MaxGens \in Nat
    /\ MaxFails \in Nat
    /\ Overlap \in BOOLEAN

Gens == 1 .. MaxGens

VARIABLES
    status,                \* c.status
    gen,                   \* the generation c.events, c.done, ... belong to
    fails,                 \* how many Start calls failed
    relay,                 \* where the relay of each generation stands
    waitsOn,               \* the generation whose channels its select uses
    closes,                \* the generation whose events it will close
    doneClosed,            \* the generations whose done is closed
    closings,              \* how often each events channel was closed
    stop,                  \* the Stop call that ended each generation
    reenters,              \* does a status listener call the adapter?
    held                   \* is c.mu held by a call whose listener waits for it?

lockVars == <<reenters, held>>
vars == <<status, gen, fails, relay, waitsOn, closes, doneClosed, closings, stop,
          lockVars>>

Init ==
    /\ status = "idle" /\ gen = 0 /\ fails = 0
    /\ relay = [g \in Gens |-> "none"]
    /\ waitsOn = [g \in Gens |-> 0]
    /\ closes = [g \in Gens |-> 0]
    /\ doneClosed = {}
    /\ closings = [g \in Gens |-> 0]
    /\ stop = [g \in Gens |-> "none"]
    /\ reenters = FALSE /\ held = FALSE

\* A listener that calls the adapter is registered; one that only looks at the
\* status it is given changes nothing here.
OnStatusChange ==
    /\ ~held
    /\ reenters' = TRUE
    /\ UNCHANGED <<status, gen, fails, relay, waitsOn, closes, doneClosed,
                   closings, stop, held>>

\* setStatus assigns the status and calls the listeners: its caller, which
\* holds c.mu, never releases it if one of them waits for it.
SetStatus(s) ==
    /\ status' = s
    /\ held' = reenters
    /\ UNCHANGED reenters

\* The channels are made and the relay is spawned, whatever comes next.
MakeStream ==
    /\ ~held
    /\ status # "running"
    /\ gen < MaxGens
    /\ Overlap \/ \A g \in Gens : stop[g] # "waiting"
    /\ gen' = gen + 1
    /\ relay' = [relay EXCEPT ![gen + 1] = "spawned"]
    /\ UNCHANGED <<waitsOn, closes, doneClosed, closings, stop>>

\* Start connects to the CLI.
StartConnects ==
    /\ MakeStream
    /\ SetStatus("running")
    /\ UNCHANGED fails

\* Start returns the error of newConnectedClient.
StartFails ==
    /\ MakeStream
    /\ fails < MaxFails
    /\ fails' = fails + 1
    /\ UNCHANGED <<status, lockVars>>

\* Mutant: Stop does not look at the status.
StopCloses_NoCheck ==
    /\ ~held /\ SetStatus("stopped") /\ doneClosed' = doneClosed \cup {gen}
    /\ stop' = [g \in Gens |-> IF g = gen THEN "waiting" ELSE stop[g]]
    /\ UNCHANGED <<gen, fails, relay, waitsOn, closes, closings>>

\* Mutant: done is not closed.
StopCloses_NotDone ==
    /\ ~held /\ status = "running" /\ SetStatus("stopped")
    /\ stop' = [stop EXCEPT ![gen] = IF reenters THEN "notifying" ELSE "waiting"]
    /\ UNCHANGED <<gen, fails, relay, waitsOn, closes, doneClosed, closings>>

\* Stop closes done and, the producers gone, waits for the relays.
StopCloses ==
    /\ ~held
    /\ status = "running"
    /\ SetStatus("stopped")
    /\ doneClosed' = doneClosed \cup {gen}
    /\ stop' = [stop EXCEPT ![gen] = IF reenters THEN "notifying" ELSE "waiting"]
    /\ UNCHANGED <<gen, fails, relay, waitsOn, closes, closings>>

\* Mutant: Stop does not wait for the relay.
StopReturns_NoWait(g) ==
    /\ stop[g] = "waiting" /\ stop' = [stop EXCEPT ![g] = "returned"]
    /\ UNCHANGED <<status, gen, fails, relay, waitsOn, closes, doneClosed,
                   closings, lockVars>>

\* relayWg.Wait returns when no relay is left, of any generation.
StopReturns(g) ==
    /\ stop[g] = "waiting"
    /\ \A h \in Gens : relay[h] \in {"none", "gone"}
    /\ stop' = [stop EXCEPT ![g] = "returned"]
    /\ UNCHANGED <<status, gen, fails, relay, waitsOn, closes, doneClosed,
                   closings, lockVars>>

\* The goroutine runs for the first time: defer close(c.events).
RelayBegins(g) ==
    /\ relay[g] = "spawned"
    /\ relay' = [relay EXCEPT ![g] = "awake"]
    /\ closes' = [closes EXCEPT ![g] = gen]
    /\ UNCHANGED <<status, gen, fails, waitsOn, doneClosed, closings, stop,
                   lockVars>>

\* It enters a select on the channels the fields hold now.
RelayWaits(g) ==
    /\ relay[g] = "awake"
    /\ relay' = [relay EXCEPT ![g] = "select"]
    /\ waitsOn' = [waitsOn EXCEPT ![g] = gen]
    /\ UNCHANGED <<status, gen, fails, closes, doneClosed, closings, stop,
                   lockVars>>

\* An event comes, and only a running adapter emits events.
RelayWakes(g) ==
    /\ relay[g] = "select"
    /\ waitsOn[g] = gen
    /\ status = "running"
    /\ relay' = [relay EXCEPT ![g] = "awake"]
    /\ UNCHANGED <<status, gen, fails, waitsOn, closes, doneClosed, closings,
                   stop, lockVars>>

\* done is closed: the relay flushes and leaves.
RelaySeesDone(g) ==
    /\ relay[g] = "select"
    /\ waitsOn[g] \in doneClosed
    /\ relay' = [relay EXCEPT ![g] = "leaving"]
    /\ UNCHANGED <<status, gen, fails, waitsOn, closes, doneClosed, closings,
                   stop, lockVars>>

\* Mutant: the relay returns without close(c.events).
RelayCloses_Nothing(g) ==
    /\ relay[g] = "leaving" /\ relay' = [relay EXCEPT ![g] = "gone"]
    /\ UNCHANGED <<status, gen, fails, waitsOn, closes, doneClosed, closings,
                   stop, lockVars>>

\* The deferred close (a second close of one channel is a panic) and Done.
RelayCloses(g) ==
    /\ relay[g] = "leaving"
    /\ relay' = [relay EXCEPT ![g] = "gone"]
    /\ closings' = [closings EXCEPT ![closes[g]] = @ + 1]
    /\ UNCHANGED <<status, gen, fails, waitsOn, closes, doneClosed, stop,
                   lockVars>>

RelayStep(g) ==
    RelayBegins(g) \/ RelayWaits(g) \/ RelaySeesDone(g) \/ RelayCloses(g)

Next ==
    \/ OnStatusChange
    \/ StartConnects \/ StartFails \/ StopCloses
    \/ \E g \in Gens : StopReturns(g) \/ RelayStep(g) \/ RelayWakes(g)

Spec == Init /\ [][Next]_vars

\* Goroutines are scheduled; a select with done ready takes that case in the
\* end, though events may keep it busy for a while.
FairSpec ==
    /\ Spec
    /\ \A g \in Gens : /\ WF_vars(RelayBegins(g)) /\ WF_vars(RelayWaits(g))
                       /\ WF_vars(RelaySeesDone(g)) /\ WF_vars(RelayCloses(g))
                       /\ WF_vars(StopReturns(g))

-----------------------------------------------------------------------------
(* Properties.                                                             *)

\* Every variable has its type.
TypeOK ==
    /\ status \in {"idle", "running", "stopped"}
    /\ gen \in 0 .. MaxGens /\ fails \in 0 .. MaxFails
    /\ relay \in [Gens -> {"none", "spawned", "awake", "select", "leaving", "gone"}]
    /\ waitsOn \in [Gens -> 0 .. gen] /\ closes \in [Gens -> 0 .. gen]
    /\ doneClosed \subseteq 1 .. gen
    /\ closings \in [Gens -> Nat]
    /\ stop \in [Gens -> {"none", "notifying", "waiting", "returned"}]
    /\ reenters \in BOOLEAN /\ held \in BOOLEAN

\* No events channel is closed twice: that would panic the process, although
\* the relay binds c.events when it begins to run and not when it is spawned.
ClosedOnce == \A g \in Gens : closings[g] <= 1

\* So it is as long as no Start failed and none overlapped a Stop.
ClosedOnceIfConnected == fails = 0 => ClosedOnce

\* Once Stop returned, the channel Receive() gave out in that life is closed
\* (TestStopClosesEventsChannel, claude_test.go:72), whatever relays failed
\* Starts left behind.
StopClosesStream ==
    \A g \in Gens : stop[g] = "returned" => closings[g] >= 1

\* Every Stop returns: "flush buffered events with a deadline so Stop()
\* doesn't hang if the consumer is gone" (claude.go:377-378).
StopTerminates ==
    \A g \in Gens : stop[g] = "waiting" ~> stop[g] = "returned"

\* Every Stop returns as long as no Start failed and no status listener waits
\* for c.mu; a listener registered while Stop waits for the relays is harmless.
StopTerminatesIfConnected ==
    \A g \in Gens : stop[g] # "none" /\ fails = 0 /\ ~held
                     ~> stop[g] = "returned"
=============================================================================
