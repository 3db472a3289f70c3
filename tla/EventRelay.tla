----------------------------- MODULE EventRelay -----------------------------
(***************************************************************************)
(* The way of an event from emit() to the consumer (claude.go): the        *)
(* channel internalEvents, the eventRelay goroutine with its unbounded     *)
(* slice buf, the channel events, and the shutdown by Stop.  One life of   *)
(* the adapter, from a successful Start on; Lifecycle has several.         *)
(*                                                                         *)
(* An event is the number of the emit call that was accepted, in the order *)
(* in which the events entered internalEvents.                             *)
(***************************************************************************)
EXTENDS Naturals, Sequences

CONSTANTS Producers,       \* goroutines that call emit: run loops and
                           \* forwardClientErrors, all counted in c.wg
          MaxEvents,       \* bound: no emit call starts beyond it
          InCap,           \* capacity of internalEvents (128 in the code)
          OutCap           \* capacity of events (64 in the code)

ASSUME RelayAssumption ==
    /\ MaxEvents \in Nat
    /\ InCap \in Nat \ {0}
    /\ OutCap \in Nat \ {0}

VARIABLES
    done,                  \* c.done is closed
    internal,              \* c.internalEvents
    buf,                   \* the slice of eventRelay
    events, closed,        \* c.events
    relay,                 \* where eventRelay stands
    emit,                  \* where each producer stands
    stop,                  \* where Stop stands
    accepted,              \* history: how many events emit accepted
    atStop,                \* history: how many when done was closed
    dropped,               \* history: eventRelay gave events up
    received, ended        \* what the consumer got; it saw the close

relayVars == <<internal, buf, events, closed, relay, dropped>>
vars == <<done, internal, buf, events, closed, relay, emit, stop, accepted,
          atStop, dropped, received, ended>>

Init ==
    /\ done = FALSE /\ internal = <<>> /\ buf = <<>>
    /\ events = <<>> /\ closed = FALSE
    /\ relay = "loop"
    /\ emit = [p \in Producers |-> "idle"]
    /\ stop = "none"
    /\ accepted = 0 /\ atStop = 0 /\ dropped = FALSE
    /\ received = <<>> /\ ended = FALSE

-----------------------------------------------------------------------------
(* The producers.                                                          *)

\* emit looks at done first; if it is closed it returns false (no change).
EmitCheck(p) ==
    /\ emit[p] = "idle"
    /\ ~done
    /\ accepted < MaxEvents
    /\ emit' = [emit EXCEPT ![p] = "checked"]
    /\ UNCHANGED <<done, stop, accepted, atStop, received, ended, relayVars>>

\* Mutant: the event overtakes those that wait.
EmitSend_Front(p) ==
    /\ emit[p] = "checked" /\ Len(internal) < InCap
    /\ internal' = <<accepted + 1>> \o internal
    /\ accepted' = accepted + 1
    /\ emit' = [emit EXCEPT ![p] = "idle"]
    /\ UNCHANGED <<done, buf, events, closed, relay, stop, atStop, dropped,
                   received, ended>>

\* The second select sends: emit returns true, even after done was closed.
EmitSend(p) ==
    /\ emit[p] = "checked"
    /\ Len(internal) < InCap
    /\ internal' = Append(internal, accepted + 1)
    /\ accepted' = accepted + 1
    /\ emit' = [emit EXCEPT ![p] = "idle"]
    /\ UNCHANGED <<done, buf, events, closed, relay, stop, atStop, dropped,
                   received, ended>>

\* The second select sees done: emit returns false.
EmitGivesUp(p) ==
    /\ emit[p] = "checked"
    /\ done
    /\ emit' = [emit EXCEPT ![p] = "idle"]
    /\ UNCHANGED <<done, stop, accepted, atStop, received, ended, relayVars>>

\* The goroutine returns: wg.Done.
ProducerExits(p) ==
    /\ emit[p] = "idle"
    /\ emit' = [emit EXCEPT ![p] = "exited"]
    /\ UNCHANGED <<done, stop, accepted, atStop, received, ended, relayVars>>

-----------------------------------------------------------------------------
(* The relay goroutine.                                                    *)

\* Mutant: no event is taken while one waits for the consumer.
RelayTakes_WhenEmpty ==
    /\ relay = "loop" /\ internal # <<>> /\ buf = <<>>
    /\ buf' = Append(buf, Head(internal)) /\ internal' = Tail(internal)
    /\ UNCHANGED <<done, events, closed, relay, emit, stop, accepted, atStop,
                   dropped, received, ended>>

\* case ev := <-c.internalEvents, in both selects.
RelayTakes ==
    /\ relay = "loop"
    /\ internal # <<>>
    /\ buf' = Append(buf, Head(internal))
    /\ internal' = Tail(internal)
    /\ UNCHANGED <<done, events, closed, relay, emit, stop, accepted, atStop,
                   dropped, received, ended>>

\* Mutant: the head is dropped when the consumer is slow.
RelayForwards_OrDrops ==
    /\ relay = "loop" /\ buf # <<>>
    /\ events' = IF Len(events) < OutCap THEN Append(events, Head(buf)) ELSE events
    /\ buf' = Tail(buf)
    /\ UNCHANGED <<done, internal, closed, relay, emit, stop, accepted,
                   atStop, dropped, received, ended>>

\* Mutant: the capacity of the channel is ignored.
RelayForwards_NoCap ==
    /\ relay = "loop" /\ buf # <<>>
    /\ events' = Append(events, Head(buf)) /\ buf' = Tail(buf)
    /\ UNCHANGED <<done, internal, closed, relay, emit, stop, accepted,
                   atStop, dropped, received, ended>>

\* Mutant: the last buffered event is kept for later.
RelayForwards_KeepsOne ==
    /\ relay = "loop" /\ Len(buf) > 1 /\ Len(events) < OutCap
    /\ events' = Append(events, Head(buf)) /\ buf' = Tail(buf)
    /\ UNCHANGED <<done, internal, closed, relay, emit, stop, accepted,
                   atStop, dropped, received, ended>>

\* case c.events <- buf[0].
RelayForwards ==
    /\ relay = "loop"
    /\ buf # <<>>
    /\ Len(events) < OutCap
    /\ events' = Append(events, Head(buf))
    /\ buf' = Tail(buf)
    /\ UNCHANGED <<done, internal, closed, relay, emit, stop, accepted,
                   atStop, dropped, received, ended>>

\* Mutant: the relay returns without flushing.
RelaySeesDone_Returns ==
    /\ relay = "loop" /\ done
    /\ relay' = "close"
    /\ UNCHANGED <<done, internal, buf, events, closed, emit, stop, accepted,
                   atStop, dropped, received, ended>>

\* case <-c.done: flush buf, or go straight to drainInternalEvents.
RelaySeesDone ==
    /\ relay = "loop"
    /\ done
    /\ relay' = IF buf = <<>> THEN "drain" ELSE "flush"
    /\ UNCHANGED <<done, internal, buf, events, closed, emit, stop, accepted,
                   atStop, dropped, received, ended>>

\* The flush loop sends one event; after the last it goes on to drain.
FlushForwards ==
    /\ relay = "flush"
    /\ Len(events) < OutCap
    /\ events' = Append(events, Head(buf))
    /\ buf' = Tail(buf)
    /\ relay' = IF Len(buf) = 1 THEN "drain" ELSE "flush"
    /\ UNCHANGED <<done, internal, closed, emit, stop, accepted, atStop,
                   dropped, received, ended>>

\* Mutant: the flush has no deadline.
FlushDeadline_Never ==
    /\ relay = "flush" /\ FALSE
    /\ UNCHANGED vars

\* One second is over (at any point of the flush): the rest is given up.
FlushDeadline ==
    /\ relay = "flush"
    /\ relay' = "close"
    /\ dropped' = TRUE
    /\ UNCHANGED <<done, internal, buf, events, closed, emit, stop, accepted,
                   atStop, received, ended>>

\* Mutant: the drain goes on, with the next event, when there is no room.
DrainGivesUp_OneOnly ==
    /\ relay = "drain" /\ internal # <<>> /\ Len(events) >= OutCap
    /\ internal' = Tail(internal) /\ dropped' = TRUE
    /\ UNCHANGED <<done, buf, events, closed, relay, emit, stop, accepted,
                   atStop, received, ended>>

\* drainInternalEvents moves one event, if the consumer has room for it ...
DrainForwards ==
    /\ relay = "drain"
    /\ internal # <<>>
    /\ Len(events) < OutCap
    /\ events' = Append(events, Head(internal))
    /\ internal' = Tail(internal)
    /\ UNCHANGED <<done, buf, closed, relay, emit, stop, accepted, atStop,
                   dropped, received, ended>>

\* ... gives it up, and returns, if not ...
DrainGivesUp ==
    /\ relay = "drain"
    /\ internal # <<>>
    /\ Len(events) >= OutCap
    /\ internal' = Tail(internal)
    /\ relay' = "close"
    /\ dropped' = TRUE
    /\ UNCHANGED <<done, buf, events, closed, emit, stop, accepted, atStop,
                   received, ended>>

\* ... and returns when nothing is left.
DrainEnds ==
    /\ relay = "drain"
    /\ internal = <<>>
    /\ relay' = "close"
    /\ UNCHANGED <<done, internal, buf, events, closed, emit, stop, accepted,
                   atStop, dropped, received, ended>>

\* Mutant: the events channel is never closed.
RelayExits_Open ==
    /\ relay = "close"
    /\ relay' = "exited"
    /\ UNCHANGED <<done, internal, buf, events, closed, emit, stop, accepted,
                   atStop, dropped, received, ended>>

\* The deferred close(c.events) and relayWg.Done().
RelayExits ==
    /\ relay = "close"
    /\ closed' = TRUE
    /\ relay' = "exited"
    /\ UNCHANGED <<done, internal, buf, events, emit, stop, accepted, atStop,
                   dropped, received, ended>>

RelayStep ==
    \/ RelayTakes \/ RelayForwards \/ RelaySeesDone
    \/ FlushForwards \/ FlushDeadline
    \/ DrainForwards \/ DrainGivesUp \/ DrainEnds \/ RelayExits

-----------------------------------------------------------------------------
(* Stop and the consumer.                                                  *)

\* Stop closes done ...
StopCloses ==
    /\ stop = "none"
    /\ done' = TRUE
    /\ atStop' = accepted
    /\ stop' = "wg"
    /\ UNCHANGED <<emit, accepted, received, ended, relayVars>>

\* ... waits for the producers (c.wg) ...
StopWaited ==
    /\ stop = "wg"
    /\ \A p \in Producers : emit[p] = "exited"
    /\ stop' = "relayWg"
    /\ UNCHANGED <<done, emit, accepted, atStop, received, ended, relayVars>>

\* ... then for the relay, and returns.
StopReturns ==
    /\ stop = "relayWg"
    /\ relay = "exited"
    /\ stop' = "returned"
    /\ UNCHANGED <<done, emit, accepted, atStop, received, ended, relayVars>>

\* The consumer takes the next event from the channel; a closed channel still
\* yields what is buffered in it.
Receives ==
    /\ events # <<>>
    /\ received' = Append(received, Head(events))
    /\ events' = Tail(events)
    /\ UNCHANGED <<done, internal, buf, closed, relay, emit, stop, accepted,
                   atStop, dropped, ended>>

\* Its range loop over the channel ends.
SeesClose ==
    /\ closed
    /\ events = <<>>
    /\ ~ended
    /\ ended' = TRUE
    /\ UNCHANGED <<done, emit, stop, accepted, atStop, received, relayVars>>

EmitStep(p) == EmitCheck(p) \/ EmitSend(p) \/ EmitGivesUp(p) \/ ProducerExits(p)

Next ==
    \/ \E p \in Producers : EmitStep(p)
    \/ RelayStep
    \/ StopCloses \/ StopWaited \/ StopReturns
    \/ Receives \/ SeesClose

Spec == Init /\ [][Next]_vars

\* Goroutines are scheduled, each ready case of a select is taken in the end,
\* timers fire, and producers return once done is closed.  The consumer need
\* not read.
Fairness ==
    /\ \A p \in Producers : /\ WF_vars(EmitSend(p))
                            /\ WF_vars(EmitGivesUp(p))
                            /\ WF_vars(done /\ ProducerExits(p))
    /\ WF_vars(RelayTakes) /\ WF_vars(RelayForwards) /\ WF_vars(RelaySeesDone)
    /\ WF_vars(FlushDeadline)
    /\ WF_vars(DrainForwards \/ DrainGivesUp \/ DrainEnds \/ RelayExits)
    /\ WF_vars(StopWaited \/ StopReturns)

FairSpec == Spec /\ Fairness

\* What some properties assume of the consumer: it keeps reading.
ConsumerReads == WF_vars(Receives \/ SeesClose)

-----------------------------------------------------------------------------
(* Properties.                                                             *)

\* Every variable has its type; the channels respect their capacities.
TypeOK ==
    /\ done \in BOOLEAN /\ closed \in BOOLEAN /\ dropped \in BOOLEAN
    /\ ended \in BOOLEAN
    /\ accepted \in Nat /\ atStop \in Nat
    /\ internal \in Seq(Nat) /\ Len(internal) <= InCap
    /\ events \in Seq(Nat) /\ Len(events) <= OutCap
    /\ buf \in Seq(Nat) /\ received \in Seq(Nat)
    /\ relay \in {"loop", "flush", "drain", "close", "exited"}
    /\ emit \in [Producers -> {"idle", "checked", "exited"}]
    /\ stop \in {"none", "wg", "relayWg", "returned"}

\* Until the relay gives events up, what the consumer received, and what is
\* under way to it, is every accepted event, once, in order: the three buffers
\* hand them on without loss (claude.go:337-341).
Pipeline == received \o events \o buf \o internal
Underway(n) == [i \in 1 .. n |-> i]
NothingLostOnTheWay ==
    relay \in {"loop", "flush", "drain"} => Pipeline = Underway(accepted)

\* Every event accepted before Stop reaches the events channel, unless the
\* relay gave events up because the consumer left them there: the flush is
\* complete (claude.go:377-378, 1001-1002).
ShutdownFlushes ==
    closed /\ ~dropped => Len(received) + Len(events) >= atStop

\* The relay implements the stream the consumer is promised.
Stream == INSTANCE EventStream WITH sent <- Underway(accepted), got <- received
StreamSpec == Stream!Spec

\* emit never blocks for good, though the consumer may never read
\* (claude.go:314-316).
EmitReturns == \A p \in Producers : emit[p] = "checked" ~> emit[p] # "checked"

\* Stop returns, though the consumer may never read (claude.go:377-378).
StopTerminates == stop = "wg" ~> stop = "returned"

\* A consumer that keeps reading gets every event accepted before Stop, and
\* sees the end of the stream after Stop.
EventsArrive == ConsumerReads =>
    \A n \in 1 .. MaxEvents : accepted >= n ~> Len(received) >= n \/ done
ConsumerSeesEnd == ConsumerReads => (stop = "wg" ~> ended)
=============================================================================
