------------------------------- MODULE Adapter ------------------------------
(***************************************************************************)
(* What a turn does with the CLI, and what becomes of the CLI: runClaude   *)
(* from its context check to its last event, newConnectedClient,           *)
(* reconnectClient, and the calls Cancel and Stop make on the client       *)
(* (claude.go).  The scheduling of turns is RunLoop's: every action of     *)
(* RunLoop appears here with what it does to the clients.                  *)
(*                                                                         *)
(* Client and transport are seen from the adapter: a client is connected   *)
(* until a Disconnect that succeeds, and its transport open until the      *)
(* first Disconnect; its process is up, hit by SIGINT, or dead, prompts    *)
(* written to a dead process fail, and its message channel is closed       *)
(* behind the messages it still holds.  An answer is two messages, a part  *)
(* (AssistantMessage) and the result (ResultMessage), each marked with the *)
(* prompt it answers; a turn and its prompt are named by the turn's        *)
(* context.  Left out: the compaction of a long history, which has prompts *)
(* of its own (Compaction), and a Start that fails (Lifecycle).            *)
(***************************************************************************)
EXTENDS RunLoop

CONSTANTS Images,          \* the messages that carry images
          Prompts,         \* the prompts, the turns' own among them
          MaxClients,      \* bound: clients connected in all
          MaxCrashes,      \* bound: processes that die of themselves
          MaxFails         \* bound: connects and disconnects that fail

ASSUME AdapterAssumption ==
    /\ Images \subseteq Msgs
    /\ Msgs \subseteq Prompts
    /\ MaxClients \in Nat
    /\ MaxCrashes \in Nat
    /\ MaxFails \in Nat

VARIABLES
    clients,               \* every client ever connected, as a sequence
    client,                \* c.client, an index into clients, or None
    stage,                 \* how far runClaude is: in no turn ("idle"), past
                           \* its context check ("begun"), with a client
                           \* ("query"), its prompt on the way ("asked"),
                           \* at the message channel ("receive")
    with,                  \* the client this turn took from c.client
    sending,               \* QueryStream goroutines that have not written yet
    rc,                    \* the reconnectClient goroutine each turn spawned
    crashes, fails,        \* how many processes died, how many connects and
                           \* disconnects failed
    outcome,               \* history: how each turn ended
    heard,                 \* history: whose answers each turn took for its own
    killedLive             \* history: a reconnect disconnected a process in use

clientVars == <<clients, client, stage, with, sending, rc, crashes, fails,
                outcome, heard, killedLive>>
adapterVars == <<vars, clientVars>>

Fresh == [connected |-> TRUE, open |-> TRUE, proc |-> "up", asked |-> <<>>,
          parted |-> FALSE, chan |-> <<>>]

\* Disconnect closes the transport: the process is gone, the channel ends
\* behind what it holds.  If the process exited with a status, Disconnect
\* returns the error of close and leaves the client connected to a closed
\* transport.  It does nothing to a client that is not connected.
Disconnects(k) ==
    IF k = None \/ ~clients[k].connected THEN UNCHANGED <<clients, fails>>
    ELSE \E failed \in {FALSE, clients[k].open /\ fails < MaxFails} :
             /\ clients' = [clients EXCEPT ![k].connected = failed,
                                           ![k].open = FALSE, ![k].proc = "dead"]
             /\ fails' = IF failed THEN fails + 1 ELSE fails

\* Writing a prompt fails on these.
Broken(k) == ~clients[k].connected \/ clients[k].proc = "dead"

AdapterInit ==
    /\ Init
    /\ clients = <<>> /\ client = None
    /\ stage = "idle" /\ with = None /\ sending = {}
    /\ rc = [t \in Msgs |-> [at |-> "none", old |-> None, new |-> None]]
    /\ crashes = 0 /\ fails = 0
    /\ outcome = [t \in Msgs |-> "none"]
    /\ heard = [t \in Msgs |-> {}]
    /\ killedLive = FALSE

-----------------------------------------------------------------------------
(* The calls of the user.                                                  *)

\* Mutant: c.client is not assigned.
AStart_NoClient ==
    /\ Start /\ Len(clients) < MaxClients
    /\ clients' = Append(clients, Fresh)
    /\ UNCHANGED <<client, stage, with, sending, rc, crashes, fails, outcome,
                   heard, killedLive>>

\* Start connects a first client.
AStart ==
    /\ Start
    /\ Len(clients) < MaxClients
    /\ clients' = Append(clients, Fresh)
    /\ client' = Len(clients) + 1
    /\ UNCHANGED <<stage, with, sending, rc, crashes, fails, outcome, heard,
                   killedLive>>

ASend == (SendRefused \/ SendQueues \/ SendStarts) /\ UNCHANGED clientVars

ACallerCancels(l) == CallerCancels(l) /\ UNCHANGED clientVars

\* Cancel also sends SIGINT to the process.
ACancel ==
    /\ Cancel
    /\ clients' = IF client # None /\ clients[client].connected
                     /\ clients[client].proc = "up"
                  THEN [clients EXCEPT ![client].proc = "hit"] ELSE clients
    /\ UNCHANGED <<client, stage, with, sending, rc, crashes, fails, outcome,
                   heard, killedLive>>

\* Mutant: Stop leaves the client alone.
AStop_KeepsClient == Stop /\ UNCHANGED clientVars

\* Stop also disconnects the client, in the same critical section.
AStop ==
    /\ Stop
    /\ Disconnects(client)
    /\ UNCHANGED <<client, stage, with, sending, rc, crashes, outcome,
                   heard, killedLive>>

\* What Stop waits for has ended.  The forwarder of a new life ends as its
\* process dies, which closes the channel of errors.
AStopReturns(k) ==
    /\ \/ StopWaited(k) /\ (status = "running" => clients[client].proc = "dead")
       \/ StopReturns(k)
    /\ UNCHANGED clientVars

-----------------------------------------------------------------------------
(* The turn: runClaude of the goroutine l.                                 *)

Ctx(l) == turn[l][1]
Cancelled(l) == Ctx(l) \in cancelled

\* combineMessages keeps the text only, so a turn of several messages has no
\* images.
HasImages(l) == Len(turn[l]) = 1 /\ Ctx(l) \in Images

ABeginTurn(l) ==
    /\ BeginTurn(l)
    /\ stage' = "begun"
    /\ UNCHANGED <<clients, client, with, sending, rc, crashes, fails, outcome,
                   heard, killedLive>>

\* The turn copies c.client under the lock, and keeps it to its end.
TakesClient(l) ==
    /\ stage = "begun" /\ pc[l] = "turn"
    /\ stage' = "query"
    /\ with' = client
    /\ UNCHANGED <<vars, clients, client, sending, rc, crashes, fails, outcome,
                   heard, killedLive>>

ASkipTurn(l) == SkipTurn(l) /\ UNCHANGED clientVars

\* The steps of a loop outside its turn.
ALoop(l) ==
    /\ Drain(l) \/ LeaveLoop(l) \/ Release(l) \/ WgDone(l)
    /\ UNCHANGED clientVars

\* runClaude returns after the event that ends the turn.
Ends(l, how) ==
    /\ EndTurn(l)
    /\ stage' = "idle"
    /\ outcome' = [outcome EXCEPT ![Ctx(l)] = how]

\* Query and QueryWithSession write the prompt ...
QueryText(l) ==
    /\ stage = "query" /\ pc[l] = "turn" /\ ~HasImages(l)
    /\ ~Cancelled(l)
    /\ ~Broken(with)
    /\ clients' = [clients EXCEPT ![with].asked = Append(@, Ctx(l))]
    /\ stage' = "asked"
    /\ UNCHANGED <<vars, client, with, sending, rc, crashes, fails, outcome,
                   heard, killedLive>>

\* ... or fail: cancelled, not connected, or a broken pipe.  EventError.
QueryTextFails(l) ==
    /\ stage = "query" /\ pc[l] = "turn" /\ ~HasImages(l)
    /\ Cancelled(l) \/ Broken(with)
    /\ Ends(l, IF Cancelled(l) THEN "refused" ELSE "error")
    /\ UNCHANGED <<clients, client, with, sending, rc, crashes, fails, heard,
                   killedLive>>

\* QueryStream leaves the writing to a goroutine and never fails on a client
\* that is connected ...
QueryStream(l) ==
    /\ stage = "query" /\ pc[l] = "turn" /\ HasImages(l)
    /\ clients[with].connected
    /\ sending' = sending \cup {[ctx |-> Ctx(l), to |-> with]}
    /\ stage' = "asked"
    /\ UNCHANGED <<vars, clients, client, with, rc, crashes, fails, outcome,
                   heard, killedLive>>

QueryStreamFails(l) ==
    /\ stage = "query" /\ pc[l] = "turn" /\ HasImages(l)
    /\ ~clients[with].connected
    /\ Ends(l, "error")
    /\ UNCHANGED <<clients, client, with, sending, rc, crashes, fails, heard,
                   killedLive>>

\* ... which writes, or gives up without a word.
StreamWrites(s) ==
    /\ s \in sending
    /\ sending' = sending \ {s}
    /\ clients' = IF s.ctx \in cancelled \/ Broken(s.to) THEN clients
                  ELSE [clients EXCEPT ![s.to].asked = Append(@, s.ctx)]
    /\ UNCHANGED <<vars, client, stage, with, rc, crashes, fails, outcome,
                   heard, killedLive>>

\* ReceiveMessages hands out the channel of a client that is connected.
Listens(l) ==
    /\ stage = "asked" /\ pc[l] = "turn"
    /\ clients[with].connected
    /\ stage' = "receive"
    /\ UNCHANGED <<vars, clients, client, with, sending, rc, crashes, fails,
                   outcome, heard, killedLive>>

\* The channel from which the turn of l receives, and the channel that is
\* closed: nothing more will come, or the client was not connected.
Receiving(l) == stage = "receive" /\ pc[l] = "turn"
Incoming == clients[with].chan
SeesClosed(l) ==
    \/ Receiving(l) /\ Incoming = <<>> /\ clients[with].proc = "dead"
    \/ stage = "asked" /\ pc[l] = "turn" /\ ~clients[with].connected

\* Mutant: a cancelled turn reconnects too.
ReceiveCancelled_Reconnects(l) ==
    /\ Receiving(l) /\ Incoming # <<>> /\ Cancelled(l)
    /\ clients' = [clients EXCEPT ![with].chan = Tail(@)]
    /\ rc' = [rc EXCEPT ![Ctx(l)].at = "spawned"]
    /\ Ends(l, "cancelled")
    /\ UNCHANGED <<client, with, sending, crashes, fails, heard, killedLive>>

\* A message comes and the context is done: EventDone with "[cancelled]".  The
\* message is consumed, those behind it stay in the channel, and there is no
\* reconnect.
ReceiveCancelled(l) ==
    /\ Receiving(l) /\ Incoming # <<>>
    /\ Cancelled(l)
    /\ clients' = [clients EXCEPT ![with].chan = Tail(@)]
    /\ Ends(l, "cancelled")
    /\ UNCHANGED <<client, with, sending, rc, crashes, fails, heard,
                   killedLive>>

\* An AssistantMessage becomes events.
ReceivePart(l) ==
    /\ Receiving(l) /\ Incoming # <<>>
    /\ ~Cancelled(l)
    /\ ~Head(Incoming).result
    /\ clients' = [clients EXCEPT ![with].chan = Tail(@)]
    /\ heard' = [heard EXCEPT ![Ctx(l)] = @ \cup {Head(Incoming).ctx}]
    /\ UNCHANGED <<vars, client, stage, with, sending, rc, crashes, fails,
                   outcome, killedLive>>

\* Mutant: every message ends the turn.
ReceiveResult_Any(l) ==
    /\ Receiving(l) /\ Incoming # <<>> /\ ~Cancelled(l)
    /\ clients' = [clients EXCEPT ![with].chan = Tail(@)]
    /\ heard' = [heard EXCEPT ![Ctx(l)] = @ \cup {Head(Incoming).ctx}]
    /\ Ends(l, "done")
    /\ UNCHANGED <<client, with, sending, rc, crashes, fails, killedLive>>

\* A ResultMessage ends the turn, with EventDone or EventError.
ReceiveResult(l) ==
    /\ Receiving(l) /\ Incoming # <<>>
    /\ ~Cancelled(l)
    /\ Head(Incoming).result
    /\ clients' = [clients EXCEPT ![with].chan = Tail(@)]
    /\ heard' = [heard EXCEPT ![Ctx(l)] = @ \cup {Head(Incoming).ctx}]
    /\ Ends(l, "done")
    /\ UNCHANGED <<client, with, sending, rc, crashes, fails, killedLive>>

\* Mutant: a closed channel ends the turn without a reconnect.
ReceiveClosed_Only(l) ==
    /\ SeesClosed(l)
    /\ Ends(l, "closed")
    /\ UNCHANGED <<clients, client, with, sending, rc, crashes, fails, heard,
                   killedLive>>

\* The channel is closed: go reconnectClient(), then EventDone.
ReceiveClosed(l) ==
    /\ SeesClosed(l)
    /\ rc' = [rc EXCEPT ![Ctx(l)].at = "spawned"]
    /\ Ends(l, "closed")
    /\ UNCHANGED <<clients, client, with, sending, crashes, fails, heard,
                   killedLive>>

-----------------------------------------------------------------------------
(* The goroutine reconnectClient spawned by turn t.                        *)

\* First critical section: give up on a stopped adapter, or note c.client.
ReconnectBegins(t) ==
    /\ rc[t].at = "spawned"
    /\ rc' = IF status = "running"
             THEN [rc EXCEPT ![t].at = "disconnect", ![t].old = client]
             ELSE [rc EXCEPT ![t].at = "gone"]
    /\ UNCHANGED <<vars, clients, client, stage, with, sending, crashes, fails,
                   outcome, heard, killedLive>>

ReconnectDisconnects(t) ==
    /\ rc[t].at = "disconnect"
    /\ Disconnects(rc[t].old)
    /\ killedLive' = (killedLive \/ clients[rc[t].old].proc # "dead")
    /\ rc' = [rc EXCEPT ![t].at = "connect"]
    /\ UNCHANGED <<vars, client, stage, with, sending, crashes, outcome,
                   heard>>

ReconnectConnects(t) ==
    /\ rc[t].at = "connect"
    /\ Len(clients) < MaxClients
    /\ clients' = Append(clients, Fresh)
    /\ rc' = [rc EXCEPT ![t].at = "swap", ![t].new = Len(clients) + 1]
    /\ UNCHANGED <<vars, client, stage, with, sending, crashes, fails, outcome,
                   heard, killedLive>>

\* newConnectedClient fails: c.client stays the dead client.
ReconnectFails(t) ==
    /\ rc[t].at = "connect"
    /\ fails < MaxFails
    /\ fails' = fails + 1
    /\ rc' = [rc EXCEPT ![t].at = "gone"]
    /\ UNCHANGED <<vars, clients, client, stage, with, sending, crashes,
                   outcome, heard, killedLive>>

\* Mutant: the second critical section does not look at the status again.
ReconnectSwaps_AnyStatus(t) ==
    /\ rc[t].at = "swap"
    /\ IF client = rc[t].old
       THEN client' = rc[t].new /\ UNCHANGED <<clients, fails>>
       ELSE Disconnects(rc[t].new) /\ UNCHANGED client
    /\ rc' = [rc EXCEPT ![t].at = "gone"]
    /\ UNCHANGED <<vars, stage, with, sending, crashes, outcome, heard,
                   killedLive>>

\* Second critical section: swap, or throw the new client away when the
\* adapter was stopped or c.client is no longer the one noted.
ReconnectSwaps(t) ==
    /\ rc[t].at = "swap"
    /\ IF status = "running" /\ client = rc[t].old
       THEN client' = rc[t].new /\ UNCHANGED <<clients, fails>>
       ELSE Disconnects(rc[t].new) /\ UNCHANGED client
    /\ rc' = [rc EXCEPT ![t].at = "gone"]
    /\ UNCHANGED <<vars, stage, with, sending, crashes, outcome, heard,
                   killedLive>>

ReconnectStep(t) ==
    \/ ReconnectBegins(t) \/ ReconnectDisconnects(t)
    \/ ReconnectConnects(t) \/ ReconnectFails(t) \/ ReconnectSwaps(t)

-----------------------------------------------------------------------------
(* The process of client k (not under src/).                               *)

\* It answers its prompts one after another: a part, then the result.
CliAnswers(k) ==
    /\ clients[k].proc # "dead" /\ clients[k].asked # <<>>
    /\ LET reply == [ctx |-> Head(clients[k].asked), result |-> clients[k].parted]
       IN  clients' = [clients EXCEPT
               ![k].chan   = Append(@, reply),
               ![k].parted = ~@,
               ![k].asked  = IF clients[k].parted THEN Tail(@) ELSE @]
    /\ UNCHANGED <<vars, client, stage, with, sending, rc, crashes, fails,
                   outcome, heard, killedLive>>

\* It dies of SIGINT, sooner or later.
CliInterrupted(k) ==
    /\ clients[k].proc = "hit"
    /\ clients' = [clients EXCEPT ![k].proc = "dead"]
    /\ UNCHANGED <<vars, client, stage, with, sending, rc, crashes, fails,
                   outcome, heard, killedLive>>

\* It dies of itself.
CliDies(k) ==
    /\ clients[k].proc = "up"
    /\ crashes < MaxCrashes
    /\ crashes' = crashes + 1
    /\ clients' = [clients EXCEPT ![k].proc = "dead"]
    /\ UNCHANGED <<vars, client, stage, with, sending, rc, fails, outcome,
                   heard, killedLive>>

TurnStep(l) ==
    \/ TakesClient(l) \/ Listens(l)
    \/ QueryText(l) \/ QueryTextFails(l) \/ QueryStream(l) \/ QueryStreamFails(l)
    \/ ReceiveCancelled(l) \/ ReceivePart(l) \/ ReceiveResult(l) \/ ReceiveClosed(l)

ALoopStep(l) == ABeginTurn(l) \/ ASkipTurn(l) \/ TurnStep(l) \/ ALoop(l)

AdapterNext ==
    \/ AStart \/ ASend \/ ACancel \/ AStop
    \/ \E k \in Lives : AStopReturns(k)
    \/ \E l \in Msgs : ACallerCancels(l) \/ ALoopStep(l) \/ ReconnectStep(l)
    \/ \E s \in sending : StreamWrites(s)
    \/ \E k \in DOMAIN clients : CliAnswers(k) \/ CliInterrupted(k) \/ CliDies(k)

AdapterSpec == AdapterInit /\ [][AdapterNext]_adapterVars

\* Goroutines are scheduled, and a process answers its prompts, or dies when it
\* was interrupted; nobody must call, and no process must die of itself.
AdapterFairSpec ==
    /\ AdapterSpec
    /\ \A l \in Msgs :
           WF_adapterVars(ALoopStep(l)) /\ WF_adapterVars(ReconnectStep(l))
    /\ \A k \in Lives : WF_adapterVars(AStopReturns(k))
    /\ WF_adapterVars(\E s \in sending : StreamWrites(s))
    /\ \A k \in 1 .. MaxClients :
           WF_adapterVars(/\ k \in DOMAIN clients
                          /\ CliAnswers(k) \/ CliInterrupted(k))

-----------------------------------------------------------------------------
(* Properties.                                                             *)

\* Every variable of this module has its type, and a running adapter, a turn
\* past its look at c.client and a reconnect have a client to call.
AdapterTypeOK ==
    /\ clients \in Seq([connected : BOOLEAN, open : BOOLEAN,
                        proc : {"up", "hit", "dead"}, asked : Seq(Prompts),
                        parted : BOOLEAN, chan : Seq([ctx : Prompts, result : BOOLEAN])])
    /\ client \in 0 .. Len(clients) /\ with \in 0 .. Len(clients)
    /\ status = "running" => client # None
    /\ stage \in {"query", "asked", "receive"} => with # None
    /\ \A t \in Msgs :
           rc[t].at \in {"disconnect", "connect", "swap"} => rc[t].old # None
    /\ stage \in {"idle", "begun", "query", "asked", "receive"}
    /\ sending \subseteq [ctx : Msgs, to : 1 .. Len(clients)]
    /\ rc \in [Msgs -> [at : {"none", "spawned", "disconnect", "connect",
                              "swap", "gone"},
                        old : 0 .. Len(clients), new : 0 .. Len(clients)]]
    /\ outcome \in [Msgs -> {"none", "refused", "error", "cancelled", "done",
                             "closed"}]
    /\ heard \in [Msgs -> SUBSET Prompts]

\* No process is orphaned: an open transport is the running adapter's, or a
\* reconnect that will dispose of it still holds it, whatever the order of
\* Stop, Start and any number of reconnects.
NoOrphan ==
    \A k \in DOMAIN clients : clients[k].open =>
        \/ status = "running" /\ client = k
        \/ \E t \in Msgs : rc[t].at = "swap" /\ rc[t].new = k

\* As long as no turn was cut short, every turn takes only its own answers:
\* one prompt, one result, and the channel is empty in between.
OwnAnswers ==
    (\A t \in Msgs : outcome[t] # "cancelled") =>
        \A t \in Msgs : heard[t] \subseteq {t}

\* After Stop returned no process lives but one a late reconnect disposes of.
StopEndsProcesses ==
    \A k \in Lives : stop[k] = "returned" /\ life = k =>
        \A j \in DOMAIN clients : clients[j].proc # "dead" =>
            \E t \in Msgs : rc[t].at = "swap" /\ rc[t].new = j

\* A process whose death a waiting turn sees is replaced, if it is the current
\* one (claude.go:249-251), though other reconnects may be under way, of an
\* earlier life too.  Excepted: a replacement dies before it is swapped in.
LiveClient == client # None /\ clients[client].proc # "dead"
DiedInTurn ==
    /\ \E l \in Msgs : SeesClosed(l) /\ with = client /\ ~LiveClient
    /\ crashes = MaxCrashes
    /\ \A t \in Msgs : rc[t].at = "swap" => clients[rc[t].new].proc # "dead"
DeadProcessIsReplaced == DiedInTurn ~> LiveClient \/ status # "running"

\* "reconnectClient replaces the dead subprocess" (claude.go:249): in one life
\* no reconnect disconnects a process that is not dead, however late it begins.
\* Excepted: a turn with images, whose QueryStream does not notice a dead
\* process, has spawned one.
ReplacesDeadOnly ==
    life <= 1 /\ (\A t \in Images : rc[t].at = "none") => ~killedLive

\* What comments and documentation say, and the code does not keep.

\* "The adapter remains running and ready for new Send() calls" after Cancel
\* (claude.go:452): a dead process is replaced.
ReadyAfterCancel ==
    status = "running" /\ ~LiveClient ~> LiveClient \/ status # "running"

\* "reconnect so the next Send() doesn't hit a broken pipe" (claude.go:764): while
\* reconnectClient replaces the process whose death a turn saw, no turn of a
\* later Send, one that found no run loop any more, fails with EventError.
Reconnecting(t) == rc[t].at \in {"disconnect", "connect", "swap"}
NoBrokenPipe ==
    [][\A t, u \in Msgs :
           /\ Reconnecting(t) /\ status = "running"
           /\ t < u /\ turn[u] # <<>>
           => outcome[u] = "error" \/ outcome'[u] # "error"]_adapterVars

\* EventDone "contains the full assembled Message" of its turn
\* (docs/events.md:121): made of answers to that turn.
DoneHasOwnAnswer == \A t \in Msgs : outcome[t] = "done" => heard[t] = {t}
=============================================================================
