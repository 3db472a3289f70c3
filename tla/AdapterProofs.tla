---------------------------- MODULE AdapterProofs ----------------------------
(***************************************************************************)
(* Theorems about Adapter: it schedules turns as RunLoop does, no process  *)
(* is orphaned by Stop or by a reconnect, a reconnect replaces dead        *)
(* processes only, and a turn takes its own answers, for any number of     *)
(* calls, clients, crashes and failures and any messages with images.      *)
(***************************************************************************)
EXTENDS Adapter, RunLoopProofs

-----------------------------------------------------------------------------
(* The inductive invariant: the clients.                                   *)

\* No turn and no reconnect comes before the first client, and that is Start's.
ClientsBeginWithStart ==
    /\ life = 0 => client = None
    /\ client = None =>
           stage = "idle" /\ \A t \in Msgs : pc[t] = "none" /\ rc[t].at = "none"

\* What a turn leaves behind, an outcome and a reconnect, is not there before
\* its end.
OneEndPerTurn ==
    /\ \A t \in Msgs : rc[t].at # "none" \/ outcome[t] # "none" => fate[t] # "none"
    /\ \A l \in Msgs : pc[l] = "turn" =>
           rc[Ctx(l)].at = "none" /\ outcome[Ctx(l)] = "none"

\* A process that lives has an open transport, of a client that is connected.
LivesInOpen ==
    \A k \in DOMAIN clients :
        /\ clients[k].proc # "dead" => clients[k].open
        /\ clients[k].open => clients[k].connected

\* A reconnect that has disconnected the old client has closed it; the new one
\* is its own until the swap.
HeldByReconnect ==
    /\ \A t \in Msgs : rc[t].at \in {"connect", "swap"} => ~clients[rc[t].old].open
    /\ \A t \in Msgs : rc[t].at = "swap" =>
           /\ rc[t].new \notin {None, client, with}
           /\ \A u \in Msgs : rc[u].at = "swap" /\ rc[u].new = rc[t].new => u = t

ClientsInv ==
    /\ AdapterTypeOK
    /\ ClientsBeginWithStart
    /\ OneEndPerTurn
    /\ LivesInOpen
    /\ HeldByReconnect
    /\ NoOrphan
    /\ StopEndsProcesses

-----------------------------------------------------------------------------
(* The inductive invariant: reconnects of one life.                        *)

Active(t) == rc[t].at \in {"spawned", "disconnect", "connect", "swap"}
ImagesQuiet == \A t \in Images : rc[t].at = "none"

\* Its prompt is on the way, or answers are.
Uses(l, k) == pc[l] = "turn" /\ stage \in {"asked", "receive"} /\ with = k

\* There is one reconnect at a time, and only for a dead client; a turn without
\* images got its prompt to a process that lived, so no reconnect was under way.
OneActive == \A t, u \in Msgs : Active(t) /\ Active(u) => t = u
ActiveForDead == \A t \in Msgs : Active(t) => clients[client].proc = "dead"
UsedIsCurrent ==
    \A l \in Msgs : Uses(l, with) /\ ~HasImages(l) =>
        client = with /\ \A t \in Msgs : ~Active(t)

\* A reconnect that is about to disconnect noted a dead client.
DisconnectsDead ==
    \A t \in Msgs : rc[t].at = "disconnect" => clients[rc[t].old].proc = "dead"

\* All this in one life, and while no turn with images has spawned one.
OneReconnect ==
    life <= 1 /\ ImagesQuiet =>
        /\ status = "running" => OneActive /\ ActiveForDead /\ UsedIsCurrent
        /\ DisconnectsDead

ReconnectInv == OneReconnect /\ ReplacesDeadOnly

-----------------------------------------------------------------------------
(* The inductive invariant: answers.                                       *)

Uncut == \A t \in Msgs : outcome[t] # "cancelled"

Part(t)   == [ctx |-> t, result |-> FALSE]
Result(t) == [ctx |-> t, result |-> TRUE]

\* A client of whom no turn will hear again; one that holds nothing; one that
\* owes or holds the whole answer to t; and one that does all but its part.
Lost(k) == clients[k].proc = "dead" /\ (clients[k].chan = <<>> \/ ~clients[k].connected)
Empty(c) == c.asked = <<>> /\ ~c.parted /\ c.chan = <<>>
Whole(c, t) ==
    \/ c.asked = <<t>> /\ ~c.parted /\ c.chan = <<>>
    \/ c.asked = <<t>> /\ c.parted /\ c.chan = <<Part(t)>>
    \/ c.asked = <<>> /\ ~c.parted /\ c.chan = <<Part(t), Result(t)>>
Rest(c, t) ==
    \/ c.asked = <<t>> /\ c.parted /\ c.chan = <<>>
    \/ c.asked = <<>> /\ ~c.parted /\ c.chan = <<Result(t)>>
Answering(c, t) == Whole(c, t) \/ Rest(c, t)

\* Between turns a client holds nothing, in a turn at most the answer to it; a
\* QueryStream that still has to write belongs to the turn.
EmptyBetween ==
    \A k \in DOMAIN clients :
        Lost(k) \/ Empty(clients[k]) \/ \E l \in Msgs : Uses(l, k)
AnswersItsUser ==
    \A k \in DOMAIN clients : \A l \in Msgs : Uses(l, k) =>
        \/ Empty(clients[k])
        \/ clients[k].proc = "dead" /\ clients[k].chan = <<>>
        \/ Answering(clients[k], Ctx(l)) /\ [ctx |-> Ctx(l), to |-> k] \notin sending
WritesForUser ==
    \A s \in sending :
        \/ clients[s.to].proc = "dead"
        \/ \E l \in Msgs : Uses(l, s.to) /\ Ctx(l) = s.ctx

\* All this unless a turn was cut short.
ClientsAreEmptied == Uncut => EmptyBetween /\ AnswersItsUser /\ WritesForUser

AnswersInv == ClientsAreEmptied /\ OwnAnswers

-----------------------------------------------------------------------------
(* Adapter schedules its turns as RunLoop does.                            *)

Client == [connected : BOOLEAN, open : BOOLEAN,
           proc : {"up", "hit", "dead"}, asked : Seq(Prompts),
           parted : BOOLEAN, chan : Seq([ctx : Prompts, result : BOOLEAN])]

\* A module that extends Adapter may do one thing more, as Compaction does: ask
\* a client prompts of its own and take messages from its channel.
Touches ==
    /\ \E k \in DOMAIN clients, c \in Client :
           /\ clients' = [clients EXCEPT ![k] = c]
           /\ c.connected = clients[k].connected /\ c.open = clients[k].open
           /\ c.proc = clients[k].proc
    /\ UNCHANGED <<vars, client, stage, with, sending, rc, crashes, fails,
                   outcome, heard, killedLive>>
AdapterMove == AdapterNext \/ Touches

LEMMA StepSchedules == ASSUME AdapterMove PROVE [Next]_vars
  <1>1. CASE AStart \/ ASend \/ ACancel \/ AStop \/ \E k \in Lives : AStopReturns(k)
    BY <1>1 DEF AStart, ASend, ACancel, AStop, AStopReturns, Next
  <1>2. ASSUME NEW l \in Msgs, ACallerCancels(l) PROVE Next
    BY <1>2 DEF ACallerCancels, Next
  <1>3. ASSUME NEW l \in Msgs, ALoopStep(l) PROVE [Next]_vars
    <2>1. LoopStep(l) => Next
      BY DEF Next
    <2>2. CASE ABeginTurn(l) \/ ASkipTurn(l) \/ ALoop(l)
      BY <2>1, <2>2 DEF ABeginTurn, ASkipTurn, ALoop, LoopStep
    <2>3. CASE TurnStep(l)
      BY <2>1, <2>3 DEF TurnStep, TakesClient, Listens, QueryText, QueryTextFails,
         QueryStream, QueryStreamFails, ReceiveCancelled, ReceivePart,
         ReceiveResult, ReceiveClosed, Ends, LoopStep
    <2> QED BY <1>3, <2>2, <2>3 DEF ALoopStep
  <1>4. CASE \E t \in Msgs : ReconnectStep(t)
    BY <1>4 DEF ReconnectStep, ReconnectBegins, ReconnectDisconnects,
                ReconnectConnects, ReconnectFails, ReconnectSwaps
  <1>5. CASE \/ \E s \in sending : StreamWrites(s)
             \/ \E k \in DOMAIN clients : CliAnswers(k) \/ CliInterrupted(k) \/ CliDies(k)
    BY <1>5 DEF StreamWrites, CliAnswers, CliInterrupted, CliDies
  <1> QED BY <1>1, <1>2, <1>3, <1>4, <1>5 DEF AdapterMove, Touches, AdapterNext

\* What a turn does with the CLI, and what becomes of the CLI, changes nothing
\* about intake, queue and cancellation: all theorems of RunLoop hold.
THEOREM ImplementsRunLoop == AdapterSpec => Spec
  <1>1. AdapterInit => Init
    BY DEF AdapterInit
  <1>2. [AdapterNext]_adapterVars => [Next]_vars
    BY StepSchedules DEF adapterVars, AdapterMove
  <1> QED BY <1>1, <1>2, PTL DEF AdapterSpec, Spec

-----------------------------------------------------------------------------
(* What a step does to the clients.                                        *)

LEMMA FreshIsClient == Fresh \in Client
  BY DEF Fresh, Client

\* From b to c a client loses its connection, its transport or its process, and
\* gains none of them.
Ages(b, c) ==
    /\ c.connected => b.connected
    /\ \/ c.open = b.open /\ c.connected = b.connected
       \/ ~c.open /\ c.proc = "dead"
    /\ c.proc # "dead" => b.proc # "dead"

LEMMA FirstOfSeq ==
    ASSUME NEW S, NEW s \in Seq(S), s # <<>>
    PROVE  1 \in DOMAIN s /\ s[1] \in S
  OBVIOUS

LEMMA HeadOfSeq ==
    ASSUME NEW S, NEW s \in Seq(S), s # <<>>
    PROVE  Head(s) \in S
  OBVIOUS

\* The turn of a goroutine has a context, and is the only one.
LEMMA TurnHasContext ==
    ASSUME IInv, NEW l \in Msgs, pc[l] \in {"begin", "turn"}
    PROVE  /\ Ctx(l) \in Msgs /\ Ctx(l) \in Range(turn[l])
           /\ \A k \in Msgs : pc[k] = "turn" => k = l
  <1>1. turn[l] # <<>> /\ turn[l] \in Seq(1 .. sent) /\ 1 .. sent \subseteq Msgs
    BY HeldWasSent DEF IInv, TypeOK, CancelHitsOwner, Owners
  <1>2. 1 \in DOMAIN turn[l] /\ turn[l][1] \in 1 .. sent
    BY <1>1, FirstOfSeq
  <1>3. \A k \in Msgs : pc[k] = "turn" => k = l
    BY DEF IInv, OneTurnAtATime, Owners
  <1> QED BY <1>1, <1>2, <1>3 DEF Ctx, Range

\* The client of a message channel or a prompt is one of the clients.
LEMMA ClientIsThere ==
    ASSUME AdapterTypeOK
    PROVE  /\ clients \in Seq(Client) /\ Len(clients) \in Nat
           /\ DOMAIN clients = 1 .. Len(clients)
           /\ \A k \in DOMAIN clients : clients[k] \in Client
           /\ client # None => client \in DOMAIN clients
           /\ with # None => with \in DOMAIN clients
           /\ \A s \in sending : s.to \in DOMAIN clients /\ s.ctx \in Msgs
           /\ \A t \in Msgs : /\ rc[t].old # None => rc[t].old \in DOMAIN clients
                              /\ rc[t].new # None => rc[t].new \in DOMAIN clients
  <1>1. clients \in Seq(Client)
    BY DEF AdapterTypeOK, Client
  <1>2. /\ Len(clients) \in Nat /\ DOMAIN clients = 1 .. Len(clients)
        /\ \A k \in DOMAIN clients : clients[k] \in Client
    BY <1>1
  <1>3. \A k \in 0 .. Len(clients) : k # None => k \in DOMAIN clients
    BY <1>2 DEF None
  <1>4. \A t \in Msgs : rc[t].old \in 0 .. Len(clients) /\ rc[t].new \in 0 .. Len(clients)
    BY DEF AdapterTypeOK
  <1>5. \A s \in sending : s.to \in DOMAIN clients /\ s.ctx \in Msgs
    BY <1>2 DEF AdapterTypeOK
  <1>6. client \in 0 .. Len(clients) /\ with \in 0 .. Len(clients)
    BY DEF AdapterTypeOK
  <1> QED BY <1>1, <1>2, <1>3, <1>4, <1>5, <1>6

\* A change to one client that ages it.
Alters(k) ==
    \E c \in Client : clients' = [clients EXCEPT ![k] = c] /\ Ages(clients[k], c)

LEMMA DisconnectsAlters ==
    ASSUME AdapterTypeOK, NEW k \in DOMAIN clients \cup {None}, Disconnects(k)
    PROVE  clients' = clients \/ (k \in DOMAIN clients /\ Alters(k))
  <1>1. CASE k = None \/ ~clients[k].connected
    BY <1>1 DEF Disconnects
  <1>2. CASE k # None /\ clients[k].connected
    <2>1. PICK failed \in BOOLEAN :
              clients' = [clients EXCEPT ![k].connected = failed, ![k].open = FALSE,
                                         ![k].proc = "dead"]
      BY <1>2, ClientIsThere DEF Disconnects, Client
    <2> DEFINE c == [clients[k] EXCEPT !.connected = failed, !.open = FALSE,
                                       !.proc = "dead"]
    <2>2. k \in DOMAIN clients /\ clients[k] \in Client
      BY <1>2, ClientIsThere
    <2>3. c \in Client
      BY <2>2 DEF Client
    <2>4. clients' = [clients EXCEPT ![k] = c]
      BY <2>1, <2>2
    <2>5. Ages(clients[k], c)
      BY <1>2, <2>2 DEF Ages, Client
    <2> QED BY <2>2, <2>3, <2>4, <2>5 DEF Alters
  <1> QED BY <1>1, <1>2

\* The steps of the turn that has with as its client change it or nothing.
LEMMA ClientsChange ==
    ASSUME IInv, AdapterTypeOK, AdapterMove
    PROVE  \/ clients' = clients
           \/ /\ clients' = Append(clients, Fresh)
              /\ AStart \/ \E t \in Msgs : ReconnectConnects(t)
           \/ \E k \in DOMAIN clients : Alters(k)
  <1>t. /\ client # None => client \in DOMAIN clients
        /\ with # None => with \in DOMAIN clients
        /\ \A k \in DOMAIN clients : clients[k] \in Client
    BY ClientIsThere
  <1>w. ASSUME stage \in {"query", "asked", "receive"} PROVE with \in DOMAIN clients
    BY <1>w, <1>t DEF AdapterTypeOK
  <1>1. CASE AStart \/ \E t \in Msgs : ReconnectConnects(t)
    BY <1>1 DEF AStart, ReconnectConnects
  <1>2. CASE \/ ASend \/ \E k \in Lives : AStopReturns(k)
             \/ \E l \in Msgs : \/ ACallerCancels(l) \/ ABeginTurn(l) \/ ASkipTurn(l)
                                \/ ALoop(l) \/ TakesClient(l) \/ Listens(l)
                                \/ QueryTextFails(l) \/ QueryStream(l)
                                \/ QueryStreamFails(l) \/ ReceiveClosed(l)
                                \/ ReconnectBegins(l) \/ ReconnectFails(l)
    BY <1>2 DEF ASend, AStopReturns, ACallerCancels, ABeginTurn, ASkipTurn, ALoop,
       TakesClient, Listens, QueryTextFails, QueryStream, QueryStreamFails,
       ReceiveClosed, ReconnectBegins, ReconnectFails, clientVars
  <1>3. CASE ACancel
    <2>1. CASE client # None /\ clients[client].connected /\ clients[client].proc = "up"
      <3> DEFINE c == [clients[client] EXCEPT !.proc = "hit"]
      <3>1. clients' = [clients EXCEPT ![client] = c]
        BY <1>3, <2>1, <1>t DEF ACancel
      <3>2. c \in Client /\ Ages(clients[client], c)
        BY <1>t, <2>1 DEF Client, Ages
      <3> QED BY <1>t, <2>1, <3>1, <3>2 DEF Alters
    <2> QED BY <1>3, <2>1 DEF ACancel
  <1>4. CASE AStop
    BY <1>4, <1>t, DisconnectsAlters DEF AStop
  <1>5. ASSUME NEW l \in Msgs, QueryText(l)
        PROVE  \E k \in DOMAIN clients : Alters(k)
    <2> DEFINE c == [clients[with] EXCEPT !.asked = Append(@, Ctx(l))]
    <2>1. with \in DOMAIN clients /\ clients[with] \in Client /\ Ctx(l) \in Msgs
      BY <1>5, <1>w, <1>t, TurnHasContext DEF QueryText
    <2>2. c \in Client /\ Ages(clients[with], c)
      <3>1. Append(clients[with].asked, Ctx(l)) \in Seq(Prompts)
        BY <2>1, AdapterAssumption DEF Client
      <3> QED BY <2>1, <3>1 DEF Client, Ages
    <2>3. clients' = [clients EXCEPT ![with] = c]
      BY <1>5, <2>1 DEF QueryText
    <2> QED BY <2>1, <2>2, <2>3 DEF Alters
  <1>6. ASSUME NEW s \in sending, StreamWrites(s)
        PROVE  clients' = clients \/ \E k \in DOMAIN clients : Alters(k)
    <2> DEFINE c == [clients[s.to] EXCEPT !.asked = Append(@, s.ctx)]
    <2>1. s.to \in DOMAIN clients /\ clients[s.to] \in Client /\ s.ctx \in Msgs
      BY ClientIsThere
    <2>2. c \in Client /\ Ages(clients[s.to], c)
      <3>1. Append(clients[s.to].asked, s.ctx) \in Seq(Prompts)
        BY <2>1, AdapterAssumption DEF Client
      <3> QED BY <2>1, <3>1 DEF Client, Ages
    <2>3. clients' = clients \/ clients' = [clients EXCEPT ![s.to] = c]
      BY <1>6, <2>1 DEF StreamWrites
    <2> QED BY <2>1, <2>2, <2>3 DEF Alters
  <1>7. ASSUME NEW l \in Msgs, ReceiveCancelled(l) \/ ReceivePart(l) \/ ReceiveResult(l)
        PROVE  \E k \in DOMAIN clients : Alters(k)
    <2> DEFINE c == [clients[with] EXCEPT !.chan = Tail(@)]
    <2>1. with \in DOMAIN clients /\ clients[with] \in Client
      BY <1>7, <1>w, <1>t DEF ReceiveCancelled, ReceivePart, ReceiveResult, Receiving
    <2>2. clients[with].chan # <<>>
      BY <1>7 DEF ReceiveCancelled, ReceivePart, ReceiveResult, Incoming
    <2>3. c \in Client /\ Ages(clients[with], c)
      <3>1. Tail(clients[with].chan) \in Seq([ctx : Prompts, result : BOOLEAN])
        BY <2>1, <2>2 DEF Client
      <3> QED BY <2>1, <3>1 DEF Client, Ages
    <2>4. clients' = [clients EXCEPT ![with] = c]
      BY <1>7, <2>1 DEF ReceiveCancelled, ReceivePart, ReceiveResult
    <2> QED BY <2>1, <2>3, <2>4 DEF Alters
  <1>8. ASSUME NEW t \in Msgs, ReconnectDisconnects(t) \/ ReconnectSwaps(t)
        PROVE  clients' = clients \/ \E k \in DOMAIN clients : Alters(k)
    BY <1>8, ClientIsThere, DisconnectsAlters DEF ReconnectDisconnects, ReconnectSwaps
  <1>9. ASSUME NEW k \in DOMAIN clients, CliAnswers(k)
        PROVE  Alters(k)
    <2> DEFINE b == clients[k]
               reply == [ctx |-> Head(b.asked), result |-> b.parted]
               c == [b EXCEPT !.chan = Append(@, reply), !.parted = ~@,
                              !.asked = IF b.parted THEN Tail(@) ELSE @]
    <2>1. b \in Client /\ b.asked # <<>>
      BY <1>9, <1>t DEF CliAnswers
    <2>2. /\ Head(b.asked) \in Prompts /\ Tail(b.asked) \in Seq(Prompts)
          /\ b.chan \in Seq([ctx : Prompts, result : BOOLEAN]) /\ b.parted \in BOOLEAN
      BY <2>1 DEF Client
    <2>3. reply \in [ctx : Prompts, result : BOOLEAN]
      BY <2>2
    <2>4. c \in Client /\ Ages(b, c)
      <3>1. Append(b.chan, reply) \in Seq([ctx : Prompts, result : BOOLEAN])
        BY <2>2, <2>3
      <3> HIDE DEF reply
      <3> QED BY <2>1, <2>2, <3>1 DEF Client, Ages
    <2>5. clients' = [clients EXCEPT ![k] = c]
      BY <1>9 DEF CliAnswers
    <2> QED BY <2>4, <2>5 DEF Alters
  <1>10. ASSUME NEW k \in DOMAIN clients, CliInterrupted(k) \/ CliDies(k)
         PROVE  Alters(k)
    <2> DEFINE c == [clients[k] EXCEPT !.proc = "dead"]
    <2>1. c \in Client /\ Ages(clients[k], c)
      BY <1>t DEF Client, Ages
    <2>2. clients' = [clients EXCEPT ![k] = c]
      BY <1>10 DEF CliInterrupted, CliDies
    <2> QED BY <2>1, <2>2 DEF Alters
  <1>11. CASE Touches
    BY <1>11 DEF Touches, Alters, Ages
  <1> QED BY <1>1, <1>2, <1>3, <1>4, <1>5, <1>6, <1>7, <1>8, <1>9, <1>10, <1>11
          DEF AdapterMove, AdapterNext, ALoopStep, TurnStep, ReconnectStep

\* Every client of before is there, no younger; at most one has come.
ClientsAged ==
    /\ clients' \in Seq(Client) /\ Len(clients') \in Nat
    /\ Len(clients') \in {Len(clients), Len(clients) + 1}
    /\ DOMAIN clients' = 1 .. Len(clients')
    /\ \A k \in DOMAIN clients :
           k \in DOMAIN clients' /\ Ages(clients[k], clients'[k])
    /\ \A k \in DOMAIN clients' :
           \/ k \in DOMAIN clients
           \/ /\ k = Len(clients) + 1 /\ clients'[k] = Fresh
              /\ AStart \/ \E t \in Msgs : ReconnectConnects(t)

LEMMA ClientsAge ==
    ASSUME IInv, AdapterTypeOK, LivesInOpen, AdapterMove
    PROVE  ClientsAged /\ LivesInOpen'
  <1>t. /\ clients \in Seq(Client) /\ Len(clients) \in Nat
        /\ DOMAIN clients = 1 .. Len(clients)
        /\ \A k \in DOMAIN clients : clients[k] \in Client
    BY ClientIsThere
  <1>1. CASE clients' = clients
    BY <1>1, <1>t DEF ClientsAged, Ages, LivesInOpen
  <1>2. CASE /\ clients' = Append(clients, Fresh)
             /\ AStart \/ \E t \in Msgs : ReconnectConnects(t)
    <2>1. /\ clients' \in Seq(Client) /\ Len(clients') = Len(clients) + 1
          /\ \A k \in DOMAIN clients : clients'[k] = clients[k]
          /\ clients'[Len(clients) + 1] = Fresh
      BY <1>2, <1>t, FreshIsClient
    <2>2. DOMAIN clients' = 1 .. Len(clients')
      BY <2>1
    <2>3. ClientsAged
      BY <1>t, <1>2, <2>1, <2>2 DEF ClientsAged, Ages
    <2>4. LivesInOpen'
      BY <1>t, <2>1, <2>2 DEF LivesInOpen, Fresh
    <2> QED BY <2>3, <2>4
  <1>3. ASSUME NEW k \in DOMAIN clients, Alters(k)
        PROVE  ClientsAged /\ LivesInOpen'
    <2>1. PICK c \in Client : clients' = [clients EXCEPT ![k] = c] /\ Ages(clients[k], c)
      BY <1>3 DEF Alters
    <2>2. /\ clients' \in Seq(Client) /\ Len(clients') = Len(clients)
          /\ DOMAIN clients' = DOMAIN clients
          /\ \A j \in DOMAIN clients : clients'[j] = IF j = k THEN c ELSE clients[j]
      BY <1>t, <2>1
    <2> QED BY <1>t, <2>1, <2>2 DEF ClientsAged, Ages, LivesInOpen
  <1> QED BY <1>1, <1>2, <1>3, ClientsChange

-----------------------------------------------------------------------------
(* What a step of RunLoop leaves alone.                                    *)

LEMMA FateStays ==
    ASSUME IInv, [Next]_vars, NEW m \in Msgs, fate[m] # "none"
    PROVE  fate'[m] # "none"
  <1>t. fate \in [Msgs -> {"none", "refused", "begun", "dropped"}]
    BY DEF IInv, TypeOK
  <1>1. CASE fate' = fate
    BY <1>1
  <1>2. CASE SendRefused
    BY <1>2, <1>t DEF SendRefused
  <1>3. CASE Cancel
    BY <1>3, <1>t DEF Cancel
  <1>4. CASE \E l \in Msgs : BeginTurn(l) \/ SkipTurn(l)
    BY <1>4, <1>t DEF BeginTurn, SkipTurn
  <1>5. fate' = fate \/ SendRefused \/ Cancel \/ \E l \in Msgs : BeginTurn(l) \/ SkipTurn(l)
    BY DEF Next, LoopStep, Start, SendQueues, SendStarts, Stop, StopWaited, StopReturns,
           CallerCancels, EndTurn, Drain, LeaveLoop, Release, WgDone, vars
  <1> QED BY <1>1, <1>2, <1>3, <1>4, <1>5

\* Who is in a turn has just begun it, or it is the same turn as before.
LEMMA TurnLasts ==
    ASSUME IInv, [Next]_vars, NEW l \in Msgs, pc'[l] = "turn"
    PROVE  BeginTurn(l) \/ (pc[l] = "turn" /\ turn'[l] = turn[l])
  <1>t. pc \in [Msgs -> Places] /\ turn \in [Msgs -> Seq(1 .. sent)]
    BY DEF IInv, TypeOK
  <1>1. CASE pc' = pc /\ turn' = turn
    BY <1>1
  <1>2. CASE SendStarts
    BY <1>2, <1>t DEF SendStarts
  <1>3. CASE \E k \in Msgs : LoopStep(k)
    BY <1>3, <1>t DEF LoopStep, BeginTurn, SkipTurn, EndTurn, Drain, LeaveLoop,
                      Release, WgDone
  <1> QED BY <1>1, <1>2, <1>3 DEF Next, Start, SendRefused, SendQueues, Cancel, Stop,
             StopWaited, StopReturns, CallerCancels, loopVars, vars

\* A turn lasts until its goroutine ends it.
LEMMA TurnStays ==
    ASSUME IInv, [Next]_vars, NEW l \in Msgs, pc[l] = "turn"
    PROVE  EndTurn(l) \/ (pc'[l] = "turn" /\ turn'[l] = turn[l])
  <1>t. /\ pc \in [Msgs -> Places] /\ turn \in [Msgs -> Seq(1 .. sent)]
        /\ UnsentUntouched /\ sent \in Nat
    BY HeldWasSent DEF IInv, TypeOK
  <1>1. CASE pc' = pc /\ turn' = turn
    BY <1>1
  <1>2. CASE SendStarts
    <2>1. l # sent + 1
      BY <1>t DEF UnsentUntouched
    <2> QED BY <1>2, <1>t, <2>1 DEF SendStarts
  <1>3. CASE \E k \in Msgs : LoopStep(k)
    BY <1>3, <1>t DEF LoopStep, BeginTurn, SkipTurn, EndTurn, Drain, LeaveLoop,
                      Release, WgDone
  <1> QED BY <1>1, <1>2, <1>3 DEF Next, Start, SendRefused, SendQueues, Cancel, Stop,
             StopWaited, StopReturns, CallerCancels, loopVars, vars

\* A turn that begins is of messages of which nothing has become yet.
LEMMA BeginsFirst ==
    ASSUME IInv, NEW l \in Msgs, pc[l] = "begin"
    PROVE  Ctx(l) \in Msgs /\ fate[Ctx(l)] = "none"
  <1>1. Ctx(l) \in Msgs /\ Ctx(l) \in Waiting
    BY TurnHasContext, AboutToBeginElement DEF Waiting
  <1> QED BY <1>1 DEF IInv, NothingLost

\* Goroutines come with a Send to a running adapter, lives with a Start.
LEMMA NothingFromNothing ==
    ASSUME IInv, [Next]_vars
    PROVE  /\ life' = life \/ Start
           /\ status' = status \/ Start \/ Stop
           /\ (\A l \in Msgs : pc[l] = "none") /\ status # "running" =>
                  \A l \in Msgs : pc'[l] = "none"
  <1>1. life' = life \/ Start
    BY DEF Next, LoopStep, SendRefused, SendQueues, SendStarts, Cancel, Stop,
           StopWaited, StopReturns, CallerCancels, BeginTurn, SkipTurn, EndTurn, Drain,
           LeaveLoop, Release, WgDone, vars
  <1>2. status' = status \/ Start \/ Stop
    BY DEF Next, LoopStep, SendRefused, SendQueues, SendStarts, Cancel,
           StopWaited, StopReturns, CallerCancels, BeginTurn, SkipTurn, EndTurn, Drain,
           LeaveLoop, Release, WgDone, vars
  <1>3. pc' = pc \/ (SendStarts /\ status = "running") \/ \E l \in Msgs : pc[l] # "none"
    BY DEF Next, LoopStep, Start, SendRefused, SendQueues, SendStarts, Cancel, Stop,
           StopWaited, StopReturns, CallerCancels, BeginTurn, SkipTurn, EndTurn, Drain,
           LeaveLoop, Release, WgDone, loopVars, vars
  <1> QED BY <1>1, <1>2, <1>3

-----------------------------------------------------------------------------
(* Which steps change what.                                                *)

\* The steps of callers, loops and processes that leave the turn, c.client and
\* the reconnects alone.
Aside == UNCHANGED <<client, stage, with, sending, rc, outcome, heard, killedLive>>

\* No turn begins or ends.
TurnsLast ==
    \A l \in Msgs : /\ pc'[l] = "turn" <=> pc[l] = "turn"
                    /\ pc[l] = "turn" => turn'[l] = turn[l]

LEMMA AsideSteps ==
    ASSUME IInv, AdapterMove,
           \/ ASend \/ ACancel \/ Touches
           \/ \E k \in Lives : AStopReturns(k)
           \/ \E l \in Msgs : ACallerCancels(l) \/ ASkipTurn(l) \/ ALoop(l)
           \/ \E k \in DOMAIN clients : CliAnswers(k) \/ CliInterrupted(k) \/ CliDies(k)
    PROVE  Aside /\ status' = status /\ TurnsLast
  <1>t. pc \in [Msgs -> Places]
    BY DEF IInv, TypeOK
  <1>n. ASSUME Aside, status' = status,
               \A l \in Msgs : ~BeginTurn(l) /\ (pc[l] = "turn" => ~EndTurn(l))
        PROVE  Aside /\ status' = status /\ TurnsLast
    BY <1>n, TurnLasts, TurnStays, StepSchedules DEF TurnsLast
  <1>1. CASE ASend \/ ACancel \/ \E k \in Lives : AStopReturns(k)
    <2>1. Aside /\ status' = status
      BY <1>1 DEF ASend, SendRefused, SendQueues, SendStarts, ACancel, Cancel,
                  AStopReturns, StopWaited, StopReturns, clientVars, Aside
    <2>2. \A l \in Msgs : ~BeginTurn(l) /\ (pc[l] = "turn" => ~EndTurn(l))
      <3>1. pc' = pc \/ pc' = [pc EXCEPT ![sent + 1] = "begin"]
        BY <1>1 DEF ASend, SendRefused, SendQueues, SendStarts, ACancel, Cancel,
                    AStopReturns, StopWaited, StopReturns, loopVars
      <3> QED BY <1>t, <3>1 DEF BeginTurn, EndTurn
    <2> QED BY <1>n, <2>1, <2>2
  <1>2. ASSUME NEW k \in Msgs, ACallerCancels(k) \/ ASkipTurn(k) \/ ALoop(k)
        PROVE  Aside /\ status' = status /\ TurnsLast
    <2>1. Aside /\ status' = status
      BY <1>2 DEF ACallerCancels, CallerCancels, ASkipTurn, SkipTurn, ALoop, Drain,
                  LeaveLoop, Release, WgDone, clientVars, Aside
    <2>2. \A l \in Msgs : ~BeginTurn(l) /\ (pc[l] = "turn" => ~EndTurn(l))
      BY <1>2, <1>t DEF ACallerCancels, CallerCancels, ASkipTurn, SkipTurn, ALoop,
                        Drain, LeaveLoop, Release, WgDone, BeginTurn, EndTurn
    <2> QED BY <1>n, <2>1, <2>2
  <1>3. CASE \E k \in DOMAIN clients : CliAnswers(k) \/ CliInterrupted(k) \/ CliDies(k)
    BY <1>3 DEF CliAnswers, CliInterrupted, CliDies, vars, Aside, TurnsLast
  <1>4. CASE Touches
    BY <1>4 DEF Touches, vars, Aside, TurnsLast
  <1> QED BY <1>1, <1>2, <1>3, <1>4

LEMMA StepKinds ==
    ASSUME IInv, AdapterMove
    PROVE  \/ AStart
           \/ AStop
           \/ Aside /\ status' = status /\ TurnsLast
           \/ \E l \in Msgs : ABeginTurn(l) \/ TurnStep(l)
           \/ \E t \in Msgs : ReconnectStep(t)
           \/ \E s \in sending : StreamWrites(s)
  BY AsideSteps DEF AdapterMove, AdapterNext, ALoopStep

\* A step inside the turn of l: it goes on, with its client and stage, or ends.
GoesOn(l) ==
    /\ UNCHANGED <<status, life, pc, turn, client, rc, outcome>>
    /\ \/ TakesClient(l)
       \/ with' = with /\ stage' = stage
       \/ /\ with' = with /\ stage = "query" /\ stage' = "asked"
          /\ HasImages(l) \/ ~Broken(with)
       \/ with' = with /\ stage = "asked" /\ stage' = "receive"
EndsTurn(l) ==
    /\ EndTurn(l) /\ UNCHANGED <<status, life, turn, client, with, sending>>
    /\ stage' = "idle"
    /\ \E how \in {"refused", "error", "cancelled", "done", "closed"} :
           outcome' = [outcome EXCEPT ![Ctx(l)] = how]
    /\ \/ rc' = rc
       \/ SeesClosed(l) /\ rc' = [rc EXCEPT ![Ctx(l)].at = "spawned"]

LEMMA TurnSteps ==
    ASSUME NEW l \in Msgs, TurnStep(l)
    PROVE  /\ pc[l] = "turn" /\ UNCHANGED killedLive
           /\ GoesOn(l) \/ EndsTurn(l)
  <1>1. CASE \/ TakesClient(l) \/ Listens(l) \/ QueryText(l) \/ QueryStream(l)
             \/ ReceivePart(l)
    BY <1>1 DEF TakesClient, Listens, QueryText, QueryStream, ReceivePart, Receiving,
                GoesOn, vars
  <1>2. CASE QueryTextFails(l)
    BY <1>2 DEF QueryTextFails, Ends, EndTurn, EndsTurn
  <1>3. CASE QueryStreamFails(l) \/ ReceiveCancelled(l) \/ ReceiveResult(l)
    BY <1>3 DEF QueryStreamFails, ReceiveCancelled, ReceiveResult, Receiving, Ends,
                EndTurn, EndsTurn
  <1>4. CASE ReceiveClosed(l)
    BY <1>4 DEF ReceiveClosed, SeesClosed, Receiving, Ends, EndTurn, EndsTurn
  <1> QED BY <1>1, <1>2, <1>3, <1>4 DEF TurnStep

-----------------------------------------------------------------------------
(* The clients: the inductive step.                                        *)

RcSet(n) == [at : {"none", "spawned", "disconnect", "connect", "swap", "gone"},
             old : 0 .. n, new : 0 .. n]

\* The assumptions of the lemmas below, and what they all need.
Before == IInv /\ IInv' /\ ClientsInv /\ AdapterMove

LEMMA BeforeFacts ==
    ASSUME Before
    PROVE  /\ [Next]_vars /\ ClientsAged /\ LivesInOpen'
           /\ Len(clients) \in Nat /\ Len(clients') \in Nat
           /\ Len(clients) <= Len(clients')
           /\ DOMAIN clients = 1 .. Len(clients)
           /\ rc \in [Msgs -> RcSet(Len(clients))]
           /\ outcome \in [Msgs -> {"none", "refused", "error", "cancelled", "done",
                                    "closed"}]
  <1>1. [Next]_vars /\ ClientsAged /\ LivesInOpen'
    BY StepSchedules, ClientsAge DEF Before, ClientsInv
  <1>2. Len(clients) \in Nat /\ DOMAIN clients = 1 .. Len(clients)
    BY ClientIsThere DEF Before, ClientsInv
  <1>3. Len(clients') \in Nat /\ Len(clients) <= Len(clients')
    <2>1. Len(clients') \in {Len(clients), Len(clients) + 1}
      BY <1>1 DEF ClientsAged
    <2> QED BY <1>2, <2>1
  <1>4. /\ rc \in [Msgs -> RcSet(Len(clients))]
        /\ outcome \in [Msgs -> {"none", "refused", "error", "cancelled", "done",
                                 "closed"}]
    BY DEF Before, ClientsInv, AdapterTypeOK, RcSet
  <1> QED BY <1>1, <1>2, <1>3, <1>4

\* A reconnect changes its own record and, in a swap, c.client.
LEMMA ReconnectSteps ==
    ASSUME Before, NEW t \in Msgs, ReconnectStep(t)
    PROVE  /\ UNCHANGED <<vars, stage, with, sending, outcome, heard>>
           /\ \E r \in RcSet(Len(clients')) :
                 /\ rc' = [rc EXCEPT ![t] = r]
                 /\ rc[t].at \in {"spawned", "disconnect", "connect", "swap"}
                 /\ r.at \in {"disconnect", "connect", "swap", "gone"}
                 /\ r.at \in {"disconnect", "connect", "swap"} => r.old # None
                 /\ \/ client' = client
                    \/ /\ rc[t].at = "swap" /\ client' = rc[t].new /\ r.at = "gone"
                 /\ r.at = "disconnect" => status = "running" /\ r.old = client
                 /\ r.at = "connect" => ReconnectDisconnects(t) /\ r.old = rc[t].old
                 /\ r.at = "swap" =>
                        /\ rc[t].at = "connect" /\ r.old = rc[t].old
                        /\ r.new = Len(clients) + 1
  <1>t. /\ rc \in [Msgs -> RcSet(Len(clients))] /\ rc[t] \in RcSet(Len(clients'))
        /\ client \in 0 .. Len(clients') /\ Len(clients) \in Nat
        /\ Len(clients') \in Nat /\ Len(clients) <= Len(clients')
        /\ status = "running" => client # None
        /\ rc[t].at \in {"disconnect", "connect", "swap"} => rc[t].old # None
    <2>1. RcSet(Len(clients)) \subseteq RcSet(Len(clients'))
      BY BeforeFacts DEF RcSet
    <2>2. /\ client \in 0 .. Len(clients) /\ (status = "running" => client # None)
          /\ rc[t].at \in {"disconnect", "connect", "swap"} => rc[t].old # None
      BY DEF Before, ClientsInv, AdapterTypeOK
    <2> QED BY <2>1, <2>2, BeforeFacts
  <1>1. CASE ReconnectBegins(t)
    <2>1. \E r : /\ r = IF status = "running"
                        THEN [rc[t] EXCEPT !.at = "disconnect", !.old = client]
                        ELSE [rc[t] EXCEPT !.at = "gone"]
                 /\ rc' = [rc EXCEPT ![t] = r]
      BY <1>1, <1>t DEF ReconnectBegins
    <2>2. PICK r : <2>1!(r)
      BY <2>1
    <2>3. /\ r \in RcSet(Len(clients')) /\ r.at \in {"disconnect", "gone"}
          /\ r.at = "disconnect" =>
                 status = "running" /\ r.old = client /\ r.old # None
      BY <1>t, <2>2 DEF RcSet
    <2> QED BY <1>1, <2>2, <2>3 DEF ReconnectBegins
  <1>2. CASE ReconnectDisconnects(t)
    <2>1. \E r : r = [rc[t] EXCEPT !.at = "connect"] /\ rc' = [rc EXCEPT ![t] = r]
      BY <1>2, <1>t DEF ReconnectDisconnects
    <2> QED BY <1>2, <1>t, <2>1, ZenonT(40) DEF ReconnectDisconnects, RcSet
  <1>3. CASE ReconnectConnects(t)
    <2> DEFINE r == [rc[t] EXCEPT !.at = "swap", !.new = Len(clients) + 1]
    <2>1. rc' = [rc EXCEPT ![t] = r]
      BY <1>3, <1>t DEF ReconnectConnects
    <2>2. Len(clients') = Len(clients) + 1
      BY <1>3, ClientIsThere DEF ReconnectConnects, Before, ClientsInv
    <2>3. Len(clients) + 1 \in 0 .. Len(clients')
      BY <1>t, <2>2
    <2>4. /\ r \in RcSet(Len(clients')) /\ r.at = "swap"
          /\ r.old = rc[t].old /\ r.new = Len(clients) + 1
      BY <1>t, <2>3 DEF RcSet
    <2>5. rc[t].at = "connect" /\ client' = client
      BY <1>3 DEF ReconnectConnects
    <2>6. UNCHANGED <<vars, stage, with, sending, outcome, heard>>
      BY <1>3 DEF ReconnectConnects
    <2> HIDE DEF r
    <2> QED BY <1>t, <2>1, <2>4, <2>5, <2>6
  <1>4. CASE ReconnectFails(t)
    <2>1. \E r : r = [rc[t] EXCEPT !.at = "gone"] /\ rc' = [rc EXCEPT ![t] = r]
      BY <1>4, <1>t DEF ReconnectFails
    <2> QED BY <1>4, <1>t, <2>1 DEF ReconnectFails, RcSet
  <1>5. CASE ReconnectSwaps(t)
    <2>1. \E r : r = [rc[t] EXCEPT !.at = "gone"] /\ rc' = [rc EXCEPT ![t] = r]
      BY <1>5, <1>t DEF ReconnectSwaps
    <2> QED BY <1>5, <1>t, <2>1 DEF ReconnectSwaps, RcSet
  <1> QED BY <1>1, <1>2, <1>3, <1>4, <1>5 DEF ReconnectStep

LEMMA StepAdapterType == ASSUME Before PROVE AdapterTypeOK'
  <1>t. /\ client \in 0 .. Len(clients) /\ with \in 0 .. Len(clients)
        /\ status = "running" => client # None
        /\ stage \in {"query", "asked", "receive"} => with # None
        /\ stage \in {"idle", "begun", "query", "asked", "receive"}
        /\ sending \subseteq [ctx : Msgs, to : 1 .. Len(clients)]
        /\ heard \in [Msgs -> SUBSET Prompts]
        /\ \A t \in Msgs :
               rc[t].at \in {"disconnect", "connect", "swap"} => rc[t].old # None
    BY DEF Before, ClientsInv, AdapterTypeOK
  <1>n. /\ Len(clients) \in Nat /\ Len(clients') \in Nat
        /\ 0 .. Len(clients) \subseteq 0 .. Len(clients')
        /\ [ctx : Msgs, to : 1 .. Len(clients)]
             \subseteq [ctx : Msgs, to : 1 .. Len(clients')]
        /\ RcSet(Len(clients)) \subseteq RcSet(Len(clients'))
    BY BeforeFacts DEF RcSet
  <1>1. clients' \in Seq(Client)
    BY BeforeFacts DEF ClientsAged
  <1>2. client' \in 0 .. Len(clients') /\ (status' = "running" => client' # None)
    <2>1. CASE AStart
      BY <1>n, <2>1, ClientIsThere DEF AStart, None, Before, ClientsInv
    <2>2. CASE AStop
      BY <1>t, <1>n, <2>2 DEF AStop, Stop
    <2>3. CASE Aside /\ status' = status
      BY <1>t, <1>n, <2>3 DEF Aside
    <2>4. ASSUME NEW l \in Msgs, ABeginTurn(l) \/ TurnStep(l)
          PROVE  UNCHANGED <<client, status>>
      BY <2>4, TurnSteps DEF ABeginTurn, BeginTurn, GoesOn, EndsTurn
    <2>5. ASSUME NEW t \in Msgs, ReconnectStep(t)
          PROVE  client' \in 0 .. Len(clients') /\ (status' = "running" => client' # None)
      <3>1. rc[t].new \in 0 .. Len(clients) /\ (rc[t].at = "swap" => rc[t].new # None)
        BY BeforeFacts DEF RcSet, Before, ClientsInv, HeldByReconnect
      <3> QED BY <1>t, <1>n, <2>5, <3>1, ReconnectSteps DEF vars
    <2>6. ASSUME NEW s \in sending, StreamWrites(s) PROVE UNCHANGED <<client, status>>
      BY <2>6 DEF StreamWrites, vars
    <2> QED BY <1>t, <1>n, <2>1, <2>2, <2>3, <2>4, <2>5, <2>6, StepKinds DEF Before
  <1>3. /\ with' \in 0 .. Len(clients')
        /\ stage' \in {"idle", "begun", "query", "asked", "receive"}
        /\ stage' \in {"query", "asked", "receive"} => with' # None
    <2>1. CASE UNCHANGED <<stage, with>>
      BY <1>t, <1>n, <2>1
    <2>2. ASSUME NEW l \in Msgs, ABeginTurn(l)
          PROVE  stage' = "begun" /\ with' = with
      BY <2>2 DEF ABeginTurn
    <2>3. ASSUME NEW l \in Msgs, TurnStep(l)
          PROVE  \/ with' = client /\ stage' = "query" /\ stage = "begun"
                 \/ with' = with /\ stage' = stage
                 \/ with' = with /\ stage' \in {"asked", "receive", "idle"}
                    /\ (stage' # "idle" => stage \in {"query", "asked"})
      BY <2>3, TurnSteps DEF GoesOn, EndsTurn, TakesClient
    <2>4. stage = "begun" => client # None
      BY DEF Before, ClientsInv, ClientsBeginWithStart
    <2>5. ASSUME NEW t \in Msgs, ReconnectStep(t) PROVE UNCHANGED <<stage, with>>
      BY <2>5, ReconnectSteps
    <2>6. AStart \/ AStop \/ Aside \/ (\E s \in sending : StreamWrites(s))
              => UNCHANGED <<stage, with>>
      BY DEF AStart, AStop, Aside, StreamWrites
    <2>7. IInv /\ AdapterMove
      BY DEF Before
    <2> QED BY <1>t, <1>n, <2>1, <2>2, <2>3, <2>4, <2>5, <2>6, <2>7, StepKinds
  <1>4. sending' \subseteq [ctx : Msgs, to : 1 .. Len(clients')]
    <2>1. ASSUME NEW l \in Msgs, QueryStream(l)
          PROVE  sending' \subseteq [ctx : Msgs, to : 1 .. Len(clients)]
      <3>1. with \in 1 .. Len(clients) /\ Ctx(l) \in Msgs
        BY <1>t, <1>n, <2>1, TurnHasContext DEF QueryStream, Before, None
      <3> QED BY <1>t, <2>1, <3>1 DEF QueryStream
    <2>2. ASSUME NEW s \in sending, StreamWrites(s) PROVE sending' \subseteq sending
      BY <2>2 DEF StreamWrites
    <2>3. \/ sending' = sending \/ \E l \in Msgs : QueryStream(l)
          \/ \E s \in sending : StreamWrites(s)
      <3>1. \A l \in Msgs : TurnStep(l) => sending' = sending \/ QueryStream(l)
        BY DEF TurnStep, TakesClient, Listens, QueryText, QueryTextFails,
               QueryStreamFails, ReceiveCancelled, ReceivePart, ReceiveResult,
               ReceiveClosed
      <3>2. \A t \in Msgs : ReconnectStep(t) => sending' = sending
        BY ReconnectSteps
      <3>3. AStart \/ AStop \/ Aside \/ (\E l \in Msgs : ABeginTurn(l))
              => sending' = sending
        BY DEF AStart, AStop, Aside, ABeginTurn
      <3> QED BY <3>1, <3>2, <3>3, StepKinds DEF Before
    <2> QED BY <1>t, <1>n, <2>1, <2>2, <2>3
  <1>5. /\ rc' \in [Msgs -> RcSet(Len(clients'))]
        /\ \A t \in Msgs :
               rc'[t].at \in {"disconnect", "connect", "swap"} => rc'[t].old # None
    <2>t. rc \in [Msgs -> RcSet(Len(clients'))]
      BY <1>n, BeforeFacts
    <2>1. CASE rc' = rc
      BY <1>t, <2>t, <2>1
    <2>2. ASSUME NEW t \in Msgs, ReconnectStep(t)
          PROVE  <1>5!1 /\ <1>5!2
      <3>1. PICK r \in RcSet(Len(clients')) :
                /\ rc' = [rc EXCEPT ![t] = r]
                /\ r.at \in {"disconnect", "connect", "swap"} => r.old # None
        BY <2>2, ReconnectSteps
      <3> QED BY <1>t, <2>t, <3>1
    <2>3. ASSUME NEW l \in Msgs, EndsTurn(l)
          PROVE  <1>5!1 /\ <1>5!2
      <3>1. Ctx(l) \in Msgs
        BY <2>3, TurnHasContext DEF EndsTurn, EndTurn, Before
      <3> DEFINE r == [rc[Ctx(l)] EXCEPT !.at = "spawned"]
      <3>2. rc' = rc \/ rc' = [rc EXCEPT ![Ctx(l)] = r]
        BY <2>3, <2>t, <3>1 DEF EndsTurn
      <3>3. r \in RcSet(Len(clients')) /\ r.at = "spawned"
        BY <2>t, <3>1 DEF RcSet
      <3> HIDE DEF r
      <3> QED BY <1>t, <2>t, <3>1, <3>2, <3>3
    <2>4. \/ rc' = rc \/ \E l \in Msgs : EndsTurn(l)
          \/ \E t \in Msgs : ReconnectStep(t)
      <3>1. \A l \in Msgs : TurnStep(l) => rc' = rc \/ EndsTurn(l)
        BY TurnSteps DEF GoesOn
      <3>2. ASSUME \/ AStart \/ AStop \/ Aside \/ (\E l \in Msgs : ABeginTurn(l))
                   \/ (\E s \in sending : StreamWrites(s))
            PROVE  rc' = rc
        BY <3>2 DEF AStart, AStop, Aside, ABeginTurn, StreamWrites
      <3> QED BY <3>1, <3>2, StepKinds DEF Before
    <2> QED BY <2>1, <2>2, <2>3, <2>4
  <1>6. outcome' \in [Msgs -> {"none", "refused", "error", "cancelled", "done",
                               "closed"}]
    <2>1. \A l \in Msgs : TurnStep(l) => outcome' = outcome \/ EndsTurn(l)
      BY TurnSteps DEF GoesOn
    <2>2. \A t \in Msgs : ReconnectStep(t) => outcome' = outcome
      BY ReconnectSteps
    <2>3. ASSUME \/ AStart \/ AStop \/ Aside \/ (\E l \in Msgs : ABeginTurn(l))
                 \/ (\E s \in sending : StreamWrites(s))
          PROVE  outcome' = outcome
      BY <2>3 DEF AStart, AStop, Aside, ABeginTurn, StreamWrites
    <2>4. outcome' = outcome \/ \E l \in Msgs : EndsTurn(l)
      BY <2>1, <2>2, <2>3, StepKinds DEF Before
    <2> QED BY <2>4, BeforeFacts DEF EndsTurn
  <1>7. heard' \in [Msgs -> SUBSET Prompts]
    <2>1. ASSUME NEW l \in Msgs, ReceivePart(l) \/ ReceiveResult(l)
          PROVE  heard' \in [Msgs -> SUBSET Prompts]
      <3>1. with \in DOMAIN clients /\ clients[with] \in Client
        BY <2>1, <1>t, ClientIsThere
           DEF ReceivePart, ReceiveResult, Receiving, Before, ClientsInv
      <3>2. Head(Incoming).ctx \in Prompts
        <4>1. Incoming \in Seq([ctx : Prompts, result : BOOLEAN]) /\ Incoming # <<>>
          BY <2>1, <3>1 DEF ReceivePart, ReceiveResult, Incoming, Client
        <4>2. Head(Incoming) \in [ctx : Prompts, result : BOOLEAN]
          BY <4>1, HeadOfSeq
        <4> QED BY <4>2
      <3>3. heard' = [heard EXCEPT ![Ctx(l)] = @ \cup {Head(Incoming).ctx}]
        BY <2>1 DEF ReceivePart, ReceiveResult
      <3> QED BY <1>t, <3>2, <3>3
    <2>2. \A l \in Msgs : TurnStep(l) =>
              heard' = heard \/ ReceivePart(l) \/ ReceiveResult(l)
      BY DEF TurnStep, TakesClient, Listens, QueryText, QueryTextFails, QueryStream,
             QueryStreamFails, ReceiveCancelled, ReceiveClosed
    <2>3. \A t \in Msgs : ReconnectStep(t) => heard' = heard
      BY ReconnectSteps
    <2>4. ASSUME \/ AStart \/ AStop \/ Aside \/ (\E l \in Msgs : ABeginTurn(l))
                 \/ (\E s \in sending : StreamWrites(s))
          PROVE  heard' = heard
      BY <2>4 DEF AStart, AStop, Aside, ABeginTurn, StreamWrites
    <2> QED BY <1>t, <2>1, <2>2, <2>3, <2>4, StepKinds DEF Before
  <1> QED BY <1>1, <1>2, <1>3, <1>4, <1>5, <1>6, <1>7 DEF AdapterTypeOK, Client, RcSet

LEMMA StepBeginsWithStart == ASSUME Before PROVE ClientsBeginWithStart'
  <1>1. \/ AStart \/ client' = client
        \/ \E t \in Msgs : rc[t].at = "swap" /\ client' = rc[t].new
    <2>1. ASSUME AStop \/ Aside \/ (\E s \in sending : StreamWrites(s))
                   \/ (\E l \in Msgs : ABeginTurn(l))
          PROVE  client' = client
      BY <2>1 DEF AStop, Aside, StreamWrites, ABeginTurn
    <2>2. \A l \in Msgs : TurnStep(l) => client' = client
      BY TurnSteps DEF GoesOn, EndsTurn
    <2>3. \A t \in Msgs : ReconnectStep(t) =>
              client' = client \/ (rc[t].at = "swap" /\ client' = rc[t].new)
      BY ReconnectSteps
    <2> QED BY <2>1, <2>2, <2>3, StepKinds DEF Before
  <1>2. AStart => client' # None /\ life' # 0
    BY ClientIsThere, RunLoopAssumption
       DEF AStart, Start, None, Before, ClientsInv, IInv, TypeOK
  <1>3. client' = None => client = None
    BY <1>1, <1>2 DEF Before, ClientsInv, HeldByReconnect
  <1>4. life' = 0 => client' = None
    <2>1. life' = life \/ Start
      BY BeforeFacts, NothingFromNothing DEF Before
    <2>2. life' = 0 => life = 0
      BY <2>1, RunLoopAssumption DEF Start, Before, IInv, TypeOK
    <2> QED BY <1>1, <1>2, <2>2 DEF Before, ClientsInv, ClientsBeginWithStart
  <1>5. ASSUME client' = None
        PROVE  stage' = "idle" /\ \A t \in Msgs : pc'[t] = "none" /\ rc'[t].at = "none"
    <2>1. /\ stage = "idle" /\ status # "running"
          /\ \A t \in Msgs : pc[t] = "none" /\ rc[t].at = "none"
      BY <1>3, <1>5 DEF Before, ClientsInv, ClientsBeginWithStart, AdapterTypeOK
    <2>2. \A t \in Msgs : pc'[t] = "none"
      BY <2>1, BeforeFacts, NothingFromNothing DEF Before
    <2>3. \A l \in Msgs : ~ABeginTurn(l) /\ ~TurnStep(l)
      BY <2>1, TurnSteps DEF ABeginTurn, BeginTurn
    <2>4. \A t \in Msgs : ~ReconnectStep(t)
      BY <2>1, ReconnectSteps
    <2>5. UNCHANGED <<stage, rc>>
      BY <1>2, <1>5, <2>3, <2>4, StepKinds DEF AStop, Aside, StreamWrites, Before
    <2> QED BY <2>1, <2>2, <2>5
  <1> QED BY <1>4, <1>5 DEF ClientsBeginWithStart

\* An outcome and a reconnect come from the end of the turn that has the context.
LEMMA NewEnds ==
    ASSUME Before, NEW t \in Msgs,
           \/ rc[t].at = "none" /\ rc'[t].at # "none"
           \/ outcome'[t] # outcome[t]
    PROVE  \E l \in Msgs : TurnStep(l) /\ EndsTurn(l) /\ pc[l] = "turn" /\ t = Ctx(l)
  <1>1. ~(AStart \/ AStop \/ Aside \/ \E s \in sending : StreamWrites(s))
    BY DEF AStart, AStop, Aside, StreamWrites
  <1>2. \A l \in Msgs : ~ABeginTurn(l)
    BY DEF ABeginTurn
  <1>3. ASSUME NEW u \in Msgs, ReconnectStep(u) PROVE FALSE
    BY <1>3, ReconnectSteps, BeforeFacts
  <1>4. PICK l \in Msgs : TurnStep(l)
    BY <1>1, <1>2, <1>3, StepKinds DEF Before
  <1>5. EndsTurn(l) /\ pc[l] = "turn"
    BY <1>4, TurnSteps DEF GoesOn
  <1>6. t = Ctx(l)
    BY <1>5, BeforeFacts DEF EndsTurn
  <1> QED BY <1>4, <1>5, <1>6

LEMMA StepOneEnd == ASSUME Before PROVE OneEndPerTurn'
  <1>1. ASSUME NEW t \in Msgs, rc'[t].at # "none" \/ outcome'[t] # "none"
        PROVE  fate'[t] # "none"
    <2>1. CASE rc[t].at # "none" \/ outcome[t] # "none"
      BY <2>1, FateStays, BeforeFacts DEF Before, ClientsInv, OneEndPerTurn
    <2>2. CASE rc[t].at = "none" /\ outcome[t] = "none"
      <3>1. PICK l \in Msgs : pc[l] = "turn" /\ t = Ctx(l)
        BY <1>1, <2>2, NewEnds
      <3>2. fate[t] # "none"
        BY <3>1, TurnHasContext DEF Before, IInv, FateFollowsTurn
      <3> QED BY <3>2, FateStays, BeforeFacts DEF Before
    <2> QED BY <2>1, <2>2
  <1>2. ASSUME NEW l \in Msgs, pc'[l] = "turn"
        PROVE  rc'[Ctx(l)'].at = "none" /\ outcome'[Ctx(l)'] = "none"
    <2>1. Ctx(l)' = Ctx(l) /\ pc[l] \in {"begin", "turn"}
      BY <1>2, TurnLasts, BeforeFacts DEF Ctx, BeginTurn, Before
    <2>2. Ctx(l) \in Msgs
      BY <2>1, TurnHasContext DEF Before
    <2>3. rc[Ctx(l)].at = "none" /\ outcome[Ctx(l)] = "none"
      BY <2>1, <2>2, BeginsFirst DEF Before, ClientsInv, OneEndPerTurn
    <2>4. ASSUME NEW k \in Msgs, EndsTurn(k), Ctx(l) = Ctx(k), pc[k] = "turn"
          PROVE  FALSE
      <3>1. pc' = [pc EXCEPT ![k] = "drain"] /\ pc \in [Msgs -> Places]
        BY <2>4 DEF EndsTurn, EndTurn, Before, IInv, TypeOK
      <3>2. l # k /\ pc[l] = "turn"
        BY <1>2, <3>1
      <3> QED BY <2>4, <3>2, TurnHasContext DEF Before
    <2> QED BY <2>1, <2>2, <2>3, <2>4, NewEnds
  <1> QED BY <1>1, <1>2 DEF OneEndPerTurn

\* A disconnect closes the transport, and no other.
LEMMA DisconnectCloses ==
    ASSUME Before, NEW k \in DOMAIN clients, Disconnects(k)
    PROVE  ~clients'[k].open
  <1>1. k # None /\ clients[k] \in Client /\ clients \in Seq(Client)
    BY ClientIsThere, BeforeFacts DEF None, Before, ClientsInv
  <1>2. CASE clients[k].connected
    <2>1. PICK failed \in {FALSE, clients[k].open /\ fails < MaxFails} :
              clients' = [clients EXCEPT ![k].connected = failed,
                                         ![k].open = FALSE, ![k].proc = "dead"]
      BY <1>1, <1>2 DEF Disconnects
    <2> QED BY <1>1, <2>1 DEF Client
  <1>3. CASE ~clients[k].connected
    BY <1>1, <1>3 DEF Disconnects, Before, ClientsInv, LivesInOpen
  <1> QED BY <1>2, <1>3

LEMMA StepHeld == ASSUME Before PROVE HeldByReconnect'
  <1>t. /\ \A k \in DOMAIN clients : clients'[k].open => clients[k].open
        /\ \A t \in Msgs : rc[t].at \in {"disconnect", "connect", "swap"} =>
               rc[t].old \in DOMAIN clients
        /\ \A t \in Msgs : rc[t].new \in 0 .. Len(clients)
        /\ client \in 0 .. Len(clients) /\ with \in 0 .. Len(clients)
        /\ Len(clients) \in Nat /\ rc \in [Msgs -> RcSet(Len(clients))]
    <2>1. \A k \in DOMAIN clients : clients'[k].open => clients[k].open
      BY BeforeFacts DEF ClientsAged, Ages
    <2>2. \A t \in Msgs : rc[t].at \in {"disconnect", "connect", "swap"} =>
              rc[t].old \in DOMAIN clients
      BY ClientIsThere DEF Before, ClientsInv, AdapterTypeOK
    <2>3. \A t \in Msgs : rc[t].new \in 0 .. Len(clients)
      BY BeforeFacts DEF RcSet
    <2>4. client \in 0 .. Len(clients) /\ with \in 0 .. Len(clients)
      BY DEF Before, ClientsInv, AdapterTypeOK
    <2> QED BY <2>1, <2>2, <2>3, <2>4, BeforeFacts
  <1>h. HeldByReconnect
    BY DEF Before, ClientsInv
  <1>1. CASE UNCHANGED rc /\ client' \in {client, Len(clients) + 1}
             /\ with' \in {client, with}
    BY <1>t, <1>h, <1>1 DEF HeldByReconnect, None
  <1>2. ASSUME NEW l \in Msgs, EndsTurn(l), pc[l] = "turn"
        PROVE  HeldByReconnect'
    <2>1. Ctx(l) \in Msgs /\ UNCHANGED <<client, with>>
      BY <1>2, TurnHasContext DEF EndsTurn, Before
    <2>2. \A t \in Msgs : rc'[t] = rc[t] \/ rc'[t].at = "spawned"
      BY <1>2, <1>t, <2>1 DEF EndsTurn, RcSet
    <2> QED BY <1>t, <1>h, <2>1, <2>2 DEF HeldByReconnect
  <1>3. ASSUME NEW t \in Msgs, ReconnectStep(t)
        PROVE  HeldByReconnect'
    <2>1. PICK r \in RcSet(Len(clients')) :
              /\ rc' = [rc EXCEPT ![t] = r]
              /\ client' = client \/ (rc[t].at = "swap" /\ client' = rc[t].new /\ r.at = "gone")
              /\ r.at = "connect" => ReconnectDisconnects(t) /\ r.old = rc[t].old
              /\ r.at = "swap" => /\ rc[t].at = "connect" /\ r.old = rc[t].old
                                  /\ r.new = Len(clients) + 1
      BY <1>3, ReconnectSteps
    <2>2. with' = with /\ \A u \in Msgs : rc'[u] = IF u = t THEN r ELSE rc[u]
      BY <1>3, <1>t, <2>1, ReconnectSteps
    <2>3. ASSUME NEW u \in Msgs, rc'[u].at \in {"connect", "swap"}
          PROVE  ~clients'[rc'[u].old].open
      <3>1. CASE rc'[u] = rc[u]
        BY <1>t, <1>h, <2>3, <3>1 DEF HeldByReconnect
      <3>2. CASE u = t /\ r.at = "connect"
        BY <1>t, <2>1, <2>2, <3>2, DisconnectCloses DEF ReconnectDisconnects
      <3>3. CASE u = t /\ r.at = "swap"
        BY <1>t, <1>h, <2>1, <2>2, <3>3 DEF HeldByReconnect
      <3> QED BY <2>2, <2>3, <3>1, <3>2, <3>3
    <2>4. ASSUME NEW u \in Msgs, rc'[u].at = "swap"
          PROVE  /\ rc'[u].new \notin {None, client', with'}
                 /\ \A v \in Msgs : rc'[v].at = "swap" /\ rc'[v].new = rc'[u].new => v = u
      <3>1. CASE u = t
        BY <1>t, <2>1, <2>2, <2>4, <3>1 DEF None
      <3>2. CASE u # t
        BY <1>t, <1>h, <2>1, <2>2, <2>4, <3>2 DEF HeldByReconnect
      <3> QED BY <3>1, <3>2
    <2> QED BY <2>3, <2>4 DEF HeldByReconnect
  <1>4. ASSUME AStart \/ AStop \/ Aside \/ (\E s \in sending : StreamWrites(s))
                 \/ (\E l \in Msgs : ABeginTurn(l))
        PROVE  UNCHANGED <<rc, with>> /\ client' \in {client, Len(clients) + 1}
    BY <1>4 DEF AStart, AStop, Aside, StreamWrites, ABeginTurn
  <1>5. \A l \in Msgs : TurnStep(l) =>
            \/ EndsTurn(l) /\ pc[l] = "turn"
            \/ UNCHANGED <<rc, client>> /\ with' \in {client, with}
    BY TurnSteps DEF GoesOn, TakesClient
  <1> QED BY <1>1, <1>2, <1>3, <1>4, <1>5, StepKinds DEF Before

LEMMA StepNoOrphan == ASSUME Before PROVE NoOrphan'
  <1> SUFFICES ASSUME NEW k \in DOMAIN clients', clients'[k].open
               PROVE  \/ status' = "running" /\ client' = k
                      \/ \E t \in Msgs : rc'[t].at = "swap" /\ rc'[t].new = k
    BY DEF NoOrphan
  <1>t. /\ \/ k \in DOMAIN clients /\ clients[k].open
           \/ k = Len(clients) + 1 /\ k \notin DOMAIN clients
        /\ \A t \in Msgs : rc[t].at = "swap" =>
               rc[t].new \in DOMAIN clients /\ rc[t].old \in DOMAIN clients
        /\ status = "running" => client \in DOMAIN clients
        /\ rc \in [Msgs -> RcSet(Len(clients))]
    <2>1. \/ k \in DOMAIN clients /\ clients[k].open
          \/ k = Len(clients) + 1 /\ k \notin DOMAIN clients
      BY BeforeFacts DEF ClientsAged, Ages
    <2>2. \A t \in Msgs : rc[t].at = "swap" =>
              rc[t].new \in DOMAIN clients /\ rc[t].old \in DOMAIN clients
      BY ClientIsThere DEF Before, ClientsInv, AdapterTypeOK, HeldByReconnect
    <2>3. status = "running" => client \in DOMAIN clients
      BY ClientIsThere DEF Before, ClientsInv, AdapterTypeOK
    <2> QED BY <2>1, <2>2, <2>3, BeforeFacts
  <1>o. k \in DOMAIN clients => \/ status = "running" /\ client = k
                                \/ \E t \in Msgs : rc[t].at = "swap" /\ rc[t].new = k
    BY <1>t DEF Before, ClientsInv, NoOrphan
  <1>1. CASE k \notin DOMAIN clients
    <2>1. AStart \/ \E t \in Msgs : ReconnectConnects(t)
      BY <1>1, BeforeFacts DEF ClientsAged
    <2>2. CASE AStart
      BY <1>t, <1>1, <2>2 DEF AStart, Start
    <2>3. ASSUME NEW t \in Msgs, ReconnectConnects(t)
          PROVE  rc'[t].at = "swap" /\ rc'[t].new = k
      BY <1>t, <1>1, <2>3 DEF ReconnectConnects, RcSet
    <2> QED BY <2>1, <2>2, <2>3
  <1>2. CASE k \in DOMAIN clients
    <2>1. CASE AStart
      BY <1>o, <1>2, <2>1 DEF AStart, Start
    <2>2. CASE AStop
      <3>1. status = "running" /\ Disconnects(client) /\ rc' = rc
        BY <2>2 DEF AStop, Stop
      <3>2. ~clients'[client].open
        BY <1>t, <3>1, DisconnectCloses
      <3> QED BY <1>o, <1>2, <3>1, <3>2
    <2>3. ASSUME \/ Aside /\ status' = status
                 \/ \E s \in sending : StreamWrites(s)
                 \/ \E l \in Msgs : ABeginTurn(l)
          PROVE  UNCHANGED <<status, client, rc>>
      BY <2>3 DEF Aside, StreamWrites, ABeginTurn, BeginTurn, vars
    <2>4. ASSUME NEW l \in Msgs, TurnStep(l)
          PROVE  /\ UNCHANGED <<status, client>>
                 /\ \A t \in Msgs : rc[t].at = "swap" => rc'[t] = rc[t]
      <3>1. pc[l] = "turn" /\ UNCHANGED <<status, client>>
        BY <2>4, TurnSteps DEF GoesOn, EndsTurn, EndTurn
      <3>2. rc[Ctx(l)].at = "none"
        BY <3>1 DEF Before, ClientsInv, OneEndPerTurn
      <3>3. rc' = rc \/ rc' = [rc EXCEPT ![Ctx(l)].at = "spawned"]
        BY <2>4, TurnSteps DEF GoesOn, EndsTurn
      <3> QED BY <1>t, <3>1, <3>2, <3>3
    <2>5. ASSUME NEW t \in Msgs, ReconnectSwaps(t)
          PROVE  \/ status' = "running" /\ client' = k
                 \/ \E u \in Msgs : rc'[u].at = "swap" /\ rc'[u].new = k
      <3>1. /\ rc[t].at = "swap" /\ status' = status
            /\ \A u \in Msgs : u # t => rc'[u] = rc[u]
        BY <1>t, <2>5 DEF ReconnectSwaps, vars
      <3>2. CASE status = "running" /\ client = rc[t].old
        <4>1. client' = rc[t].new /\ clients' = clients
          BY <2>5, <3>2 DEF ReconnectSwaps
        <4>2. k # client
          BY <3>1, <3>2, <4>1 DEF Before, ClientsInv, HeldByReconnect
        <4> QED BY <1>o, <1>2, <3>1, <3>2, <4>1, <4>2
      <3>3. CASE ~(status = "running" /\ client = rc[t].old)
        <4>1. client' = client /\ Disconnects(rc[t].new)
          BY <2>5, <3>3 DEF ReconnectSwaps
        <4>2. k # rc[t].new
          BY <1>t, <3>1, <4>1, DisconnectCloses
        <4> QED BY <1>o, <1>2, <3>1, <4>1, <4>2
      <3> QED BY <3>2, <3>3
    <2>6. ASSUME NEW t \in Msgs, ReconnectStep(t), ~ReconnectSwaps(t)
          PROVE  /\ UNCHANGED <<status, client>>
                 /\ \A u \in Msgs : rc[u].at = "swap" => rc'[u] = rc[u]
      BY <1>t, <2>6 DEF ReconnectStep, ReconnectBegins, ReconnectDisconnects,
                        ReconnectConnects, ReconnectFails, vars
    <2> QED BY <1>o, <1>2, <2>1, <2>2, <2>3, <2>4, <2>5, <2>6, StepKinds DEF Before
  <1> QED BY <1>1, <1>2

\* After Stop the only transports that are open are those of reconnects.
LEMMA StopEndsAll == IInv /\ LivesInOpen /\ NoOrphan => StopEndsProcesses
  BY DEF IInv, StopEndsLife, LivesInOpen, NoOrphan, StopEndsProcesses

LEMMA StepClients == ASSUME Before PROVE ClientsInv'
  <1>1. NoOrphan' /\ LivesInOpen' /\ IInv'
    BY BeforeFacts, StepNoOrphan DEF Before
  <1>2. StopEndsProcesses'
    BY <1>1, StopEndsAll, PTL
  <1> QED BY <1>1, <1>2, StepAdapterType, StepBeginsWithStart, StepOneEnd, StepHeld
          DEF ClientsInv

-----------------------------------------------------------------------------
(* Reconnects: the inductive step.                                         *)

\* What has spawned a reconnect has done so for good.
LEMMA QuietBefore ==
    ASSUME Before, life' <= 1, ImagesQuiet'
    PROVE  life <= 1 /\ ImagesQuiet
  <1>1. life <= 1
    BY BeforeFacts, NothingFromNothing, RunLoopAssumption, SMTT(20)
       DEF Start, Before, IInv, TypeOK
  <1>2. ASSUME NEW t \in Msgs, rc[t].at # "none" PROVE rc'[t].at # "none"
    <2>1. \A l \in Msgs : TurnStep(l) =>
              rc' = rc \/ rc' = [rc EXCEPT ![Ctx(l)].at = "spawned"]
      BY TurnSteps DEF GoesOn, EndsTurn
    <2>2. \A u \in Msgs : ReconnectStep(u) =>
              \E r : r.at # "none" /\ rc' = [rc EXCEPT ![u] = r]
      BY ReconnectSteps
    <2>3. ASSUME \/ AStart \/ AStop \/ Aside \/ (\E l \in Msgs : ABeginTurn(l))
                 \/ (\E s \in sending : StreamWrites(s))
          PROVE  rc' = rc
      BY <2>3 DEF AStart, AStop, Aside, ABeginTurn, StreamWrites
    <2>4. rc \in [Msgs -> RcSet(Len(clients))]
      BY BeforeFacts
    <2> QED BY <1>2, <2>1, <2>2, <2>3, <2>4, StepKinds DEF Before, RcSet
  <1>3. ImagesQuiet
    BY <1>2, AdapterAssumption DEF ImagesQuiet
  <1> QED BY <1>1, <1>3

\* A process that lives is that of c.client, unless a reconnect keeps it.
LEMMA AliveIsCurrent ==
    ASSUME ClientsInv, with \in DOMAIN clients, clients[with].proc # "dead"
    PROVE  status = "running" /\ client = with
  BY DEF ClientsInv, LivesInOpen, NoOrphan, HeldByReconnect

\* Its channel is closed because its process is dead.
LEMMA ClosedIsDead ==
    ASSUME ClientsInv, NEW l \in Msgs, SeesClosed(l)
    PROVE  Uses(l, with) /\ with \in DOMAIN clients /\ clients[with].proc = "dead"
  <1>1. Uses(l, with)
    BY DEF SeesClosed, Receiving, Uses
  <1>2. with \in DOMAIN clients
    BY <1>1, ClientIsThere DEF Uses, ClientsInv, AdapterTypeOK
  <1> QED BY <1>1, <1>2 DEF SeesClosed, ClientsInv, LivesInOpen

LEMMA StepReconnects ==
    ASSUME Before, ReconnectInv
    PROVE  ReconnectInv'
  <1> SUFFICES ASSUME life' <= 1, ImagesQuiet'
               PROVE  /\ status' = "running" =>
                             OneActive' /\ ActiveForDead' /\ UsedIsCurrent'
                      /\ DisconnectsDead' /\ ~killedLive'
    BY DEF ReconnectInv, OneReconnect, ReplacesDeadOnly, ImagesQuiet
  <1>i. /\ life <= 1 /\ ~killedLive /\ DisconnectsDead
        /\ status = "running" => OneActive /\ ActiveForDead /\ UsedIsCurrent
    BY QuietBefore DEF ReconnectInv, OneReconnect, ReplacesDeadOnly, ImagesQuiet
  <1>t. /\ rc \in [Msgs -> RcSet(Len(clients))]
        /\ status = "running" => client \in DOMAIN clients
        /\ \A t \in Msgs : rc[t].at = "disconnect" => rc[t].old \in DOMAIN clients
        /\ stage \in {"query", "asked", "receive"} => with \in DOMAIN clients
    BY BeforeFacts, ClientIsThere DEF Before, ClientsInv, AdapterTypeOK
  <1>d. \A k \in DOMAIN clients :
            clients[k].proc = "dead" => clients'[k].proc = "dead"
    BY BeforeFacts DEF ClientsAged, Ages
  <1>1. CASE AStart
    <2>1. /\ UNCHANGED <<pc, rc, killedLive>>
          /\ \A t \in Msgs : pc[t] = "none" /\ rc[t].at = "none"
      <3>1. life = 0 /\ UNCHANGED <<pc, rc, killedLive>>
        BY <1>1, <1>i, RunLoopAssumption
           DEF AStart, Start, loopVars, Before, IInv, TypeOK
      <3> QED BY <3>1 DEF Before, ClientsInv, ClientsBeginWithStart
    <2> QED BY <1>i, <2>1 DEF OneActive, ActiveForDead, UsedIsCurrent, DisconnectsDead,
               Active, Uses
  <1>2. CASE \/ AStop
             \/ Aside /\ status' = status /\ TurnsLast
             \/ \E s \in sending : StreamWrites(s)
             \/ \E l \in Msgs : ABeginTurn(l)
    <2>1. UNCHANGED <<client, rc, with, killedLive>>
      BY <1>2 DEF AStop, Aside, StreamWrites, ABeginTurn
    <2>2. DisconnectsDead'
      BY <1>d, <1>i, <1>t, <2>1 DEF DisconnectsDead
    <2>3. ASSUME status' = "running"
          PROVE  OneActive' /\ ActiveForDead' /\ UsedIsCurrent'
      <3>1. status = "running"
        BY <1>2, <2>3 DEF AStop, Stop, StreamWrites, ABeginTurn, BeginTurn, vars
      <3>2. OneActive' /\ ActiveForDead'
        BY <1>d, <1>i, <1>t, <2>1, <3>1 DEF OneActive, ActiveForDead, Active
      <3>3. \A l \in Msgs : Uses(l, with)' =>
                Uses(l, with) /\ (HasImages(l) => HasImages(l)')
        BY <1>2, <2>1, <2>3
           DEF AStop, Stop, Aside, TurnsLast, StreamWrites, ABeginTurn, vars, Uses,
               HasImages, Ctx
      <3>4. UsedIsCurrent'
        BY <1>i, <2>1, <3>1, <3>3 DEF UsedIsCurrent, Active
      <3> QED BY <3>2, <3>4
    <2> QED BY <1>i, <2>1, <2>2, <2>3
  <1>3. ASSUME NEW l \in Msgs, TurnStep(l), GoesOn(l)
        PROVE  /\ status' = "running" =>
                      OneActive' /\ ActiveForDead' /\ UsedIsCurrent'
               /\ DisconnectsDead' /\ ~killedLive'
    <2>1. UNCHANGED <<client, rc, status, pc, turn, killedLive>> /\ pc[l] = "turn"
      BY <1>3, TurnSteps DEF GoesOn
    <2>2. DisconnectsDead'
      BY <1>d, <1>i, <1>t, <2>1 DEF DisconnectsDead
    <2>3. ASSUME status = "running" PROVE OneActive' /\ ActiveForDead'
      BY <1>d, <1>i, <1>t, <2>1, <2>3 DEF OneActive, ActiveForDead, Active
    <2>4. ASSUME status = "running" PROVE UsedIsCurrent'
      <3>1. CASE TakesClient(l)
        BY <3>1 DEF TakesClient, UsedIsCurrent, Uses
      <3>2. CASE with' = with /\ (stage' = stage \/ stage = "asked")
        BY <1>i, <2>1, <2>4, <3>2 DEF UsedIsCurrent, Uses, HasImages, Ctx, Active
      <3>3. CASE with' = with /\ stage = "query" /\ ~Broken(with)
        <4>1. client = with /\ clients[client].proc # "dead"
          BY <1>t, <3>3, AliveIsCurrent DEF Broken, Before
        <4> QED BY <1>i, <2>1, <2>4, <3>3, <4>1
                DEF UsedIsCurrent, ActiveForDead, Active
      <3>4. CASE with' = with /\ HasImages(l)
        <4>1. \A k \in Msgs : Uses(k, with)' => k = l
          BY <2>1, TurnHasContext DEF Uses, Before
        <4> QED BY <2>1, <3>4, <4>1 DEF UsedIsCurrent, HasImages, Ctx
      <3> QED BY <1>3, <3>1, <3>2, <3>3, <3>4 DEF GoesOn
    <2> QED BY <1>i, <2>1, <2>2, <2>3, <2>4
  <1>4. ASSUME NEW l \in Msgs, TurnStep(l), EndsTurn(l)
        PROVE  /\ status' = "running" =>
                      OneActive' /\ ActiveForDead' /\ UsedIsCurrent'
               /\ DisconnectsDead' /\ ~killedLive'
    <2>1. UNCHANGED <<client, status, killedLive>> /\ stage' = "idle"
      BY <1>4, TurnSteps DEF EndsTurn
    <2>2. UsedIsCurrent'
      BY <2>1 DEF UsedIsCurrent, Uses
    <2>3. CASE rc' = rc
      BY <1>d, <1>i, <1>t, <2>1, <2>2, <2>3
         DEF DisconnectsDead, OneActive, ActiveForDead, Active
    <2>4. CASE SeesClosed(l) /\ rc' = [rc EXCEPT ![Ctx(l)].at = "spawned"]
      <3>1. /\ Uses(l, with) /\ with \in DOMAIN clients /\ clients[with].proc = "dead"
            /\ Ctx(l) \in Msgs
        BY <2>4, ClosedIsDead, TurnHasContext DEF Before, Uses
      <3>2. \A t \in Msgs : IF t = Ctx(l) THEN rc'[t].at = "spawned"
                            ELSE rc'[t] = rc[t]
        BY <1>t, <2>4, <3>1 DEF RcSet
      <3>3. ~HasImages(l)
        BY <3>1, <3>2 DEF HasImages, ImagesQuiet
      <3>4. DisconnectsDead'
        BY <1>d, <1>i, <1>t, <3>2 DEF DisconnectsDead
      <3>5. ASSUME status = "running" PROVE OneActive' /\ ActiveForDead'
        BY <1>d, <1>i, <2>1, <3>1, <3>2, <3>3, <3>5
           DEF UsedIsCurrent, OneActive, ActiveForDead, Active
      <3> QED BY <1>i, <2>1, <2>2, <3>4, <3>5
    <2> QED BY <1>4, <2>3, <2>4 DEF EndsTurn
  <1>5. ASSUME NEW t \in Msgs, ReconnectStep(t)
        PROVE  /\ status' = "running" =>
                      OneActive' /\ ActiveForDead' /\ UsedIsCurrent'
               /\ DisconnectsDead' /\ ~killedLive'
    <2>1. /\ UNCHANGED <<status, pc, turn, stage, with>>
          /\ \E r : /\ rc' = [rc EXCEPT ![t] = r] /\ Active(t)
                    /\ r.at \in {"disconnect", "connect", "swap", "gone"}
                    /\ client' = client \/ r.at = "gone"
                    /\ r.at = "disconnect" => status = "running" /\ r.old = client
      BY <1>5, ReconnectSteps DEF vars, Active
    <2>2. PICK r : /\ rc' = [rc EXCEPT ![t] = r] /\ Active(t)
                   /\ r.at \in {"disconnect", "connect", "swap", "gone"}
                   /\ client' = client \/ r.at = "gone"
                   /\ r.at = "disconnect" => status = "running" /\ r.old = client
      BY <2>1
    <2>3. \A u \in Msgs : rc'[u] = IF u = t THEN r ELSE rc[u]
      BY <1>t, <2>2
    <2>4. \A u \in Msgs : Active(u)' => Active(u) /\ (u = t => r.at # "gone")
      BY <2>2, <2>3 DEF Active
    <2>5. DisconnectsDead'
      BY <1>d, <1>i, <1>t, <2>2, <2>3 DEF DisconnectsDead, ActiveForDead
    <2>6. ASSUME status = "running" PROVE OneActive' /\ ActiveForDead' /\ UsedIsCurrent'
      <3>1. OneActive'
        BY <1>i, <2>4, <2>6 DEF OneActive
      <3>2. ActiveForDead'
        BY <1>d, <1>i, <1>t, <2>2, <2>4, <2>6 DEF OneActive, ActiveForDead
      <3>3. UsedIsCurrent'
        BY <1>i, <2>1, <2>2, <2>6 DEF UsedIsCurrent, Uses, HasImages, Ctx
      <3> QED BY <3>1, <3>2, <3>3
    <2>7. ~killedLive'
      <3>1. CASE ReconnectDisconnects(t)
        BY <1>i, <3>1 DEF ReconnectDisconnects, DisconnectsDead
      <3>2. CASE ~ReconnectDisconnects(t)
        BY <1>5, <1>i, <3>2 DEF ReconnectStep, ReconnectBegins, ReconnectConnects,
                                ReconnectFails, ReconnectSwaps
      <3> QED BY <3>1, <3>2
    <2> QED BY <2>1, <2>5, <2>6, <2>7
  <1> QED BY <1>1, <1>2, <1>3, <1>4, <1>5, StepKinds, TurnSteps DEF Before

-----------------------------------------------------------------------------
(* Answers: what is left of an answer.                                     *)

LEMMA AppendToOne ==
    ASSUME NEW S, NEW x \in S, NEW y \in S
    PROVE  Append(<<x>>, y) = <<x, y>>
  <1>1. /\ Append(<<x>>, y) \in Seq(S) /\ Len(Append(<<x>>, y)) = 2
        /\ Append(<<x>>, y)[1] = x /\ Append(<<x>>, y)[2] = y
    OBVIOUS
  <1>2. <<x, y>> \in Seq(S) /\ Len(<<x, y>>) = 2 /\ <<x, y>>[1] = x /\ <<x, y>>[2] = y
    OBVIOUS
  <1>3. ASSUME NEW s \in Seq(S), NEW t \in Seq(S), Len(s) = Len(t),
               \A i \in 1 .. Len(s) : s[i] = t[i]
        PROVE  s = t
    BY <1>3
  <1>4. \A i \in 1 .. 2 : Append(<<x>>, y)[i] = <<x, y>>[i]
    BY <1>1, <1>2
  <1> QED BY <1>1, <1>2, <1>3, <1>4

LEMMA ShortSeqs ==
    ASSUME NEW x, NEW y
    PROVE  /\ Append(<<>>, x) = <<x>>
           /\ Head(<<x>>) = x /\ Tail(<<x>>) = <<>> /\ <<x>> # <<>>
           /\ Head(<<x, y>>) = x /\ Tail(<<x, y>>) = <<y>> /\ <<x, y>> # <<>>
  OBVIOUS

\* The reader takes the part, then the result, and nothing is left.
LEMMA TakesAnswer ==
    ASSUME NEW c \in Client, NEW d \in Client, NEW t \in Prompts, Answering(c, t),
           c.chan # <<>>,
           d = [c EXCEPT !.chan = Tail(@)]
    PROVE  /\ Head(c.chan).ctx = t
           /\ IF Head(c.chan).result THEN Rest(c, t) /\ Empty(d)
                                     ELSE Whole(c, t) /\ Rest(d, t)
  <1>1. Part(t).ctx = t /\ Result(t).ctx = t /\ ~Part(t).result /\ Result(t).result
    BY DEF Part, Result
  <1>2. d.asked = c.asked /\ d.parted = c.parted /\ d.chan = Tail(c.chan)
    BY DEF Client
  <1>3. CASE c.asked = <<t>> /\ c.parted /\ c.chan = <<Part(t)>>
    <2>1. Head(c.chan) = Part(t) /\ Tail(c.chan) = <<>>
      BY <1>3, ShortSeqs
    <2> QED BY <1>1, <1>2, <1>3, <2>1 DEF Whole, Rest
  <1>4. CASE c.asked = <<>> /\ ~c.parted /\ c.chan = <<Part(t), Result(t)>>
    <2>1. Head(c.chan) = Part(t) /\ Tail(c.chan) = <<Result(t)>>
      BY <1>4, ShortSeqs
    <2> QED BY <1>1, <1>2, <1>4, <2>1 DEF Whole, Rest
  <1>5. CASE c.asked = <<>> /\ ~c.parted /\ c.chan = <<Result(t)>>
    <2>1. Head(c.chan) = Result(t) /\ Tail(c.chan) = <<>>
      BY <1>5, ShortSeqs
    <2> QED BY <1>1, <1>2, <1>5, <2>1 DEF Empty, Rest
  <1> QED BY <1>3, <1>4, <1>5 DEF Answering, Whole, Rest

\* The process puts out the part, then the result, and drops the prompt.
LEMMA GivesAnswer ==
    ASSUME NEW c \in Client, NEW d \in Client, NEW t \in Prompts, Answering(c, t),
           c.asked # <<>>,
           d = [c EXCEPT !.chan = Append(@, [ctx |-> Head(c.asked), result |-> c.parted]),
                         !.parted = ~@,
                         !.asked = IF c.parted THEN Tail(@) ELSE @]
    PROVE  IF Whole(c, t) THEN Whole(d, t) ELSE Rest(d, t)
  <1>1. c.asked = <<t>> /\ Head(c.asked) = t /\ Tail(c.asked) = <<>>
    BY ShortSeqs DEF Answering, Whole, Rest
  <1>2. /\ d.chan = Append(c.chan, [ctx |-> t, result |-> c.parted])
        /\ d.parted = ~c.parted
        /\ d.asked = IF c.parted THEN <<>> ELSE <<t>>
    BY <1>1 DEF Client
  <1>3. CASE ~c.parted /\ c.chan = <<>>
    <2>1. [ctx |-> t, result |-> c.parted] = Part(t)
      BY <1>3 DEF Part, Client
    <2>2. d.chan = <<Part(t)>>
      BY <1>2, <1>3, <2>1, ShortSeqs
    <2> QED BY <1>1, <1>2, <1>3, <2>2 DEF Whole
  <1>4. CASE c.parted /\ c.chan = <<>>
    <2>1. d.chan = <<Result(t)>>
      BY <1>2, <1>4, ShortSeqs DEF Result
    <2>2. ~Whole(c, t)
      BY <1>1, <1>4, ShortSeqs DEF Whole
    <2> QED BY <1>2, <1>4, <2>1, <2>2 DEF Rest
  <1>5. CASE c.parted /\ c.chan = <<Part(t)>>
    <2>1. Part(t) \in [ctx : Prompts, result : BOOLEAN]
          /\ Result(t) \in [ctx : Prompts, result : BOOLEAN]
      BY DEF Part, Result
    <2>2. [ctx |-> t, result |-> c.parted] = Result(t)
      BY <1>5 DEF Result, Client
    <2>3. Append(<<Part(t)>>, Result(t)) = <<Part(t), Result(t)>>
      BY <2>1, AppendToOne
    <2>4. d.chan = Append(<<Part(t)>>, Result(t))
      BY <1>2, <1>5, <2>2
    <2> QED BY <1>1, <1>2, <1>5, <2>3, <2>4 DEF Whole
  <1> QED BY <1>1, <1>3, <1>4, <1>5 DEF Answering, Whole, Rest

\* A client that holds nothing and is asked owes an answer.
LEMMA BeginsAnswer ==
    ASSUME NEW c \in Client, NEW d \in Client, NEW t \in Prompts, Empty(c),
           d = [c EXCEPT !.asked = Append(@, t)]
    PROVE  Whole(d, t)
  <1>1. d.asked = <<t>> /\ d.parted = c.parted /\ d.chan = c.chan
    BY ShortSeqs DEF Client, Empty
  <1> QED BY <1>1 DEF Empty, Whole

-----------------------------------------------------------------------------
(* Answers: the inductive step.                                            *)

\* The prompts and the messages of a client that a step leaves alone.
Keeps(k) ==
    /\ clients'[k].asked = clients[k].asked
    /\ clients'[k].parted = clients[k].parted
    /\ clients'[k].chan = clients[k].chan
AllKeep == \A k \in DOMAIN clients : Keeps(k)

LEMMA DisconnectKeeps ==
    ASSUME Before, NEW k \in DOMAIN clients \cup {None}, Disconnects(k)
    PROVE  AllKeep
  <1>1. \A j \in DOMAIN clients : clients[j] \in Client
    BY ClientIsThere DEF Before, ClientsInv
  <1>2. CASE clients' = clients
    BY <1>2 DEF AllKeep, Keeps
  <1>3. CASE k # None /\ clients[k].connected
    <2>1. PICK failed \in {FALSE, clients[k].open /\ fails < MaxFails} :
              clients' = [clients EXCEPT ![k].connected = failed,
                                         ![k].open = FALSE, ![k].proc = "dead"]
      BY <1>3 DEF Disconnects
    <2>2. k \in DOMAIN clients
      BY <1>3
    <2> QED BY <1>1, <2>1, <2>2 DEF AllKeep, Keeps, Client
  <1> QED BY <1>2, <1>3 DEF Disconnects

\* Who writes, answers or receives changes them; nobody else does.
LEMMA OthersKeep ==
    ASSUME Before,
           \/ AStart \/ ASend \/ ACancel \/ AStop
           \/ \E k \in Lives : AStopReturns(k)
           \/ \E l \in Msgs : \/ ACallerCancels(l) \/ ABeginTurn(l) \/ ASkipTurn(l)
                              \/ ALoop(l) \/ TakesClient(l) \/ Listens(l)
                              \/ QueryTextFails(l) \/ QueryStream(l)
                              \/ QueryStreamFails(l) \/ ReceiveClosed(l)
                              \/ ReconnectStep(l)
           \/ \E k \in DOMAIN clients : CliInterrupted(k) \/ CliDies(k)
    PROVE  AllKeep
  <1>t. /\ \A j \in DOMAIN clients : clients[j] \in Client
        /\ client # None => client \in DOMAIN clients
        /\ clients \in Seq(Client)
        /\ \A t \in Msgs : /\ rc[t].old \in DOMAIN clients \cup {None}
                           /\ rc[t].new \in DOMAIN clients \cup {None}
    <2>1. AdapterTypeOK
      BY DEF Before, ClientsInv
    <2> QED BY <2>1, ClientIsThere
  <1>1. CASE AStart \/ \E t \in Msgs : ReconnectConnects(t)
    <2>1. clients' = Append(clients, Fresh)
      BY <1>1 DEF AStart, ReconnectConnects
    <2>2. \A k \in DOMAIN clients : clients'[k] = clients[k]
      BY <1>t, <2>1, FreshIsClient
    <2> QED BY <2>2 DEF AllKeep, Keeps
  <1>2. CASE \/ ASend \/ \E k \in Lives : AStopReturns(k)
             \/ \E l \in Msgs : \/ ACallerCancels(l) \/ ABeginTurn(l) \/ ASkipTurn(l)
                                \/ ALoop(l) \/ TakesClient(l) \/ Listens(l)
                                \/ QueryTextFails(l) \/ QueryStream(l)
                                \/ QueryStreamFails(l) \/ ReceiveClosed(l)
                                \/ ReconnectBegins(l) \/ ReconnectFails(l)
    <2>1. clients' = clients
      BY <1>2 DEF ASend, AStopReturns, ACallerCancels, ABeginTurn, ASkipTurn, ALoop,
         TakesClient, Listens, QueryTextFails, QueryStream, QueryStreamFails,
         ReceiveClosed, ReconnectBegins, ReconnectFails, clientVars
    <2> QED BY <2>1 DEF AllKeep, Keeps
  <1>3. CASE ACancel
    <2>1. \/ clients' = clients
          \/ client # None /\ clients' = [clients EXCEPT ![client].proc = "hit"]
      BY <1>3 DEF ACancel
    <2>2. CASE client # None /\ clients' = [clients EXCEPT ![client].proc = "hit"]
      BY <1>t, <2>2 DEF AllKeep, Keeps, Client
    <2>3. CASE clients' = clients
      BY <2>3 DEF AllKeep, Keeps
    <2> QED BY <2>1, <2>2, <2>3
  <1>4. CASE AStop
    BY <1>t, <1>4, DisconnectKeeps DEF AStop
  <1>5. ASSUME NEW t \in Msgs, ReconnectDisconnects(t) \/ ReconnectSwaps(t)
        PROVE  AllKeep
    <2>1. \E k \in DOMAIN clients \cup {None} : clients' = clients \/ Disconnects(k)
      BY <1>t, <1>5 DEF ReconnectDisconnects, ReconnectSwaps
    <2>2. clients' = clients => AllKeep
      BY DEF AllKeep, Keeps
    <2> QED BY <2>1, <2>2, DisconnectKeeps
  <1>6. ASSUME NEW k \in DOMAIN clients, CliInterrupted(k) \/ CliDies(k)
        PROVE  AllKeep
    <2>1. clients' = [clients EXCEPT ![k].proc = "dead"]
      BY <1>6 DEF CliInterrupted, CliDies
    <2> QED BY <1>t, <2>1 DEF AllKeep, Keeps, Client
  <1> QED BY <1>1, <1>2, <1>3, <1>4, <1>5, <1>6 DEF ReconnectStep

LEMMA ContentsKept ==
    ASSUME Before, AdapterNext
    PROVE  \/ AllKeep
           \/ \E l \in Msgs : \/ QueryText(l) \/ ReceiveCancelled(l)
                              \/ ReceivePart(l) \/ ReceiveResult(l)
           \/ \E s \in sending : StreamWrites(s)
           \/ \E k \in DOMAIN clients : CliAnswers(k)
  BY OthersKeep DEF AdapterNext, ALoopStep, TurnStep

\* What a client is for the answers, it stays.
LEMMA KeptClients ==
    ASSUME Before, NEW k \in DOMAIN clients
    PROVE  /\ clients[k].proc = "dead" => clients'[k].proc = "dead"
           /\ Keeps(k) => /\ Lost(k) => Lost(k)'
                          /\ Empty(clients[k]) => Empty(clients'[k])
                          /\ \A t \in Msgs :
                                 Answering(clients[k], t) => Answering(clients'[k], t)
  <1>1. Ages(clients[k], clients'[k])
    BY BeforeFacts DEF ClientsAged
  <1> QED BY <1>1 DEF Ages, Keeps, Lost, Empty, Answering, Whole, Rest

LEMMA NewClients ==
    ASSUME Before, NEW k \in DOMAIN clients', k \notin DOMAIN clients
    PROVE  Empty(clients'[k])
  <1>1. clients'[k] = Fresh
    BY BeforeFacts DEF ClientsAged
  <1> QED BY <1>1 DEF Fresh, Empty

\* Who uses a client does so in a turn, the only one, and the client is there.
LEMMA UserFacts ==
    ASSUME Before, NEW l \in Msgs, NEW k, Uses(l, k)
    PROVE  /\ k = with /\ with \in DOMAIN clients /\ Ctx(l) \in Msgs
           /\ \A m \in Msgs, j \in DOMAIN clients : Uses(m, j) => m = l /\ j = k
  <1>1. with \in DOMAIN clients
    BY ClientIsThere DEF Uses, Before, ClientsInv, AdapterTypeOK
  <1> QED BY <1>1, TurnHasContext DEF Uses, Before

\* An outcome is for good.
LEMMA UncutBefore ==
    ASSUME Before, Uncut'
    PROVE  Uncut
  <1> SUFFICES ASSUME NEW t \in Msgs, outcome[t] = "cancelled" PROVE FALSE
    BY DEF Uncut
  <1>1. outcome'[t] # outcome[t]
    BY DEF Uncut
  <1>2. PICK l \in Msgs : pc[l] = "turn" /\ t = Ctx(l)
    BY <1>1, NewEnds
  <1> QED BY <1>2 DEF Before, ClientsInv, OneEndPerTurn

Settled == EmptyBetween /\ AnswersItsUser /\ WritesForUser

\* A step that leaves the contents alone, and the turn with its client.
LEMMA KeepsUser ==
    ASSUME Before, Settled, AllKeep, sending' \subseteq sending,
           \A l \in Msgs, k \in DOMAIN clients' : Uses(l, k)' <=> Uses(l, k),
           \A l \in Msgs : Uses(l, with) => Ctx(l)' = Ctx(l)
    PROVE  Settled'
  <1>1. EmptyBetween'
    BY KeptClients, NewClients DEF Settled, AllKeep, EmptyBetween
  <1>2. ASSUME NEW k \in DOMAIN clients', NEW l \in Msgs, Uses(l, k)'
        PROVE  \/ Empty(clients'[k])
               \/ clients'[k].proc = "dead" /\ clients'[k].chan = <<>>
               \/ Answering(clients'[k], Ctx(l)') /\ [ctx |-> Ctx(l)', to |-> k] \notin sending'
    <2>1. Uses(l, k)
      BY <1>2
    <2>2. k \in DOMAIN clients /\ k = with /\ Ctx(l) \in Msgs /\ Ctx(l)' = Ctx(l)
      BY <2>1, UserFacts
    <2> QED BY <2>1, <2>2, KeptClients DEF Settled, AllKeep, AnswersItsUser, Keeps
  <1>3. AnswersItsUser'
    BY <1>2 DEF AnswersItsUser
  <1>4. ASSUME NEW s \in sending'
        PROVE  \/ clients'[s.to].proc = "dead"
               \/ \E l \in Msgs : Uses(l, s.to)' /\ Ctx(l)' = s.ctx
    <2>1. s.to \in DOMAIN clients /\ s.to \in DOMAIN clients' /\ s \in sending
      BY ClientIsThere, BeforeFacts DEF Before, ClientsInv, ClientsAged
    <2>2. CASE clients[s.to].proc = "dead"
      BY <2>1, <2>2, KeptClients
    <2>3. ASSUME NEW l \in Msgs, Uses(l, s.to), Ctx(l) = s.ctx
          PROVE  Uses(l, s.to)' /\ Ctx(l)' = s.ctx
      BY <2>1, <2>3, UserFacts
    <2> QED BY <2>1, <2>2, <2>3 DEF Settled, WritesForUser
  <1>5. WritesForUser'
    BY <1>4 DEF WritesForUser
  <1> QED BY <1>1, <1>3, <1>5 DEF Settled

\* A step after which no turn uses a client, and that used none but a lost one.
LEMMA KeepsUnused ==
    ASSUME Before, Settled, AllKeep, sending' = sending,
           stage' \notin {"asked", "receive"},
           \A l \in Msgs, k \in DOMAIN clients : Uses(l, k) => Lost(k)
    PROVE  Settled'
  <1>1. EmptyBetween'
    BY KeptClients, NewClients DEF Settled, AllKeep, EmptyBetween
  <1>2. AnswersItsUser'
    BY DEF AnswersItsUser, Uses
  <1>3. ASSUME NEW s \in sending PROVE clients'[s.to].proc = "dead"
    <2>1. s.to \in DOMAIN clients
      BY ClientIsThere DEF Before, ClientsInv
    <2>2. clients[s.to].proc = "dead"
      BY <2>1 DEF Settled, WritesForUser, Lost
    <2> QED BY <2>1, <2>2, KeptClients
  <1>4. WritesForUser'
    BY <1>3 DEF WritesForUser
  <1> QED BY <1>1, <1>2, <1>4 DEF Settled

\* A prompt goes to the client of the turn, which holds nothing.
LEMMA QueryTextSettles ==
    ASSUME Before, Settled, NEW l \in Msgs, QueryText(l)
    PROVE  Settled'
  <1>1. /\ pc[l] = "turn" /\ stage = "query" /\ ~Broken(with)
        /\ clients' = [clients EXCEPT ![with].asked = Append(@, Ctx(l))]
        /\ stage' = "asked" /\ UNCHANGED <<vars, with, sending>>
    BY DEF QueryText
  <1>2. \A m \in Msgs, k \in DOMAIN clients : ~Uses(m, k)
    BY <1>1 DEF Uses
  <1>3. /\ with \in DOMAIN clients /\ clients[with] \in Client /\ clients \in Seq(Client)
        /\ Ctx(l) \in Msgs /\ DOMAIN clients' = DOMAIN clients
    BY <1>1, ClientIsThere, TurnHasContext DEF Before, ClientsInv, AdapterTypeOK
  <1>4. clients[with].proc # "dead" /\ Empty(clients[with])
    BY <1>1, <1>2, <1>3 DEF Broken, Settled, EmptyBetween, Lost
  <1> DEFINE d == [clients[with] EXCEPT !.asked = Append(@, Ctx(l))]
  <1>5. clients' = [clients EXCEPT ![with] = d] /\ d \in Client
    <2>1. Append(clients[with].asked, Ctx(l)) \in Seq(Prompts)
      BY <1>3, AdapterAssumption DEF Client
    <2> QED BY <1>1, <1>3, <2>1 DEF Client
  <1>6. Answering(d, Ctx(l))
    BY <1>3, <1>4, <1>5, BeginsAnswer, AdapterAssumption DEF Answering
  <1> HIDE DEF d
  <1>7. clients'[with] = d /\ \A k \in DOMAIN clients : k # with => clients'[k] = clients[k]
    BY <1>3, <1>5
  <1>8. \A m \in Msgs, k \in DOMAIN clients : Uses(m, k)' <=> m = l /\ k = with
    BY <1>1, TurnHasContext DEF Uses, vars, Before
  <1>9. Ctx(l)' = Ctx(l)
    BY <1>1 DEF Ctx, vars
  <1>10. \A s \in sending : s.to \in DOMAIN clients /\ clients[s.to].proc = "dead"
    BY <1>2, ClientIsThere DEF Settled, WritesForUser, Before, ClientsInv
  <1>11. EmptyBetween'
    BY <1>2, <1>3, <1>7, <1>8 DEF Settled, EmptyBetween, Lost
  <1>12. AnswersItsUser'
    <2>1. [ctx |-> Ctx(l), to |-> with] \notin sending
      BY <1>4, <1>10
    <2> QED BY <1>1, <1>3, <1>6, <1>7, <1>8, <1>9, <2>1 DEF AnswersItsUser
  <1>13. WritesForUser'
    BY <1>1, <1>4, <1>7, <1>10 DEF WritesForUser
  <1> QED BY <1>11, <1>12, <1>13 DEF Settled

\* QueryStream leaves the writing to a goroutine of the turn.
LEMMA QueryStreamSettles ==
    ASSUME Before, Settled, NEW l \in Msgs, QueryStream(l)
    PROVE  Settled'
  <1>1. /\ pc[l] = "turn" /\ stage = "query" /\ clients[with].connected
        /\ sending' = sending \cup {[ctx |-> Ctx(l), to |-> with]}
        /\ stage' = "asked" /\ UNCHANGED <<vars, with, clients>>
    BY DEF QueryStream
  <1>2. \A m \in Msgs, k \in DOMAIN clients : ~Uses(m, k)
    BY <1>1 DEF Uses
  <1>3. with \in DOMAIN clients
    BY <1>1, ClientIsThere DEF Before, ClientsInv, AdapterTypeOK
  <1>4. \A m \in Msgs, k \in DOMAIN clients : Uses(m, k)' <=> m = l /\ k = with
    BY <1>1, TurnHasContext DEF Uses, vars, Before
  <1>5. Ctx(l)' = Ctx(l)
    BY <1>1 DEF Ctx, vars
  <1>6. EmptyBetween'
    BY <1>1, <1>2 DEF Settled, EmptyBetween, Lost
  <1>7. Empty(clients[with]) \/ (clients[with].proc = "dead" /\ clients[with].chan = <<>>)
    BY <1>1, <1>2, <1>3 DEF Settled, EmptyBetween, Lost
  <1>8. AnswersItsUser'
    BY <1>1, <1>4, <1>7 DEF AnswersItsUser
  <1>9. \A s \in sending : clients[s.to].proc = "dead"
    BY <1>2, ClientIsThere DEF Settled, WritesForUser, Before, ClientsInv
  <1>10. WritesForUser'
    BY <1>1, <1>3, <1>4, <1>5, <1>9 DEF WritesForUser
  <1> QED BY <1>6, <1>8, <1>10 DEF Settled

\* The goroutine writes, to the client of its own turn if at all.
LEMMA StreamSettles ==
    ASSUME Before, Settled, NEW s \in sending, StreamWrites(s)
    PROVE  Settled'
  <1>1. /\ sending' = sending \ {s} /\ UNCHANGED <<vars, stage, with>>
        /\ \/ clients' = clients
           \/ /\ ~Broken(s.to)
              /\ clients' = [clients EXCEPT ![s.to].asked = Append(@, s.ctx)]
    BY DEF StreamWrites
  <1>2. /\ \A m \in Msgs, k \in DOMAIN clients' : Uses(m, k)' <=> Uses(m, k)
        /\ \A m \in Msgs : Ctx(m)' = Ctx(m)
    BY <1>1 DEF Uses, Ctx, vars
  <1>3. CASE clients' = clients
    BY <1>1, <1>2, <1>3, KeepsUser DEF AllKeep, Keeps
  <1>4. CASE /\ ~Broken(s.to)
             /\ clients' = [clients EXCEPT ![s.to].asked = Append(@, s.ctx)]
    <2>1. /\ s.to \in DOMAIN clients /\ clients[s.to] \in Client /\ clients \in Seq(Client)
          /\ s.ctx \in Msgs /\ DOMAIN clients' = DOMAIN clients
      BY <1>4, ClientIsThere DEF Before, ClientsInv
    <2>2. PICK l \in Msgs : Uses(l, s.to) /\ Ctx(l) = s.ctx
      BY <1>4 DEF Broken, Settled, WritesForUser
    <2>3. s = [ctx |-> Ctx(l), to |-> s.to]
      BY <2>2 DEF Before, ClientsInv, AdapterTypeOK
    <2>4. Empty(clients[s.to])
      BY <1>4, <2>1, <2>2, <2>3 DEF Broken, Settled, AnswersItsUser
    <2> DEFINE d == [clients[s.to] EXCEPT !.asked = Append(@, s.ctx)]
    <2>5. clients' = [clients EXCEPT ![s.to] = d] /\ d \in Client
      <3>1. Append(clients[s.to].asked, s.ctx) \in Seq(Prompts)
        BY <2>1, AdapterAssumption DEF Client
      <3> QED BY <1>4, <2>1, <3>1 DEF Client
    <2>6. Answering(d, s.ctx) /\ d.proc = clients[s.to].proc
      BY <2>1, <2>4, <2>5, BeginsAnswer, AdapterAssumption DEF Answering, Client
    <2> HIDE DEF d
    <2>7. clients'[s.to] = d /\ \A k \in DOMAIN clients : k # s.to => clients'[k] = clients[k]
      BY <2>1, <2>5
    <2>8. \A m \in Msgs, k \in DOMAIN clients : Uses(m, k) => m = l /\ k = s.to
      BY <2>2, UserFacts
    <2>9. EmptyBetween'
      BY <1>2, <2>1, <2>2, <2>7 DEF Settled, EmptyBetween, Lost
    <2>10. AnswersItsUser'
      <3>1. [ctx |-> Ctx(l), to |-> s.to] \notin sending'
        BY <1>1, <2>3
      <3> QED BY <1>2, <2>1, <2>2, <2>6, <2>7, <2>8, <3>1 DEF AnswersItsUser
    <2>11. WritesForUser'
      <3>1. ASSUME NEW u \in sending'
            PROVE  \/ clients'[u.to].proc = "dead"
                   \/ \E m \in Msgs : Uses(m, u.to)' /\ Ctx(m)' = u.ctx
        <4>1. u.to \in DOMAIN clients /\ u \in sending
          BY <1>1, ClientIsThere DEF Before, ClientsInv
        <4> QED BY <1>2, <2>1, <2>6, <2>7, <4>1 DEF Settled, WritesForUser
      <3> QED BY <3>1 DEF WritesForUser
    <2> QED BY <2>9, <2>10, <2>11 DEF Settled
  <1> QED BY <1>1, <1>3, <1>4

\* The process answers the prompt of the turn that uses it.
LEMMA CliSettles ==
    ASSUME Before, Settled, NEW k \in DOMAIN clients, CliAnswers(k)
    PROVE  Settled'
  <1> DEFINE c == clients[k]
             d == [c EXCEPT !.chan = Append(@, [ctx |-> Head(c.asked), result |-> c.parted]),
                            !.parted = ~@,
                            !.asked = IF c.parted THEN Tail(@) ELSE @]
  <1>1. /\ c.proc # "dead" /\ c.asked # <<>> /\ clients' = [clients EXCEPT ![k] = d]
        /\ UNCHANGED <<vars, stage, with, sending>>
    BY DEF CliAnswers
  <1>2. /\ c \in Client /\ clients \in Seq(Client) /\ DOMAIN clients' = DOMAIN clients
        /\ DOMAIN clients = 1 .. Len(clients)
    BY <1>1, ClientIsThere DEF Before, ClientsInv
  <1>3. clients'[k] = d /\ \A j \in DOMAIN clients : j # k => clients'[j] = clients[j]
    BY <1>1, <1>2
  <1>4. d \in Client /\ d.proc = c.proc
    <2>1. k \in DOMAIN clients' /\ clients' \in Seq(Client)
      BY <1>2, BeforeFacts DEF ClientsAged
    <2>2. \A s \in Seq(Client) : \A j \in DOMAIN s : s[j] \in Client
      OBVIOUS
    <2>3. d.proc = c.proc
      BY <1>2 DEF Client
    <2> QED BY <1>3, <2>1, <2>2, <2>3
  <1>5. PICK l \in Msgs : Uses(l, k)
    BY <1>1 DEF Settled, EmptyBetween, Lost, Empty
  <1>6. /\ Answering(c, Ctx(l)) /\ [ctx |-> Ctx(l), to |-> k] \notin sending
        /\ Ctx(l) \in Msgs
    BY <1>1, <1>5, UserFacts DEF Settled, AnswersItsUser, Empty
  <1>7. Answering(d, Ctx(l))
    <2>1. Ctx(l) \in Prompts
      BY <1>6, AdapterAssumption
    <2>2. IF Whole(c, Ctx(l)) THEN Whole(d, Ctx(l)) ELSE Rest(d, Ctx(l))
      BY <1>1, <1>2, <1>4, <1>6, <2>1, GivesAnswer
    <2> HIDE DEF d
    <2> QED BY <2>2 DEF Answering
  <1> HIDE DEF d
  <1>8. /\ \A m \in Msgs, j \in DOMAIN clients : Uses(m, j)' <=> Uses(m, j)
        /\ \A m \in Msgs : Ctx(m)' = Ctx(m)
    BY <1>1 DEF Uses, Ctx, vars
  <1>9. \A m \in Msgs, j \in DOMAIN clients : Uses(m, j) => m = l /\ j = k
    BY <1>5, UserFacts
  <1>10. EmptyBetween'
    BY <1>2, <1>3, <1>5, <1>8 DEF Settled, EmptyBetween, Lost
  <1>11. AnswersItsUser'
    BY <1>1, <1>2, <1>3, <1>6, <1>7, <1>8, <1>9 DEF AnswersItsUser
  <1>12. WritesForUser'
    <2>1. \A s \in sending : s.to \in DOMAIN clients
      BY ClientIsThere DEF Before, ClientsInv
    <2> QED BY <1>1, <1>3, <1>4, <1>8, <2>1 DEF Settled, WritesForUser
  <1> QED BY <1>10, <1>11, <1>12 DEF Settled

\* The turn receives: a part of its own answer, or the result.
LEMMA ReceiveSettles ==
    ASSUME Before, Settled, NEW l \in Msgs, ReceivePart(l) \/ ReceiveResult(l)
    PROVE  Settled' /\ heard' = [heard EXCEPT ![Ctx(l)] = @ \cup {Ctx(l)}]
  <1> DEFINE c == clients[with]
             d == [c EXCEPT !.chan = Tail(@)]
  <1>1. /\ Uses(l, with) /\ c.chan # <<>> /\ clients' = [clients EXCEPT ![with].chan = Tail(@)]
        /\ UNCHANGED <<with, sending, turn>>
        /\ heard' = [heard EXCEPT ![Ctx(l)] = @ \cup {Head(c.chan).ctx}]
        /\ Head(c.chan).result => stage' = "idle"
        /\ ~Head(c.chan).result => UNCHANGED <<pc, stage>>
    BY DEF ReceivePart, ReceiveResult, Receiving, Incoming, Uses, Ends, EndTurn, vars
  <1>2. /\ with \in DOMAIN clients /\ Ctx(l) \in Msgs
        /\ \A m \in Msgs, j \in DOMAIN clients : Uses(m, j) => m = l /\ j = with
    BY <1>1, UserFacts
  <1>3. /\ c \in Client /\ clients \in Seq(Client) /\ DOMAIN clients' = DOMAIN clients
        /\ clients' = [clients EXCEPT ![with] = d]
    BY <1>1, <1>2, ClientIsThere DEF Before, ClientsInv
  <1>4. clients'[with] = d /\ \A j \in DOMAIN clients : j # with => clients'[j] = clients[j]
    BY <1>2, <1>3
  <1>5. d \in Client /\ d.proc = c.proc
    <2>1. with \in DOMAIN clients' /\ clients' \in Seq(Client)
      BY <1>2, <1>3, BeforeFacts DEF ClientsAged
    <2>2. \A s \in Seq(Client) : \A j \in DOMAIN s : s[j] \in Client
      OBVIOUS
    <2>3. d.proc = c.proc
      BY <1>3 DEF Client
    <2> QED BY <1>4, <2>1, <2>2, <2>3
  <1>6. Answering(c, Ctx(l)) /\ [ctx |-> Ctx(l), to |-> with] \notin sending
    BY <1>1, <1>2 DEF Settled, AnswersItsUser, Empty
  <1>7. /\ Head(c.chan).ctx = Ctx(l)
        /\ IF Head(c.chan).result THEN Empty(d) ELSE Answering(d, Ctx(l))
    BY <1>1, <1>2, <1>3, <1>5, <1>6, TakesAnswer, AdapterAssumption DEF Answering
  <1>8. \A s \in sending : s.to \in DOMAIN clients /\ s = [ctx |-> s.ctx, to |-> s.to]
    BY ClientIsThere DEF Before, ClientsInv, AdapterTypeOK
  <1> HIDE DEF d
  <1>p. \A s \in sending : clients'[s.to].proc = clients[s.to].proc
    <2>1. \A j \in DOMAIN clients : clients'[j].proc = clients[j].proc
      BY <1>4, <1>5
    <2> QED BY <1>8, <2>1
  <1>9. ASSUME Head(c.chan).result PROVE Settled'
    <2>1. \A m \in Msgs, j \in DOMAIN clients : ~Uses(m, j)'
      BY <1>1, <1>9 DEF Uses
    <2>2. EmptyBetween'
      BY <1>2, <1>3, <1>4, <1>7, <1>9 DEF Settled, EmptyBetween, Lost
    <2>3. AnswersItsUser'
      BY <1>3, <2>1 DEF AnswersItsUser
    <2>4. \A s \in sending : clients[s.to].proc = "dead"
      BY <1>2, <1>6, <1>8 DEF Settled, WritesForUser
    <2>5. WritesForUser'
      BY <1>1, <1>p, <2>4 DEF WritesForUser
    <2> QED BY <2>2, <2>3, <2>5 DEF Settled
  <1>10. ASSUME ~Head(c.chan).result PROVE Settled'
    <2>1. /\ \A m \in Msgs, j \in DOMAIN clients : Uses(m, j)' <=> Uses(m, j)
          /\ \A m \in Msgs : Ctx(m)' = Ctx(m)
      BY <1>1, <1>10 DEF Uses, Ctx
    <2>2. EmptyBetween'
      BY <1>1, <1>2, <1>3, <1>4, <2>1 DEF Settled, EmptyBetween, Lost
    <2>3. AnswersItsUser'
      BY <1>1, <1>2, <1>3, <1>4, <1>6, <1>7, <1>10, <2>1, ZenonT(40) DEF AnswersItsUser
    <2>4. WritesForUser'
      BY <1>1, <1>p, <1>8, <2>1 DEF Settled, WritesForUser
    <2> QED BY <2>2, <2>3, <2>4 DEF Settled
  <1> QED BY <1>1, <1>7, <1>9, <1>10

\* Only these two add to what a turn heard.
LEMMA HeardStays ==
    ASSUME Before
    PROVE  heard' = heard \/ \E l \in Msgs : ReceivePart(l) \/ ReceiveResult(l)
  <1>1. \A l \in Msgs : TurnStep(l) => heard' = heard \/ ReceivePart(l) \/ ReceiveResult(l)
    BY DEF TurnStep, TakesClient, Listens, QueryText, QueryTextFails, QueryStream,
           QueryStreamFails, ReceiveCancelled, ReceiveClosed
  <1>2. \A t \in Msgs : ReconnectStep(t) => heard' = heard
    BY ReconnectSteps
  <1>3. ASSUME \/ AStart \/ AStop \/ Aside \/ (\E l \in Msgs : ABeginTurn(l))
               \/ (\E s \in sending : StreamWrites(s))
        PROVE  heard' = heard
    BY <1>3 DEF AStart, AStop, Aside, ABeginTurn, StreamWrites
  <1> QED BY <1>1, <1>2, <1>3, StepKinds DEF Before

LEMMA StepSettles ==
    ASSUME Before, AdapterNext, Settled, Uncut'
    PROVE  Settled'
  <1>1. ASSUME NEW l \in Msgs, ReceiveCancelled(l) PROVE FALSE
    <2>1. outcome' = [outcome EXCEPT ![Ctx(l)] = "cancelled"] /\ pc[l] = "turn"
      BY <1>1 DEF ReceiveCancelled, Receiving, Ends
    <2>2. Ctx(l) \in Msgs
      BY <2>1, TurnHasContext DEF Before
    <2> QED BY <2>1, <2>2, BeforeFacts DEF Uncut
  <1>2. CASE \/ \E l \in Msgs : QueryText(l) \/ ReceivePart(l) \/ ReceiveResult(l)
             \/ \E s \in sending : StreamWrites(s)
             \/ \E k \in DOMAIN clients : CliAnswers(k)
    BY <1>2, QueryTextSettles, ReceiveSettles, StreamSettles, CliSettles
  <1>3. CASE AllKeep
    <2>1. CASE AStart \/ AStop \/ (\E t \in Msgs : ReconnectStep(t))
      <3>1. UNCHANGED <<pc, turn, stage, with, sending>>
        BY <2>1, ReconnectSteps DEF AStart, Start, loopVars, AStop, Stop, vars
      <3> QED BY <1>3, <3>1, KeepsUser DEF Uses, Ctx
    <2>2. CASE Aside /\ TurnsLast
      <3>1. /\ \A l \in Msgs, k \in DOMAIN clients' : Uses(l, k)' <=> Uses(l, k)
            /\ \A l \in Msgs : Uses(l, with) => Ctx(l)' = Ctx(l)
        BY <2>2 DEF Aside, TurnsLast, Uses, Ctx
      <3> QED BY <1>3, <2>2, <3>1, KeepsUser DEF Aside
    <2>3. ASSUME NEW l \in Msgs, ABeginTurn(l) PROVE Settled'
      <3>1. pc[l] = "begin" /\ stage' = "begun" /\ sending' = sending
        BY <2>3 DEF ABeginTurn, BeginTurn
      <3>2. \A m \in Msgs : pc[m] # "turn"
        BY <3>1, TurnHasContext DEF Before
      <3> QED BY <1>3, <3>1, <3>2, KeepsUnused DEF Uses
    <2>4. ASSUME NEW l \in Msgs,
                 TakesClient(l) \/ QueryTextFails(l) \/ QueryStreamFails(l)
          PROVE  Settled'
      <3>1. /\ stage \in {"begun", "query"} /\ stage' \in {"query", "idle"}
            /\ sending' = sending
        BY <2>4 DEF TakesClient, QueryTextFails, QueryStreamFails, Ends
      <3> QED BY <1>3, <3>1, KeepsUnused DEF Uses
    <2>5. ASSUME NEW l \in Msgs, Listens(l) PROVE Settled'
      <3>1. UNCHANGED <<vars, with, sending>> /\ stage = "asked" /\ stage' = "receive"
        BY <2>5 DEF Listens
      <3> QED BY <1>3, <3>1, KeepsUser DEF Uses, Ctx, vars
    <2>6. ASSUME NEW l \in Msgs, ReceiveClosed(l) PROVE Settled'
      <3>1. SeesClosed(l) /\ stage' = "idle" /\ sending' = sending
        BY <2>6 DEF ReceiveClosed, Ends
      <3>2. Uses(l, with) /\ Lost(with)
        BY <3>1, ClosedIsDead DEF SeesClosed, Incoming, Lost, Before
      <3>3. \A m \in Msgs, k \in DOMAIN clients : Uses(m, k) => Lost(k)
        BY <3>2, UserFacts
      <3> QED BY <1>3, <3>1, <3>3, KeepsUnused
    <2> QED BY <1>1, <1>2, <2>1, <2>2, <2>3, <2>4, <2>5, <2>6, StepKinds,
               QueryStreamSettles DEF Before, TurnStep
  <1> QED BY <1>1, <1>2, <1>3, ContentsKept

LEMMA StepAnswers ==
    ASSUME Before, AdapterNext, AnswersInv
    PROVE  AnswersInv'
  <1> SUFFICES ASSUME Uncut'
               PROVE  Settled' /\ \A t \in Msgs : heard'[t] \subseteq {t}
    BY DEF AnswersInv, ClientsAreEmptied, OwnAnswers, Settled, Uncut
  <1>1. Settled /\ \A t \in Msgs : heard[t] \subseteq {t}
    BY UncutBefore DEF AnswersInv, ClientsAreEmptied, OwnAnswers, Settled, Uncut
  <1>2. \/ heard' = heard
        \/ \E l \in Msgs : heard' = [heard EXCEPT ![Ctx(l)] = @ \cup {Ctx(l)}]
    BY <1>1, HeardStays, ReceiveSettles
  <1>3. heard \in [Msgs -> SUBSET Prompts]
    BY DEF Before, ClientsInv, AdapterTypeOK
  <1> QED BY <1>1, <1>2, <1>3, StepSettles

-----------------------------------------------------------------------------
(* The theorems.                                                           *)

AInv == ClientsInv /\ ReconnectInv /\ AnswersInv

LEMMA InitAInv == AdapterInit => AInv
  <1> SUFFICES ASSUME AdapterInit PROVE AInv
    OBVIOUS
  <1>1. clients = <<>> /\ Len(clients) = 0 /\ DOMAIN clients = {}
    BY DEF AdapterInit
  <1>2. AdapterTypeOK
    BY <1>1 DEF AdapterInit, AdapterTypeOK, Init, None
  <1>3. /\ ClientsBeginWithStart /\ OneEndPerTurn /\ LivesInOpen
        /\ HeldByReconnect /\ NoOrphan /\ StopEndsProcesses
    BY <1>1 DEF AdapterInit, Init, ClientsBeginWithStart, OneEndPerTurn, LivesInOpen,
                HeldByReconnect, NoOrphan, StopEndsProcesses
  <1>4. ReconnectInv
    BY DEF AdapterInit, Init, ReconnectInv, OneReconnect, ReplacesDeadOnly, DisconnectsDead
  <1>5. AnswersInv
    BY <1>1 DEF AdapterInit, AnswersInv, ClientsAreEmptied, EmptyBetween, AnswersItsUser,
                WritesForUser, OwnAnswers
  <1> QED BY <1>2, <1>3, <1>4, <1>5 DEF AInv, ClientsInv

LEMMA StepAInv == IInv /\ IInv' /\ AInv /\ [AdapterNext]_adapterVars => AInv'
  <1>1. ASSUME IInv, IInv', AInv, AdapterNext PROVE AInv'
    <2>1. Before /\ ReconnectInv /\ AnswersInv
      BY <1>1 DEF AInv, Before, AdapterMove
    <2> QED BY <1>1, <2>1, StepClients, StepReconnects, StepAnswers DEF AInv
  <1>2. ASSUME AInv, UNCHANGED adapterVars PROVE AInv'
    BY <1>2, SMTT(20) DEF AInv, adapterVars, vars, clientVars, ClientsInv, AdapterTypeOK,
       ClientsBeginWithStart, OneEndPerTurn, LivesInOpen, HeldByReconnect, NoOrphan,
       StopEndsProcesses, ReconnectInv, OneReconnect, ImagesQuiet, OneActive,
       ActiveForDead, UsedIsCurrent, DisconnectsDead, ReplacesDeadOnly, Active, Uses,
       HasImages, Ctx, AnswersInv, ClientsAreEmptied, Uncut, EmptyBetween,
       AnswersItsUser, WritesForUser, OwnAnswers, Lost
  <1> QED BY <1>1, <1>2

\* The inductive invariant holds in every run of the adapter.
THEOREM AdapterInvariance == AdapterSpec => []AInv
  <1>1. AdapterInit => AInv
    BY InitAInv
  <1>2. IInv /\ IInv' /\ AInv /\ [AdapterNext]_adapterVars => AInv'
    BY StepAInv
  <1>3. AdapterSpec => []IInv
    BY ImplementsRunLoop, Invariance
  <1> QED BY <1>1, <1>2, <1>3, PTL DEF AdapterSpec

\* Every variable has its type, and a running adapter, a turn past its look at
\* c.client and a reconnect have a client to call (runClaude and
\* reconnectClient use c.client without a check for nil).
THEOREM AdapterTypeCorrect == AdapterSpec => []AdapterTypeOK
  <1>1. AInv => AdapterTypeOK
    BY DEF AInv, ClientsInv
  <1> QED BY <1>1, AdapterInvariance, PTL

\* An open transport belongs to the running adapter, or to a reconnect that will
\* swap it in or disconnect it: Stop, Start and reconnectClient orphan no process.
THEOREM NoProcessOrphaned == AdapterSpec => []NoOrphan
  <1>1. AInv => NoOrphan
    BY DEF AInv, ClientsInv
  <1> QED BY <1>1, AdapterInvariance, PTL

\* Once Stop has returned, and until the next Start, only a process that a late
\* reconnect is about to dispose of is alive.
THEOREM StopLeavesNoProcess == AdapterSpec => []StopEndsProcesses
  <1>1. AInv => StopEndsProcesses
    BY DEF AInv, ClientsInv
  <1> QED BY <1>1, AdapterInvariance, PTL

\* In the first life of the adapter reconnectClient never disconnects a process
\* that is not dead, unless a turn with images has asked for a reconnect.
THEOREM ReconnectsReplaceDead == AdapterSpec => []ReplacesDeadOnly
  <1>1. AInv => ReplacesDeadOnly
    BY DEF AInv, ReconnectInv
  <1> QED BY <1>1, AdapterInvariance, PTL

\* As long as no turn was cancelled in the middle, runClaude takes the answers to
\* its own prompt from the message channel, and no other turn's.
THEOREM TurnsHearTheirOwn == AdapterSpec => []OwnAnswers
  <1>1. AInv => OwnAnswers
    BY DEF AInv, AnswersInv
  <1> QED BY <1>1, AdapterInvariance, PTL

=============================================================================
