# A TLA+ model of ccagent

ccagent is a Go package that drives the Claude Code CLI as a subprocess and
offers it as an `Adapter`: start it, send messages, read a channel of events,
cancel, stop. Its difficulty is concurrency. A user's goroutines call the
adapter at any time; a run loop serves the messages; a relay carries the
events; a reader follows the CLI's stdout; a reconnect may be under way; and
the CLI is a process of its own that may die. This directory models that
program in TLA+, checks the models with TLC and proves theorems about them
with TLAPS. Line numbers refer to the sources in `src/`.

## 1. The system

| component | source | state | operations |
|---|---|---|---|
| message intake and run loop | `claude.go` 411-509, 978-1011 | `status`, `running`, `queue`, `runCancel`, contexts, `wg` | `Send`, `Cancel`, `Stop`, `runLoop` |
| turn execution and reconnection | `claude.go` 178-292, 560-788 | `client`, the client a turn copied, the reader's position | `runClaude`, `newConnectedClient`, `reconnectClient` |
| event relay | `claude.go` 314-409 | `internalEvents`, `buf`, `events`, `done`, `relayWg` | `emit`, `eventRelay`, `drainInternalEvents`, `forwardClientErrors` |
| lifecycle | `claude.go` 145-175, 978-1011 | the channels of each life, the relays alive | `Start`, `Stop` |
| compaction and history | `claude.go` 568-583, 699-723, 790-951 | `history`, `estimatedTokens`, `sessionID` | `compactSession`, `GetHistory`, `ClearHistory` |
| permissions, status callbacks | `claude.go` 306-312, 955-970 | `permissionCh`, `statusCallbacks` | `RespondPermission`, `OnStatusChange`, `setStatus` |
| client | `internal/claudecode/client.go` | `connected`, `transport`, `msgChan`, `errChan` | `Connect`, `Disconnect`, `Query`, `QueryStream`, `Receive*`, `Interrupt` |
| transport | `internal/claudecode/transport.go` | the process, pipes, `msgChan`, `errChan`, temporary files | `connect`, `sendMessage`, `handleStdout`, `interrupt`, `close` |
| parser | `internal/claudecode/parser.go` | the accumulating buffer | `processLine`, `parseMessage` |
| command line, options | `claude.go` 178-247, `cli.go`, `options.go`, `transport.go` 343-405 | none | `newConnectedClient`, `NewOptions`, `prepareMcpConfig`, `buildCommand`, look-ups |
| types, errors | `types.go`, `errors.go` | none | constructors |
| interfaces | `adapter/` | none | types shared by adapters |

How they interact:

- `Send` puts a message into `queue`, or spawns `runLoop` with it. The loop calls
  `runClaude` for one turn after another; after each it takes the whole queue as
  one combined message. Everything is under `c.mu`, but the lock is released
  between the steps.
- `runClaude` copies `c.client`, writes the prompt, and ranges over the client's
  message channel until a result, a cancellation or the end of the channel.
  When the channel ends it spawns `reconnectClient`, which takes the lock
  twice, with a disconnect and a connect in between.
- A turn adds its message and its answer to `history`. When the estimate passes
  80% of the window, `compactSession` first has the same CLI summarise the history,
  replaces it by the summary, and sends that as the context of a new session:
  three prompts on one channel instead of one.
- `runClaude` and `forwardClientErrors` call `emit`; `eventRelay` carries the
  events to the consumer.
- `Cancel` clears the queue, cancels the context of the turn and sends SIGINT.
  `Stop` closes `done`, cancels the context, disconnects the client, and waits
  for the goroutines, then for the relay. `Start` makes new channels, a new relay
  and a new client, and resets neither `running` nor `queue`.

What makes it correct:

- intake: an accepted message is served once, in order, one turn at a time, or
  dropped by a cancellation that was meant for it; nothing survives `Stop`;
- turns: a turn ends, hears the answers to its own prompt, and leaves a client
  that works; no process is orphaned;
- relay: no event is lost, doubled or reordered; a slow consumer blocks nobody;
- lifecycle: each events channel is closed exactly once, and `Stop` returns;
- history: the estimate, the history and the session id describe the same
  conversation, and nothing of it is lost unless the user clears it;
- command line: what the configuration says reaches the process, and no flag
  contradicts another;
- transport and parser: no message is lost or swallowed, `close` ends the process
  and removes its files, and nobody deadlocks over a full pipe.

`PROJECT.json` lists the hazards at the line where each one bites.

## 2. The modules

| module | models | state |
|---|---|---|
| `TurnServer` | what the caller of `Send` is promised (abstract) | waiting, current, finished, dropped messages |
| `RunLoop` | intake and scheduling | the fields above, `pc` and `turn` per run loop, the cancelled contexts |
| `EventStream` | what the consumer of `Receive` is promised (abstract) | events sent, got, ended |
| `EventRelay` | emit to consumer, one life | three buffers, where producers, relay and `Stop` stand |
| `Lifecycle` | several lives, failed starts | per generation: its relay, the fields that relay has bound, its channel |
| `Adapter` | turns, clients, reconnects; extends `RunLoop` | every client ever connected, the turn's stage, each reconnect |
| `Compaction` | history, estimate, session, `ClearHistory` and `compactSession`; extends `Adapter`, uses `CommandLine` | the history's entries, how far a compaction is, what it copied and collected |
| `CommandLine` | from a configuration to the process | none: operators over records and sets of flags |
| `Parser` | what becomes of a line of the CLI's output | none: operators over the buffer |
| `Transport` | one client and its transport, from connect to disconnect; uses `Parser` | the locks' holders, both pipes, the reader, both channels, the process, the files |
| `RunLoopProofs`, `EventRelayProofs`, `LifecycleProofs`, `AdapterProofs`, `CompactionProofs`, `TransportProofs`, `CommandLineProofs` | theorems about the module of that name | |
| `BookkeepingProofs` | theorems about the estimate and the session id; extends `CompactionProofs`, uses `CommandLineProofs` | |
| `MC...` | the same modules for TLC | |

**RunLoop.** A message is the number of the `Send` call that carried it; a run
loop has the number of the message whose `Send` spawned it; a context has the
number of the first message of its turn. Every action is one critical section
of `c.mu`, or one step of a goroutine outside it. `Send` is split by what it
finds (`SendRefused`, `SendQueues`, `SendStarts`); the run loop goes through
`BeginTurn` or `SkipTurn` (the context check at 561), `EndTurn`, `Drain` or
`LeaveLoop` (491-505), `Release` (the deferred critical section, 481-486) and
`WgDone`. `LeaveLoop` and `Release` are two steps because the code unlocks
between them, and that is where a message can be stranded. `Stop` waits twice,
for the `WaitGroup` `wg` (`StopWaited`) and for `relayWg` (`StopReturns`). All lives
share the two groups, and `wg` counts the error forwarders beside the run loops. The
forwarder and the relay of a life end of themselves when it is stopped, so they need no
state of their own: a wait that falls into a running life waits for that life's too.
`fate` and `doomed`
are history variables: what became of a message, and which messages were
cancelled before their turn began.

**EventRelay.** `emit` is its two selects (`EmitCheck`, then `EmitSend` or
`EmitGivesUp`); the relay is one action per ready case; the flush may meet its
deadline at any of its steps, since the consumer may be arbitrarily slow;
`drainInternalEvents` gives up on the first event for which there is no room, and
that event is gone. Events are the numbers in which `emit` accepted them.

**Lifecycle.** The relay goroutine reads `c.events`, `c.done` and
`c.internalEvents` without the lock: `close(c.events)` is bound when the goroutine
first runs, the others when it enters a select. `StartFails` is a `Start` whose
`newConnectedClient` returns an error after the relay was spawned. `setStatus` calls
the status listeners while its caller holds `c.mu`: with a listener that calls
the adapter (`reenters`) the lock stays `held`, and every later action that needs it
is disabled.

**Adapter.** Every action of `RunLoop` appears with its effect on the clients. A
turn passes its context check, copies `c.client` (`TakesClient`), writes its prompt
(`QueryText`, or `QueryStream` and later `StreamWrites`, since `QueryStream` leaves
the write to a goroutine), asks for the channel (`Listens`) and receives. A
client is a record: connected, the state of its process (up, hit by SIGINT,
dead), the prompts it has yet to answer and the messages in its channel. An answer is a
part and a result, marked with the prompt. `Prompts` is a parameter: a turn's prompt
is the number of its context, and `Compaction` adds two of its own for each
(`SummaryOf`, `ContextOf`). `reconnectClient` is four
steps, or three when connecting fails. The CLI itself (`CliAnswers`,
`CliInterrupted`, `CliDies`) is not part of the repository: it is modelled from what
the code expects of it, and it may die at any time and answer late. A Disconnect
whose process exits with a status returns an error and leaves the client connected
to a closed transport; `fails` counts these and the connects that fail. `AStopReturns`
adds to `RunLoop`'s waits that the forwarder of a new life ends while its process is
dead.

**Compaction.** Every action of `Adapter` appears with what it does to the
conversation. An entry of the history is what it is (a message, an answer, a summary,
or the text `[summary unavailable]`) and the messages it stands for; tokens are
counted by kind of entry. `CTakesClient` is the critical section 569-576: it tracks the
message, compares the estimate with the limit, and copies client and session. A
compaction walks through `phase`: `begun`, the copy of the history (`query`), its
transcript sent (`asked`), the answer collected (`summary`), the replacement
(`reset`), the context sent by a `QueryStream` goroutine (`context`, `told`), its
acknowledgement awaited (`ack`), `done`. The query of the turn waits until the phase is
`none` again. The result that ends the summary may be an error, and no text may have come
before it: `compactSession` looks at neither, and replaces the history in every case
(853-866). An answer likewise may have no text. `compactSession` copies `c.client`
itself, so its client (`compacts`) may differ from the turn's (`with`). A session id is
the number of the prompt whose result carried it. `resumed` is the session each process
was launched with, computed by `CommandLine`.

**CommandLine.** A configuration is a record of naturals with 0 for "not set"; a
command line is a set of flags with values. `ClientOptions` is `newConnectedClient`
with `NewOptions`, `PrepareMcpConfig` turns the MCP servers into an extra argument,
`BuildCommand` is `buildCommand`, and `Launch` composes them as `connect` does.

**Transport.** `Adapter` takes a client for granted; this module looks inside one.
`Disconnect` holds the client's lock `c.mu` to its end, and `close` the
transport's lock `t.mu`; `sendMessage` holds `t.mu` for reading while it writes to
a pipe that may be full. A Disconnect is at `asking` (for `t.mu`), `waiting`
(for the reader, or its timer), `reaping` (SIGTERM is sent, the select waits) or
`killing`. The reader is at the place where it can block: the scan, the send
on `msgChan` (`hand`) or the send on `errChan` (`report`, `last`). Lines are numbers,
and `Parser` knows their kinds: whole messages, the two halves of a message,
objects that are no messages, noise that is no object, lines above the
scanner's limit. SIGINT and SIGTERM may or may not end a process, which may
also exit of itself, so they do not appear as state; SIGKILL does.

## 3. The runs

Bounds are constants named `Max...`. Deadlock checking is off in every run
because the system may really stop: when the bounded calls are spent and
everything has returned there is nothing left to do. That nothing hangs is what
the liveness properties say.

| run | bounds | shows |
|---|---|---|
| `RunLoop` | 4 sends, queue 2, 2 lives | types, one turn at a time, nothing lost or reordered, exact cancellation, quiet after `Stop`; every `Stop` returns unless a `Start` overtakes it; a message queued while a turn lasts is taken or dropped; refines `TurnServer` |
| `RunLoop_stranded` | 2, 2, 1 | *violation*: a queued message nobody takes |
| `EventRelay` | 2 producers, 5 events, capacities 2 | no loss on the way, complete flush; `emit` and `Stop` return though nobody may read; a consumer that keeps reading gets its events and sees the end; refines `EventStream` |
| `Lifecycle` | 4 starts, 3 may fail, a listener that calls back may be registered at any time | a `Stop` that returned has closed the channel of its life; while no start failed, channels are closed once and `Stop` returns unless its listener waits for the lock |
| `Lifecycle_failedstart` | 2 starts, 1 fails | *violation*: `Stop` hangs |
| `Adapter_safety` | 2 turns, 2 lives, 4 clients, a crash, a connect or disconnect that fails, message 1 has images | no orphan process, own answers only, `Stop` ends the processes |
| `Compaction` | 2 text turns, 1 life, 3 clients, a crash, a `ClearHistory`, a window of 5 tokens (messages 2, answers and summaries 1) | history, estimate and session stay those of the conversation; every turn ends; a death a turn sees is repaired; no reconnect disconnects a process that is not dead |
| `Adapter_cancel`, `_brokenpipe`, `_stale` | 2 turns, 1 life; a crash in `_brokenpipe`, none in the others | *violations*, below |
| `Transport` | a sender, 2 Disconnects, 3 lines, pipes and channels of 1, a buffer of 2 | writers have their stdin; a Disconnect that returned leaves no process and no file; every message once and in order; the reader ends; a Disconnect returns if the process reads or dies; with receivers messages arrive behind errors |
| `Transport_grace` | 1 Disconnect | *violation*: SIGKILL from `close` without grace |

Why the bounds are enough to be interesting. Four sends and a queue of two let a
turn of two combined messages be followed by another, let the queue fill up, and let two run loops exist
at once (one past `Release`, one new) across a `Stop` and a `Start`. Channels of
one or two fill and empty many times over; two producers are enough for one to be caught
between its two selects while the other exits. Two turns with two lives let a
reconnect of the first life meet the client of the second; four clients are one
per `Start` and one per reconnect, so the bound never stops a reconnect. In
`Compaction` a first turn fits into the window and a second behind its answer does
not, unless a `ClearHistory` came between, so the compaction meets every combination
of a cancellation, a dead process (before, during and after the summary), a
summary with text, without, or with an error, a clear and a reconnect of the first turn. The theorems remove the bounds for every
invariant. Reclaiming the unused capacity of `buf`
and texts are below the level of the models.

### Fairness

Only goroutines are scheduled fairly: nobody has to call the adapter, and no
process has to die of itself. In detail:

- `RunLoop`: each step of a run loop is weakly fair. For `EndTurn` that means
  the CLI ends every turn; `Compaction` checks that assumption (`TurnsEnd`), from a
  CLI that answers prompts or dies when it was interrupted. A turn whose prompt
  a `QueryStream` goroutine never wrote is the exception (`client.go:152`). `Stop`'s
  wait for `wg` is fair only while no life runs: nothing ends what a running life holds up.
- `EventRelay`: Go's select picks at random among the ready cases, so each case
  that stays ready is taken in the end, and the timer of the flush fires.
  Producers return once `done` is closed. The consumer need not read; the two
  properties about a consumer that does say so (`ConsumerReads => ...`).
- `Lifecycle`: the same for the relays. The relay of a stopped life is in a
  select whose `done` case stays ready.
- `Transport`: the reader, senders and Disconnects proceed, timers fire, and
  SIGKILL ends a process. Nothing else is fair: who needs a process that reads,
  or somebody at the channels, says so (`ProcessReads`, `BothReceived`).
- `Compaction`: as long as any goroutine can take a step, or a process answer or
  die of SIGINT, some step of that kind happens. This is weaker than what the
  scheduler gives, and enough because each has finitely many steps to make.
- `Adapter`, `Compaction`: reconnects proceed, and in the runs with liveness they
  succeed (`MaxFails = 0`); the code does not retry one that fails.

### What the violations say

Each contradicts a sentence of the repository, quoted in `PROJECT.json`.

1. *Stranded message* (`RunLoop_stranded`). `runLoop` sees an empty queue and
   unlocks; `Send` finds `running` and queues its message; the loop then resets
   `running`. Nobody takes the message until a later `Send` starts a loop, whose
   own message then overtakes it.
2. *A failed start* (`Lifecycle_failedstart`). `Start` spawns the relay
   before it connects, and leaves it behind on an error; the `Stop` of a later
   life waits for it forever.
3. *No reconnect after Cancel* (`Adapter_cancel`). A message behind the
   cancellation ends the turn in the branch that does not reconnect; the
   interrupted process dies and stays the client.
4. *Reconnect too late* (`Adapter_brokenpipe`). The process dies in a turn; the turn
   spawns `reconnectClient` and ends with `EventDone` without waiting for it. The turn of a
   later `Send` takes `c.client` before the swap and fails on the dead client while the
   reconnect is under way. Nobody calls `Cancel`.
5. *Another turn's answer* (`Adapter_stale`). A turn cut short leaves messages
   in the channel, and the next turn takes them for its own. `OwnAnswers` shows that
   this is the only way: as long as no turn is cut short, none hears another.
6. *No grace period* (`Transport_grace`). `close` cancels the context first, and
   `terminateProcess` has that context in its select: it sends SIGKILL at once to a process
   that lives. That the end of `Connect`'s own context kills the process is not counted.

Properties that hold under a premise show how far the code goes:

- `EveryStopReturns` is about a `Stop` that no `Start` overtakes. The lives share `wg` and
  `relayWg`, and `Start` is legal while a `Stop` waits; that call then waits for the new
  life's run loops, forwarder and relay, and may not return before the new life is stopped.
- `ClosedOnceIfConnected` needs `Overlap = FALSE`. `Stop` gives the lock back before
  it waits, so a `Start` may come in between; with `Overlap = TRUE` a relay that
  first runs after it closes the channel of the new life, and so does the new relay.
- `StopTerminatesIfConnected` excludes the listener that calls the adapter: its
  caller holds the lock it asks for, and both wait forever.
- `EstimateFitsHistory` allows an estimate below the history after a compaction
  whose query failed: 70% of the window is set whatever the history holds. If a
  `ClearHistory` fell into that compaction, the 70% stand over an empty history.
- `ConversationIsKept` excludes four ways to lose the conversation. (1) The CLI gives
  no summary: its result is an error, or no text came, and `compactSession`, which looks at
  neither (853-861), replaces the whole history by the text of the error or by
  `[summary unavailable]`. (2) A summary cut short by the end of stdout (a crash, or
  `Cancel` and its SIGINT) replaces it by the part that came. (3) What an earlier turn, cut
  short, left in the channel is taken for the summary. (4) `ClearHistory`, which means to.
  `spoilt` records the first two. A summary that is text counts as one: whether the CLI
  said in it what mattered is beyond the model.
- `ClearedStaysCleared` excludes what `compactSession` had already copied: a
  `ClearHistory` between copy and replacement is undone by the summary.
- `SessionIsLatest` compares a reconnect that swaps its process in with the latest
  session, or with the configuration's when there is none; so a compaction whose
  context was never acknowledged lets a later process resume the session that the
  configuration names. It is about one life in which no turn with images has
  spawned a reconnect, for the same reason as `ReplacesDeadOnly`: such a reconnect runs beside
  another, and turns go on with the client of the other and name newer sessions
  while it connects. `Start` resets neither history nor session id.
- `TurnsEnd` excludes a turn whose `QueryStream` goroutine gave up because the
  context was done: with images, or in a compaction, where the turn itself is text.
- `ReplacesDeadOnly` is about one life in which no turn with images has spawned a
  reconnect. With a `Stop` and a `Start`
  between the death and the reconnect, or with an image turn on the dead client,
  a reconnect notes the new client and disconnects it.
- `DisconnectReturns` needs a process that reads or dies: a write into a full pipe holds
  the lock `close` asks for, and nothing kills the process before `close` has it.
- `DisconnectIsFinal` is about a client that connected. When `connect` fails after
  `prepareMcpConfig`, the configuration file stays.
- `EveryMessageOnce` is about output without noise: a line that is no JSON makes
  the parser swallow what follows until its limit.

## 4. The theorems

All hold for every value of the constants, from the modules' named
assumptions alone: the bounds are naturals, the queue and every channel have
room for one, the parser's buffer for two (`RunLoopAssumption`,
`RelayAssumption`, `LifecycleAssumption`, `AdapterAssumption`,
`CompactionAssumption`, `TransportAssumption`, `ParserAssumption`). The theorems
about behaviours rest on inductive invariants, conjunctions of named parts; TLC checked
each on small instances. Hardly a checked property
is inductive alone; the parts that were missing say how the code keeps its
promises.

`RunLoopProofs`:

- `TypeCorrect`, `TurnsNeverOverlap`, `MessagesAreKept`, `OrderIsKept`,
  `CancellationIsExact`, `StopIsQuiet`: the invariants the run `RunLoop` checks;
- `ImplementsServer`: `Spec => ServerSpec`, each step of `RunLoop` is a step of
  `TurnServer` or changes nothing there.

They follow from the inductive invariant `IInv`. The checked invariants are not
inductive alone. That turns never overlap needs that `running` is true exactly
while a goroutine owns it (`RunningIsOwned`), or `SendStarts` could spawn a
second. That only cancelled messages are dropped needs that `runCancel` is the
context of that owner's turn (`CancelHitsOwner`), that no context of a
queued message was ever cancelled (`QueueIsFresh`), and that a turn about to
begin is doomed exactly when its context is done (`DoomedTurnIsCancelled`).
`FateFollowsTurn`, `UnsentUntouched` and `StopEndsLife` tie the history variables
to the program counters. `StepInv` has one step per action; the refinement's
`StepRefines` has the same shape, with `WhereMessagesAre` for the disjointness the
abstract guards ask for.

`EventRelayProofs`: `RelayTypeCorrect`, `NoLossOnTheWay`, `ShutdownIsComplete`,
`ImplementsStream`, from the invariant `RInv`: the received events, the events
channel, `buf` and `internalEvents` each hold a run of consecutive numbers, and
each run starts where the one downstream of it ends. `RunAppend`, `RunTail` and
`RunConcat` are the lemmas about such runs.

`LifecycleProofs`:

- `LifecycleTypeCorrect`, with overlapping calls too;
- `StreamClosedByStop`, `NoDoubleClose`: `StopClosesStream` and
  `ClosedOnceIfConnected`. Both have the premise `~Overlap`, that nobody calls `Start`
  while a `Stop` still waits; section 3 says what happens otherwise, and TLC
  found nothing else to be needed.

A relay reads `c.events` when it first runs, and that may be after a later `Start`.
So the invariant `LInv` cannot say which channel a relay closes: only that it is that of
its own generation or of a later one (`ClosesNoEarlier`), and that it has been
closed when the relay is gone (`GoneHasClosed`). While no `Start` failed, relays
take turns: the relay of every earlier generation is gone before the next is
spawned (`RelaysTakeTurns`), so each closes its own.

`AdapterProofs`:

- `ImplementsRunLoop`: `AdapterSpec => Spec`. Each step of `Adapter` is a step of
  `RunLoop` or leaves its variables alone, so all that `RunLoopProofs` shows holds of
  turns with clients, crashes and reconnects;
- `AdapterTypeCorrect`, `NoProcessOrphaned`, `StopLeavesNoProcess`: who owns an open
  transport. The invariant `ClientsInv` adds that a process that lives is in
  an open transport of a connected client (`LivesInOpen`), and that a reconnect
  that waits for its swap holds a client which is nobody else's
  (`HeldByReconnect`), through any number of `Stop`s and `Start`s;
- `ReconnectsReplaceDead`: `ReplacesDeadOnly`. `ReconnectInv` needs that there
  is one reconnect at a time and only while `c.client` is dead, and that a turn whose
  prompt was written uses `c.client` and no reconnect is under way
  (`OneReconnect`). The first life without images is what makes the last part true;
- `TurnsHearTheirOwn`: `OwnAnswers`. `AnswersInv` says of each client what it holds:
  between turns nothing, in a turn at most the answer to that turn's prompt,
  whole or without the part that was taken, and a `QueryStream` that has still to
  write belongs to the turn, or its process is dead.

`CompactionProofs`:

- `CompactionSchedules`: `CompSpec => Spec`, and `CompactionDisturbsNoReconnect`:
  `ReplacesDeadOnly` and `NoOrphan` hold here too. They are proved anew for its steps:
  `CompSpec` does not imply `AdapterSpec`, since a compaction asks two prompts more on the
  same channel;
- `CompactionTypeCorrect`, `ClearedIsGone`: a message that was cleared is in neither
  the history nor the copy a compaction has taken (`ClearedInv`);
- `ConversationNeverLost`: `ConversationIsKept`, with the exceptions of section 3. It rests
  on `ExchangeInv`, which is `AnswersInv` for three kinds of prompts: whoever waits, waits
  for one prompt (`Users`), its client holds at most the answer to that, and the
  reader has collected no other text (`Got`), so that a reset finds the text of the
  summary and nothing else (`TextIsWhole`). Nothing but a clear changes the history
  between copy and replacement (`CopyIsHistory`). And until its answer comes a turn finds
  its message in the last entry, a summary included (`TurnIsLast`).

`BookkeepingProofs`:

- `EstimateIsThatOfHistory`: `EstimateFitsHistory`. That a back-off does not set the
  estimate above the history needs that a compaction which may still be given up
  began above the limit, and that nothing but a racing `ClearHistory` changed the
  estimate since (`EstimateInv`). `TokensOf` is a fold that takes the entries in an
  order nobody knows; `SumsExist` shows that the function it recurses by exists,
  `SumsInAnyOrder` that the order does not matter, `TokensAppended` that an entry at the
  end adds its tokens. They are inductions, written without the induction theorems:
  among the counterexamples there would be a smallest (`SmallestSet`,
  `LeastNatural`);
- `SessionNeverStale`: the action property `SessionIsLatest`, below.

The id a reconnect read may be over when it swaps, unless no turn can name a newer one
meanwhile. That is `Calm`: while a reconnect is under way the session stays
the one it read, because the clients of the adapter, the turn and the compaction
are dead and drained. `UsedIsConnected` keeps that state: a turn whose client is
drained sees the end of its channel and cannot wait for ever. `LaunchResumes`
(below) carries the id from the configuration to the process.

`TransportProofs`:

- `TransportTypeCorrect`, `WritesAreSafe`, `DisconnectCleansUp`: the two locks. `TInv`
  says who can hold them together (`OneUnderLock`), that stdin is open exactly
  while the transport is (`OpenUntilClose`), and that a client that was connected
  has its process and files until some Disconnect is through with them
  (`ProcessUntilReaped`); so the second of two Disconnects, which returns at
  once, returns to a process that is gone;
- `MessagesKeepOrder`: `EveryMessageOnce`, with what the parser holds between two
  lines (`HalfMessage`) and the shape of the output (`HeadsHaveTails`, `LastIsThere`:
  nobody prints a message into the middle of another). `ListsAppend`, `HandedOver`,
  `Received` and `ParserType` are the lemmas.

`CommandLineProofs`, for every configuration and every options value, directly
from the definitions:

- `ExtraArgsOverrideNothing`: what `cli.go:68-70` says of `allowedExtraArgs`; no flag
  of the protocol or of an option comes from `ExtraArgs`;
- `NoFlagTwice`: no flag is passed with two values;
- `LaunchResumes`: the session a configuration names, and so the one
  `reconnectClient` chose, is the session the process is told to resume. The run
  `Compaction` relies on it in `SessionIsLatest`;
- `UnusedFieldsChangeNothing`: `Args`, `Env` and `MaxThinkingTokens` have no effect on
  the process. `docs/configuration.md:13-17` describes effects of all three:
  `newConnectedClient` has no option for the first two, and `buildCommand` does not
  look at the third. (Nor is `--setting-sources ""` passed, as
  `docs/architecture.md` shows it, except for options that are `nil`.)

`LaunchedOptions`, `ProtocolFlagsNamed` and `OptionFlagsNamed` are the lemmas: what the
options of a launch are, and which names each group of flags can bear.

Only model-checked: the liveness properties, since the prover has no rule for
fairness. Every invariant a run checks is a theorem.

## 5. Not modelled

- `RespondPermission`: it puts a decision into a channel of 16 that nothing reads,
  and no other state depends on it; the 17th call waits for its context.
- The texts: a transcript cuts each entry to 1000 bytes, and what a summary
  says is the CLI's. Of a message that is no result the model keeps whether it had text.
- `StatusError` and the `SendOption`s: nothing sets the one or reads the others.
- The look-ups of the executable and of the working directory (`cli.go`).
- The forwarding of transport errors is one of `EventRelay`'s producers.
- Types, errors, the interfaces in `adapter/`: no behaviour over time. Tests and documentation: read, not modelled.
- Go panics when a `WaitGroup` is reused before a `Wait` that was released has
  returned. `Start` during a `Stop` can do that; the models have waits that return or not.
- Unsynchronised reads of `c.done`, `c.events` and `c.internalEvents` by the
  relay are modelled as reads of the value the field has at that step.

## 6. Plan

In order; all are done.

1. `RunLoop`, `TurnServer` and their proofs.
2. `EventRelay`, `EventStream` and their proofs.
3. `Lifecycle`, with status listeners under the lock.
4. `Adapter`, composing `RunLoop` with clients and reconnects.
5. `Transport` and `Parser`.
6. `CommandLine` and its proofs.
7. `Compaction`, composing `Adapter` and `CommandLine`.
8. Theorems about `Lifecycle`, `Transport`, `Adapter` and `Compaction`: every invariant,
   and the session id.
