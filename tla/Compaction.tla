------------------------------ MODULE Compaction ----------------------------
(***************************************************************************)
(* The conversation an adapter remembers: history, estimatedTokens and     *)
(* sessionID, what runClaude does with them, ClearHistory, and             *)
(* compactSession, which has the CLI summarise the history and replaces it *)
(* by the summary (claude.go).  The turns, clients and reconnects are      *)
(* Adapter's: every action of Adapter appears here with what it does to    *)
(* the conversation, and a turn whose estimate exceeds the limit compacts  *)
(* before it queries.                                                      *)
(*                                                                         *)
(* A turn that compacts sends three prompts instead of one: SummaryOf and  *)
(* ContextOf it, then its own.  A session id is the name of the prompt     *)
(* whose result carried it.  An entry of the history says what it is and   *)
(* which messages it stands for; its text is left out, and its tokens      *)
(* depend on what it is.  GetHistory and SessionID only read.              *)
(***************************************************************************)
EXTENDS Adapter

CONSTANTS Window,          \* c.contextWindow
          Tokens,          \* the estimate for each kind of entry
          Config,          \* the AdapterConfig of every Start
          MaxClears        \* bound: ClearHistory calls considered

Kinds == {"message", "answer", "summary", "unavailable"}

CLI == INSTANCE CommandLine

ASSUME CompactionAssumption ==
    /\ Prompts = 1 .. 3 * MaxSends
    /\ Window \in Nat \ {0}
    /\ Tokens \in [Kinds -> Nat]
    /\ Config \in [CLI!Fields -> Nat]
    /\ MaxClears \in Nat

\* int(float64(c.contextWindow)*0.80) and the same with 0.70.
Limit   == (Window * 8) \div 10
BackOff == (Window * 7) \div 10

SummaryOf(t) == MaxSends + t
ContextOf(t) == 2 * MaxSends + t

VARIABLES
    history, estimate,     \* c.history, c.estimatedTokens
    session,               \* c.sessionID, or None
    turnSession,           \* the copy the turn sends its prompt with
    phase,                 \* how far compactSession is, or "none"
    compacts,              \* the client compactSession took from c.client
    copied,                \* the messages in its copy of the history
    text,                  \* of which prompts the reader of the turn collected
                           \* text, and None if that is not an answer: stdout
                           \* ended before a result, or the result is an error
    telling,               \* QueryStream goroutines with a context prompt
    resumed,               \* the session each client was launched with
    rcSession,             \* the session each reconnectClient read
    clears,                \* how often ClearHistory was called
    raced,                 \* history: one fell into a compaction
    cleared,               \* history: messages cleared, and not copied before
    backedOff,             \* history: the estimate is the one of a back-off
    spoilt,                \* history: a summary had no text, or was no answer
    gaveUp                 \* history: turns of which a prompt was never written

historyVars == <<history, estimate, backedOff>>
userVars    == <<clears, raced, cleared>>
phaseVars   == <<phase, compacts, copied, spoilt>>
sessionVars == <<session, turnSession>>
launchVars  == <<resumed, rcSession>>
streamVars  == <<telling, gaveUp>>
compVars    == <<historyVars, userVars, phaseVars, sessionVars, launchVars,
                 streamVars, text>>
allVars     == <<adapterVars, compVars>>

\* What an entry adds to the estimate; the answer may be an empty text.
Size(e) == IF e.kind = "answer" /\ e.of = {} THEN 0 ELSE Tokens[e.kind]
TokensOf(h) == FoldFunction(LAMBDA e, n : Size(e) + n, 0, h)

\* The messages of the users a history stands for.
MessagesOf(h) == UNION {e.of : e \in {f \in Range(h) : f.kind # "answer"}}

\* The session a process is launched with: reconnectClient prefers the one it
\* read to the one of the configuration.
Launched(s) ==
    LET cfg == IF s = None THEN Config
               ELSE [Config EXCEPT !["SessionID"] = s, !["ContinueSession"] = 1]
    IN  CLI!ResumedSession(CLI!Launch(cfg))

CompInit ==
    /\ AdapterInit
    /\ history = <<>> /\ estimate = 0 /\ backedOff = FALSE
    /\ clears = 0 /\ raced = FALSE /\ cleared = {}
    /\ phase = "none" /\ compacts = None /\ copied = {} /\ spoilt = FALSE
    /\ session = None /\ turnSession = None
    /\ resumed = <<>> /\ rcSession = [t \in Msgs |-> None]
    /\ telling = {} /\ gaveUp = {}
    /\ text = {}

-----------------------------------------------------------------------------
(* The calls of the user.                                                  *)

\* Start connects a client with the configuration, and resets nothing of the
\* conversation.
CStart ==
    /\ AStart
    /\ resumed' = Append(resumed, Launched(None))
    /\ UNCHANGED <<historyVars, userVars, phaseVars, sessionVars, rcSession,
                   streamVars, text>>

CCalls ==
    /\ \/ ASend \/ ACancel \/ AStop
       \/ \E k \in Lives : AStopReturns(k)
       \/ \E l \in Msgs : ACallerCancels(l)
    /\ UNCHANGED compVars

\* The phases between the copy of the history and its replacement.
CopyIsOut == phase \in {"query", "asked", "summary", "reset"}

\* Mutant: the entries are kept.
ClearHistory_KeepsEntries ==
    /\ clears < MaxClears /\ clears' = clears + 1
    /\ estimate' = 0 /\ backedOff' = FALSE
    /\ raced' = (raced \/ phase # "none")
    /\ cleared' = IF CopyIsOut THEN cleared ELSE cleared \cup MessagesOf(history)
    /\ UNCHANGED <<adapterVars, history, phaseVars, sessionVars, launchVars,
                   streamVars, text>>

\* Mutant: the estimate is kept.
ClearHistory_KeepsEstimate ==
    /\ clears < MaxClears /\ clears' = clears + 1
    /\ history' = <<>> /\ backedOff' = FALSE
    /\ raced' = (raced \/ phase # "none")
    /\ cleared' = IF CopyIsOut THEN cleared ELSE cleared \cup MessagesOf(history)
    /\ UNCHANGED <<adapterVars, estimate, phaseVars, sessionVars, launchVars,
                   streamVars, text>>

\* ClearHistory forgets the entries and the estimate, but no session.
ClearHistory ==
    /\ clears < MaxClears
    /\ clears' = clears + 1
    /\ history' = <<>> /\ estimate' = 0 /\ backedOff' = FALSE
    /\ raced' = (raced \/ phase # "none")
    /\ cleared' = IF CopyIsOut THEN cleared ELSE cleared \cup MessagesOf(history)
    /\ UNCHANGED <<adapterVars, phaseVars, sessionVars, launchVars, streamVars,
                   text>>

-----------------------------------------------------------------------------
(* The turn.                                                               *)

\* The turn tracks its message, and with the client copies the session id.
CTakesClient(l) ==
    LET entry == [kind |-> "message", of |-> Range(turn[l])] IN
    /\ TakesClient(l)
    /\ history' = Append(history, entry)
    /\ estimate' = estimate + Size(entry)
    /\ phase' = IF estimate' > Limit THEN "begun" ELSE "none"
    /\ turnSession' = session
    /\ text' = {}
    /\ UNCHANGED <<backedOff, userVars, compacts, copied, spoilt, session,
                   launchVars, streamVars>>

\* Mutant: the turn does not wait for the compaction.
CQueries_AtOnce(l) ==
    /\ QueryText(l) \/ QueryTextFails(l) \/ QueryStream(l) \/ QueryStreamFails(l)
    /\ UNCHANGED compVars

\* The query, once a compaction is over.
CQueries(l) ==
    /\ phase = "none"
    /\ \/ QueryText(l) \/ QueryTextFails(l)
       \/ QueryStream(l) \/ QueryStreamFails(l)
    /\ UNCHANGED compVars

\* Steps of a loop and of a turn that leave the conversation alone.
CLoop(l) ==
    /\ \/ ABeginTurn(l) \/ ASkipTurn(l) \/ ALoop(l)
       \/ Listens(l) \/ ReceiveCancelled(l) \/ ReceiveClosed(l)
    /\ UNCHANGED compVars

\* A part has text, or only the use of a tool or the like.
CReceivePart(l) ==
    /\ ReceivePart(l)
    /\ text' \in {text, text \cup {Head(Incoming).ctx}}
    /\ UNCHANGED <<historyVars, userVars, phaseVars, sessionVars, launchVars,
                   streamVars>>

\* A result may name a session, and may report an error, which is not tracked.
CReceiveResult(l) ==
    LET entry == [kind |-> "answer", of |-> text] IN
    /\ ReceiveResult(l)
    /\ \E named, failed \in BOOLEAN :
        /\ session' = IF named THEN Head(Incoming).ctx ELSE session
        /\ history' = IF failed THEN history ELSE Append(history, entry)
        /\ estimate' = IF failed THEN estimate ELSE estimate + Size(entry)
    /\ UNCHANGED <<backedOff, userVars, phaseVars, turnSession, launchVars,
                   streamVars, text>>

-----------------------------------------------------------------------------
(* compactSession, called by the turn of goroutine l.                      *)

In(l, p) == phase = p /\ pc[l] = "turn"

\* First critical section: the history and c.client are copied, once more.
CompactCopies(l) ==
    /\ In(l, "begun")
    /\ phase' = "query"
    /\ copied' = MessagesOf(history)
    /\ compacts' = client
    /\ UNCHANGED <<adapterVars, historyVars, userVars, spoilt, sessionVars,
                   launchVars, streamVars, text>>

\* The transcript is sent as a prompt ...
SummaryQuery(l) ==
    /\ In(l, "query")
    /\ ~Cancelled(l) /\ ~Broken(compacts)
    /\ clients' = [clients EXCEPT ![compacts].asked = Append(@, SummaryOf(Ctx(l)))]
    /\ phase' = "asked"
    /\ UNCHANGED <<vars, client, stage, with, sending, rc, crashes, fails,
                   outcome, heard, killedLive, historyVars, userVars, compacts,
                   copied, spoilt, sessionVars, launchVars, streamVars, text>>

\* ... or that fails,
SummaryQueryFails(l) ==
    /\ In(l, "query")
    /\ Cancelled(l) \/ Broken(compacts)
    /\ phase' = "backOff"
    /\ UNCHANGED <<adapterVars, historyVars, userVars, compacts, copied, spoilt,
                   sessionVars, launchVars, streamVars, text>>

\* and the compaction is given up with a lower estimate.
BacksOff(l) ==
    /\ In(l, "backOff")
    /\ estimate' = BackOff /\ backedOff' = TRUE
    /\ phase' = "done"
    /\ UNCHANGED <<adapterVars, history, userVars, compacts, copied, spoilt,
                   sessionVars, launchVars, streamVars, text>>

\* ReceiveMessages: the channel, or a closed one.
CompactListens(l) ==
    /\ \/ In(l, "asked") /\ phase' = IF clients[compacts].connected
                                     THEN "summary" ELSE "reset"
       \/ In(l, "told") /\ phase' = IF clients[compacts].connected
                                    THEN "ack" ELSE "done"
    /\ spoilt' = (spoilt \/ phase' = "reset")
    /\ text' = IF phase' = "reset" THEN {None} ELSE text
    /\ UNCHANGED <<adapterVars, historyVars, userVars, compacts, copied,
                   sessionVars, launchVars, streamVars>>

\* compactSession takes the next message; it does not look at its context.
CompactTakes(l) ==
    /\ clients[compacts].chan # <<>>
    /\ clients' = [clients EXCEPT ![compacts].chan = Tail(@)]
    /\ UNCHANGED <<vars, client, stage, with, sending, rc, crashes, fails,
                   outcome, heard, killedLive>>
NextMessage == Head(clients[compacts].chan)
Ended == clients[compacts].chan = <<>> /\ clients[compacts].proc = "dead"

\* What a message that is no result adds, if it has any text.
CollectsText == text' \in {text, text \cup {NextMessage.ctx}}

\* Mutant: the first message ends the summary.
SummaryMessage_First(l) ==
    /\ In(l, "summary") /\ CompactTakes(l)
    /\ CollectsText /\ phase' = "reset" /\ spoilt' = (spoilt \/ text' = {})
    /\ UNCHANGED <<historyVars, userVars, compacts, copied, sessionVars,
                   launchVars, streamVars>>

\* Mutant: a result does not end the summary.
SummaryMessage_GoesOn(l) ==
    /\ In(l, "summary") /\ CompactTakes(l)
    /\ \/ NextMessage.result /\ UNCHANGED text
       \/ ~NextMessage.result /\ CollectsText
    /\ UNCHANGED <<historyVars, userVars, phaseVars, sessionVars, launchVars,
                   streamVars>>

\* The summary is collected until a result, of which compactSession looks at
\* nothing: it may report an error, and no text may have come before it ...
SummaryMessage(l) ==
    /\ In(l, "summary")
    /\ CompactTakes(l)
    /\ \/ /\ ~NextMessage.result
          /\ CollectsText
          /\ UNCHANGED <<phase, spoilt>>
       \/ /\ NextMessage.result
          /\ text' \in {text, text \cup {None}}
          /\ spoilt' = (spoilt \/ text' = {} \/ None \in text')
          /\ phase' = "reset"
    /\ UNCHANGED <<historyVars, userVars, compacts, copied, sessionVars,
                   launchVars, streamVars>>

\* ... or the end of stdout.
SummaryEnds(l) ==
    /\ In(l, "summary")
    /\ Ended
    /\ phase' = "reset"
    /\ text' = text \cup {None} /\ spoilt' = TRUE
    /\ UNCHANGED <<adapterVars, historyVars, userVars, compacts, copied,
                   sessionVars, launchVars, streamVars>>

\* What replaces the history: it stands for the messages copied if the text is
\* a complete answer to the transcript, and for nothing otherwise.
Summary(l) ==
    [kind |-> IF text \ {None} = {} THEN "unavailable" ELSE "summary",
     of   |-> IF text = {SummaryOf(Ctx(l))} THEN copied ELSE {}]

\* Second critical section: a new session, the summary for the history.
Resets(l) ==
    /\ In(l, "reset")
    /\ session' = None
    /\ history' = <<Summary(l)>>
    /\ estimate' = Size(Summary(l)) /\ backedOff' = FALSE
    /\ phase' = "context"
    /\ text' = {}
    /\ UNCHANGED <<adapterVars, userVars, compacts, copied, spoilt, turnSession,
                   launchVars, streamVars>>

\* The summary is sent as the context of the new session, by a goroutine.
ContextQuery(l) ==
    /\ In(l, "context")
    /\ IF clients[compacts].connected
       THEN /\ telling' = telling \cup {[ctx |-> Ctx(l), to |-> compacts]}
            /\ phase' = "told"
       ELSE phase' = "done" /\ UNCHANGED telling
    /\ UNCHANGED <<adapterVars, historyVars, userVars, compacts, copied, spoilt,
                   sessionVars, launchVars, gaveUp, text>>

\* That goroutine writes, or gives up without a word.
ContextWrites(s) ==
    /\ s \in telling
    /\ telling' = telling \ {s}
    /\ clients' = IF s.ctx \in cancelled \/ Broken(s.to) THEN clients
                  ELSE [clients EXCEPT ![s.to].asked = Append(@, ContextOf(s.ctx))]
    /\ UNCHANGED <<vars, client, stage, with, sending, rc, crashes, fails,
                   outcome, heard, killedLive>>

\* The acknowledgement: its result names the new session, or none.
AckMessage(l) ==
    /\ In(l, "ack")
    /\ CompactTakes(l)
    /\ \/ ~NextMessage.result /\ UNCHANGED <<phase, session>>
       \/ /\ NextMessage.result
          /\ phase' = "done"
          /\ session' \in {session, NextMessage.ctx}
    /\ UNCHANGED <<historyVars, userVars, compacts, copied, spoilt, turnSession,
                   launchVars, streamVars, text>>

AckEnds(l) ==
    /\ In(l, "ack")
    /\ Ended
    /\ phase' = "done"
    /\ UNCHANGED <<adapterVars, historyVars, userVars, compacts, copied, spoilt,
                   sessionVars, launchVars, streamVars, text>>

\* Mutant: the session id is not read again.
CompactReturns_OldSession(l) ==
    /\ In(l, "done")
    /\ phase' = "none"
    /\ UNCHANGED <<adapterVars, historyVars, userVars, compacts, copied, spoilt,
                   sessionVars, launchVars, streamVars, text>>

\* compactSession returns and runClaude reads the session id again.
CompactReturns(l) ==
    /\ In(l, "done")
    /\ phase' = "none"
    /\ turnSession' = session
    /\ UNCHANGED <<adapterVars, historyVars, userVars, compacts, copied, spoilt,
                   session, launchVars, streamVars, text>>

CompactStep(l) ==
    \/ CompactCopies(l) \/ SummaryQuery(l) \/ SummaryQueryFails(l) \/ BacksOff(l)
    \/ CompactListens(l) \/ SummaryMessage(l) \/ SummaryEnds(l) \/ Resets(l)
    \/ ContextQuery(l) \/ AckMessage(l) \/ AckEnds(l) \/ CompactReturns(l)

-----------------------------------------------------------------------------
(* Goroutines and processes.                                               *)

\* A QueryStream goroutine, of a turn with images or of a compaction.
CStreamWrites(s) ==
    /\ \/ StreamWrites(s) /\ UNCHANGED telling
       \/ ContextWrites(s)
    /\ gaveUp' = gaveUp \cup ({s.ctx} \cap cancelled)
    /\ UNCHANGED <<historyVars, userVars, phaseVars, sessionVars, launchVars,
                   text>>

\* reconnectClient reads the session id where it notes the client,
CReconnectBegins(t) ==
    /\ ReconnectBegins(t)
    /\ rcSession' = [rcSession EXCEPT ![t] = session]
    /\ UNCHANGED <<historyVars, userVars, phaseVars, sessionVars, resumed,
                   streamVars, text>>

\* and launches the new process with it.
CReconnectConnects(t) ==
    /\ ReconnectConnects(t)
    /\ resumed' = Append(resumed, Launched(rcSession[t]))
    /\ UNCHANGED <<historyVars, userVars, phaseVars, sessionVars, rcSession,
                   streamVars, text>>

CReconnectEnds(t) ==
    /\ ReconnectDisconnects(t) \/ ReconnectFails(t) \/ ReconnectSwaps(t)
    /\ UNCHANGED compVars

CProcess(k) ==
    /\ CliAnswers(k) \/ CliInterrupted(k)
    /\ UNCHANGED compVars

CProcessDies(k) == CliDies(k) /\ UNCHANGED compVars

CTurnStep(l) ==
    \/ CTakesClient(l) \/ CQueries(l) \/ CLoop(l)
    \/ CReceivePart(l) \/ CReceiveResult(l) \/ CompactStep(l)

CReconnectStep(t) ==
    CReconnectBegins(t) \/ CReconnectConnects(t) \/ CReconnectEnds(t)

CompNext ==
    \/ CStart \/ CCalls \/ ClearHistory
    \/ \E l \in Msgs : CTurnStep(l) \/ CReconnectStep(l)
    \/ \E s \in sending \cup telling : CStreamWrites(s)
    \/ \E k \in DOMAIN clients : CProcess(k) \/ CProcessDies(k)

CompSpec == CompInit /\ [][CompNext]_allVars

\* The steps of goroutines, and of processes that answer what they are asked, or
\* die when they were interrupted.
Progress ==
    \/ \E l \in Msgs : CTurnStep(l) \/ CReconnectStep(l)
    \/ \E k \in Lives : AStopReturns(k) /\ UNCHANGED compVars
    \/ \E s \in sending \cup telling : CStreamWrites(s)
    \/ \E k \in DOMAIN clients : CProcess(k)

\* Less than AdapterFairSpec assumes: as long as some goroutine or process can
\* go on, one of them does.  Each of them has finitely many steps to make.
CompFairSpec == CompSpec /\ WF_allVars(Progress)

-----------------------------------------------------------------------------
(* Properties.                                                             *)

\* Every variable has its type; a compaction runs between the turn's look at
\* c.client and its query, never beside the turn.
CompTypeOK ==
    /\ history \in Seq([kind : Kinds, of : SUBSET Prompts])
    /\ estimate \in Nat
    /\ phase \in {"none", "begun", "query", "asked", "summary", "backOff",
                  "reset", "context", "told", "ack", "done"}
    /\ phase # "none" => stage = "query"
    /\ phase \notin {"none", "begun"} => compacts \in DOMAIN clients
    /\ copied \subseteq Msgs /\ cleared \subseteq Msgs /\ gaveUp \subseteq Msgs
    /\ text \subseteq Prompts \cup {None}
    /\ session \in Prompts \cup {None} /\ turnSession \in Prompts \cup {None}
    /\ telling \subseteq [ctx : Msgs, to : DOMAIN clients]
    /\ Len(resumed) = Len(clients)
    /\ rcSession \in [Msgs -> Prompts \cup {None}]

\* The estimate is that of the history, over turns, compactions and
\* ClearHistory, and less only after a compaction that failed
\* (claude.go:826-828).  Excepted: a ClearHistory during the compaction that
\* failed leaves the estimate of a back-off over an empty history.
EstimateFitsHistory ==
    IF backedOff THEN raced \/ estimate <= TokensOf(history)
                 ELSE estimate = TokensOf(history)

\* Every message that came to a query is still in the history, or in the
\* summary that replaced it, and every tracked answer is to a message of the
\* entry before it ("conversation history with automatic context compaction",
\* claude.go:6).  Excepted: the history was cleared, a turn was cut short, or the
\* CLI gave no summary, since compactSession replaces the history all the same,
\* by "[summary unavailable]" or by the text of an error (claude.go:853-866).
ConversationIsKept ==
    (clears = 0 /\ ~spoilt /\ \A t \in Msgs : outcome[t] # "cancelled") =>
        /\ \A l \in Msgs : pc[l] = "turn" /\ stage # "begun"
                               => Range(turn[l]) \subseteq MessagesOf(history)
        /\ \A t \in Msgs : outcome[t] # "none" => t \in MessagesOf(history)
        /\ \A i \in DOMAIN history : history[i].kind = "answer" =>
               i > 1 /\ \E t \in history[i - 1].of : history[i].of \subseteq {t}

\* What ClearHistory cleared stays cleared: no summary brings it back, unless
\* compactSession had copied it already.
ClearedStaysCleared == cleared \cap MessagesOf(history) = {}

\* No session id is used when a newer one, or none, has taken its place: a
\* prompt goes to c.sessionID though a compaction has changed it, and a
\* reconnect that swaps its process in launched it for "the latest session ID"
\* (claude.go:262), though turns went on while it connected.  Excepted, as in
\* ReplacesDeadOnly: a reconnect of an earlier life, and turns with images, which
\* spawn one beside another that is under way; the session it read may be over
\* when it swaps, as turns went on with the client of the other.
QuietSwap ==
    /\ client' # client /\ life' = life /\ life = 1
    /\ \A t \in Images : rc[t].at = "none"
SessionIsLatest ==
    [][/\ stage = "query" /\ stage' # "query" => turnSession = session
       /\ QuietSwap => resumed[client'] = IF session # None THEN session
                                          ELSE Config.SessionID]_allVars

\* Every turn ends, compaction and all, if the process answers what it is
\* asked.  Excepted: a turn waits for the answer to a prompt whose QueryStream
\* goroutine gave up because the context was done.
TurnsEnd ==
    stage # "idle" ~>
        \/ stage = "idle"
        \/ \E l \in Msgs : pc[l] = "turn" /\ Ctx(l) \in gaveUp
=============================================================================
