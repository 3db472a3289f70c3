-------------------------- MODULE CompactionProofs --------------------------
(***************************************************************************)
(* Theorems about Compaction: a turn that compacts changes nothing about   *)
(* the scheduling of turns and the life of the clients, what ClearHistory  *)
(* forgets stays forgotten, and no message leaves the history but into the *)
(* summary that replaces it, for any number of calls, clients, crashes and *)
(* failures, any window and any estimate of tokens.                        *)
(***************************************************************************)
EXTENDS Compaction, AdapterProofs

-----------------------------------------------------------------------------
(* The inductive invariant: types.                                         *)

Entry == [kind : Kinds, of : SUBSET Prompts]
Sessions == Prompts \cup {None}
Phases == {"none", "begun", "query", "asked", "summary", "backOff", "reset",
           "context", "told", "ack", "done"}

\* runClaude is somewhere exactly while a goroutine is in its turn.
StageOfTurn == stage # "idle" <=> \E l \in Msgs : pc[l] = "turn"

\* Entries other than answers stand for messages of users; a summary that is no
\* answer has no other reader than the reset; each client has its session.
CompTypes ==
    /\ CompTypeOK
    /\ StageOfTurn
    /\ MessagesOf(history) \subseteq Msgs
    /\ None \in text => phase = "reset"
    /\ resumed \in Seq({Launched(s) : s \in Sessions})
    /\ clears \in Nat

-----------------------------------------------------------------------------
(* The inductive invariant: what was cleared.                              *)

\* The messages that the history, or the copy that may replace it, stands for.
Recorded == MessagesOf(history) \cup (IF CopyIsOut THEN copied ELSE {})

\* They are past the beginning of their turn, and no other than those cleared;
\* those of a turn that has not looked at the history yet are neither.
ClearedInv ==
    /\ cleared \cap Recorded = {}
    /\ \A m \in cleared \cup Recorded : fate[m] # "none"
    /\ \A l \in Msgs : pc[l] = "turn" /\ stage = "begun" =>
           Range(turn[l]) \cap (cleared \cup Recorded) = {}

-----------------------------------------------------------------------------
(* The inductive invariant: prompts and answers.                           *)

\* The prompt a turn waits for an answer to, and the client it waits for; the
\* prompts that QueryStream goroutines still have to write.
Waits(l, u) ==
    /\ pc[l] = "turn"
    /\ \/ stage \in {"asked", "receive"} /\ u = [ctx |-> Ctx(l), to |-> with]
       \/ phase \in {"asked", "summary"} /\ u = [ctx |-> SummaryOf(Ctx(l)), to |-> compacts]
       \/ phase \in {"told", "ack"} /\ u = [ctx |-> ContextOf(Ctx(l)), to |-> compacts]
Users == {u \in [ctx : Prompts, to : DOMAIN clients] : \E l \in Msgs : Waits(l, u)}
Writers == sending \cup {[ctx |-> ContextOf(s.ctx), to |-> s.to] : s \in telling}

\* The reader has collected no other text; that of an acknowledgement collects
\* nothing.
Got(x) == phase \notin {"told", "ack"} => text \subseteq x

\* A client that nobody waits for holds nothing, another at most the answer to
\* the prompt, and the reader has the part that is missing.
UnusedIsEmpty ==
    \A k \in DOMAIN clients :
        Lost(k) \/ Empty(clients[k]) \/ \E u \in Users : u.to = k
UserIsAnswered ==
    \A u \in Users :
        \/ Empty(clients[u.to]) /\ Got({})
        \/ clients[u.to].proc = "dead" /\ clients[u.to].chan = <<>>
        \/ Whole(clients[u.to], u.ctx) /\ Got({}) /\ u \notin Writers
        \/ Rest(clients[u.to], u.ctx) /\ Got({u.ctx}) /\ u \notin Writers
WriterIsUser == \A w \in Writers : clients[w.to].proc = "dead" \/ w \in Users

\* A query finds nothing collected, a reset the text of the summary.
TextIsWhole ==
    /\ stage = "query" /\ phase \notin {"asked", "summary", "reset"} => text = {}
    /\ phase = "reset" =>
           \A l \in Msgs : pc[l] = "turn" => text = {SummaryOf(Ctx(l))}

Flow == UnusedIsEmpty /\ UserIsAnswered /\ WriterIsUser

\* All this unless a turn was cut short or the CLI gave no summary.
ExchangeInv == ~spoilt /\ Uncut => Flow /\ TextIsWhole

-----------------------------------------------------------------------------
(* The inductive invariant: the conversation.                              *)

\* Nothing changes the history while its summary is made, but ClearHistory.
CopyIsHistory == clears = 0 /\ CopyIsOut => copied = MessagesOf(history)

\* The parts of ConversationIsKept; and a turn that is past its beginning finds
\* the message it is of in the last entry, which its answer will stand behind.
QueriesAreRecorded ==
    \A l \in Msgs : pc[l] = "turn" /\ stage # "begun"
                        => Range(turn[l]) \subseteq MessagesOf(history)
EndsAreRecorded == \A t \in Msgs : outcome[t] # "none" => t \in MessagesOf(history)
AnswersAreOwn ==
    \A i \in DOMAIN history : history[i].kind = "answer" =>
        i > 1 /\ \E t \in history[i - 1].of : history[i].of \subseteq {t}
TurnIsLast ==
    \A l \in Msgs : pc[l] = "turn" /\ stage # "begun"
                        => history # <<>> /\ Ctx(l) \in history[Len(history)].of

ConversationInv ==
    clears = 0 /\ ~spoilt /\ Uncut =>
        QueriesAreRecorded /\ EndsAreRecorded /\ AnswersAreOwn /\ TurnIsLast

CInv ==
    /\ CompTypes
    /\ ClearedInv
    /\ ExchangeInv
    /\ CopyIsHistory
    /\ ConversationInv

-----------------------------------------------------------------------------
(* Histories and prompts.                                                  *)

\* What an entry adds to the messages a history stands for.
Adds(e) == IF e.kind = "answer" THEN {} ELSE e.of

LEMMA MessagesOfNone == MessagesOf(<<>>) = {}
  BY RangeEmpty DEF MessagesOf

LEMMA MessagesOfOne == ASSUME NEW e PROVE MessagesOf(<<e>>) = Adds(e)
  <1>1. Range(<<e>>) = {e}
    BY RangeSingle
  <1>2. \A m : m \in MessagesOf(<<e>>) <=> m \in Adds(e)
    BY <1>1 DEF MessagesOf, Adds
  <1> QED BY <1>2

LEMMA MessagesAppended ==
    ASSUME NEW S, NEW h \in Seq(S), NEW e \in S
    PROVE  MessagesOf(Append(h, e)) = MessagesOf(h) \cup Adds(e)
  <1>1. Range(Append(h, e)) = Range(h) \cup {e}
    BY RangeAppend
  <1>2. \A m : m \in MessagesOf(Append(h, e)) <=> m \in MessagesOf(h) \/ m \in Adds(e)
    BY <1>1 DEF MessagesOf, Adds
  <1> QED BY <1>2

LEMMA SizeIsNat == ASSUME NEW e \in Entry PROVE Size(e) \in Nat
  BY CompactionAssumption DEF Size, Entry

LEMMA BackOffIsNat == BackOff \in Nat
  BY CompactionAssumption DEF BackOff

\* The prompts of a turn are three, and none is the nil of a session.
LEMMA PromptsDiffer ==
    /\ None \notin Prompts /\ Msgs \subseteq Prompts
    /\ \A t \in Msgs : /\ SummaryOf(t) \in Prompts \ Msgs
                       /\ ContextOf(t) \in Prompts \ Msgs
                       /\ \A u \in Msgs : /\ SummaryOf(t) # ContextOf(u)
                                          /\ ContextOf(t) = ContextOf(u) => t = u
  BY CompactionAssumption, RunLoopAssumption DEF Msgs, None, SummaryOf, ContextOf

-----------------------------------------------------------------------------
(* Every step is one of Adapter's, or touches one client.                  *)

\* The steps of compactSession and ClearHistory that leave the adapter alone.
Inward(l) ==
    \/ CompactCopies(l) \/ SummaryQueryFails(l) \/ BacksOff(l)
    \/ CompactListens(l) \/ SummaryEnds(l) \/ Resets(l)
    \/ ContextQuery(l) \/ AckEnds(l) \/ CompactReturns(l)

LEMMA StepsApart ==
    ASSUME CompNext
    PROVE  \/ CStart \/ CCalls \/ ClearHistory
           \/ \E l \in Msgs : \/ CTakesClient(l) \/ CQueries(l) \/ CLoop(l)
                              \/ CReceivePart(l) \/ CReceiveResult(l)
                              \/ SummaryQuery(l) \/ SummaryMessage(l) \/ AckMessage(l)
                              \/ Inward(l)
                              \/ CReconnectBegins(l) \/ CReconnectConnects(l)
                              \/ CReconnectEnds(l)
           \/ \E s \in sending : StreamWrites(s) /\ UNCHANGED telling /\ CStreamWrites(s)
           \/ \E s \in telling : ContextWrites(s) /\ CStreamWrites(s)
           \/ \E k \in DOMAIN clients : CProcess(k) \/ CProcessDies(k)
  BY DEF CompNext, CTurnStep, CompactStep, CReconnectStep, CStreamWrites, ContextWrites,
         StreamWrites, Inward

LEMMA InwardLeaves ==
    ASSUME NEW l \in Msgs, Inward(l)
    PROVE  UNCHANGED adapterVars /\ pc[l] = "turn" /\ phase # "none"
  BY DEF Inward, CompactCopies, SummaryQueryFails, BacksOff, CompactListens, SummaryEnds,
         Resets, ContextQuery, AckEnds, CompactReturns, In

\* A compaction has a client to talk to.
LEMMA CompactsIsThere ==
    ASSUME ClientsInv, CompTypes
    PROVE  /\ phase \notin {"none", "begun"} =>
                  compacts \in DOMAIN clients /\ clients[compacts] \in Client
           /\ \A s \in telling : /\ s.to \in DOMAIN clients /\ clients[s.to] \in Client
                                 /\ s.ctx \in Msgs
  <1>1. \A k \in DOMAIN clients : clients[k] \in Client
    BY ClientIsThere DEF ClientsInv
  <1> QED BY <1>1 DEF CompTypes, CompTypeOK

LEMMA HeadAndTail ==
    ASSUME NEW S, NEW s \in Seq(S), s # <<>>
    PROVE  Head(s) \in S /\ Tail(s) \in Seq(S)
  OBVIOUS

\* A message of the channel that compactSession takes.
LEMMA MessageFacts ==
    ASSUME ClientsInv, CompTypes, NEW l \in Msgs, CompactTakes(l),
           phase \notin {"none", "begun"}
    PROVE  /\ NextMessage.ctx \in Prompts /\ NextMessage.result \in BOOLEAN
           /\ [clients[compacts] EXCEPT !.chan = Tail(@)] \in Client
           /\ clients' = [clients EXCEPT
                  ![compacts] = [clients[compacts] EXCEPT !.chan = Tail(@)]]
  <1>1. compacts \in DOMAIN clients /\ clients[compacts] \in Client
    BY CompactsIsThere
  <1> DEFINE q == clients[compacts].chan
  <1>2. q \in Seq([ctx : Prompts, result : BOOLEAN]) /\ q # <<>>
    BY <1>1 DEF Client, CompactTakes
  <1>3. /\ Head(q) \in [ctx : Prompts, result : BOOLEAN]
        /\ Tail(q) \in Seq([ctx : Prompts, result : BOOLEAN])
    BY <1>2, HeadAndTail
  <1>4. NextMessage.ctx \in Prompts /\ NextMessage.result \in BOOLEAN
    BY <1>3 DEF NextMessage
  <1>5. [clients[compacts] EXCEPT !.chan = Tail(@)] \in Client
    BY <1>1, <1>3 DEF Client
  <1> QED BY <1>1, <1>4, <1>5 DEF CompactTakes

LEMMA TakesTouches ==
    ASSUME ClientsInv, CompTypes, NEW l \in Msgs, CompactTakes(l),
           phase \notin {"none", "begun"}
    PROVE  Touches
  <1>1. compacts \in DOMAIN clients /\ clients[compacts] \in Client
    BY CompactsIsThere
  <1> DEFINE c == [clients[compacts] EXCEPT !.chan = Tail(@)]
  <1>2. /\ c.connected = clients[compacts].connected /\ c.open = clients[compacts].open
        /\ c.proc = clients[compacts].proc
    BY <1>1 DEF Client
  <1>3. c \in Client /\ clients' = [clients EXCEPT ![compacts] = c]
    BY MessageFacts
  <1> QED BY <1>1, <1>2, <1>3 DEF Touches, CompactTakes

\* A prompt of a compaction for a client.
LEMMA PromptTouches ==
    ASSUME NEW k \in DOMAIN clients, clients[k] \in Client, NEW p \in Prompts,
           clients' = [clients EXCEPT ![k].asked = Append(@, p)],
           UNCHANGED <<vars, client, stage, with, sending, rc, crashes, fails,
                       outcome, heard, killedLive>>
    PROVE  /\ Touches
           /\ [clients[k] EXCEPT !.asked = Append(@, p)] \in Client
  <1> DEFINE c == [clients[k] EXCEPT !.asked = Append(@, p)]
  <1>1. Append(clients[k].asked, p) \in Seq(Prompts)
    BY DEF Client
  <1>2. c \in Client
    BY <1>1 DEF Client
  <1>3. /\ c.connected = clients[k].connected /\ c.open = clients[k].open
        /\ c.proc = clients[k].proc
    BY DEF Client
  <1>4. clients' = [clients EXCEPT ![k] = c]
    OBVIOUS
  <1> QED BY <1>2, <1>3, <1>4 DEF Touches

\* The steps that are Adapter's, those that touch one client, and the others.
LEMMA StepMoves ==
    ASSUME IInv, ClientsInv, CompTypes, CompNext
    PROVE  AdapterMove \/ UNCHANGED adapterVars
  <1>1. CASE CStart \/ CCalls
    BY <1>1 DEF CStart, CCalls, AdapterMove, AdapterNext
  <1>2. ASSUME NEW l \in Msgs,
               \/ CTakesClient(l) \/ CQueries(l) \/ CLoop(l)
               \/ CReceivePart(l) \/ CReceiveResult(l)
        PROVE  AdapterMove
    <2>1. ALoopStep(l)
      BY <1>2 DEF CTakesClient, CQueries, CLoop, CReceivePart, CReceiveResult,
                  ALoopStep, TurnStep
    <2> QED BY <2>1 DEF AdapterMove, AdapterNext
  <1>3. ASSUME NEW l \in Msgs, SummaryQuery(l) PROVE AdapterMove
    <2>1. pc[l] = "turn" /\ phase = "query"
      BY <1>3 DEF SummaryQuery, In
    <2>2. /\ compacts \in DOMAIN clients /\ clients[compacts] \in Client
          /\ SummaryOf(Ctx(l)) \in Prompts
      BY <2>1, CompactsIsThere, TurnHasContext, PromptsDiffer
    <2> QED BY <1>3, <2>2, PromptTouches DEF SummaryQuery, AdapterMove
  <1>4. ASSUME NEW l \in Msgs, SummaryMessage(l) \/ AckMessage(l) PROVE AdapterMove
    BY <1>4, TakesTouches DEF SummaryMessage, AckMessage, In, AdapterMove
  <1>5. ASSUME NEW t \in Msgs,
               CReconnectBegins(t) \/ CReconnectConnects(t) \/ CReconnectEnds(t)
        PROVE  AdapterMove
    <2>1. ReconnectStep(t)
      BY <1>5 DEF CReconnectBegins, CReconnectConnects, CReconnectEnds, ReconnectStep
    <2> QED BY <2>1 DEF AdapterMove, AdapterNext
  <1>6. ASSUME NEW s \in telling, ContextWrites(s)
        PROVE  AdapterMove \/ UNCHANGED adapterVars
    <2>1. CASE clients' = clients
      BY <1>6, <2>1 DEF ContextWrites, adapterVars, clientVars
    <2>2. CASE clients' = [clients EXCEPT ![s.to].asked = Append(@, ContextOf(s.ctx))]
      <3>1. s.to \in DOMAIN clients /\ clients[s.to] \in Client /\ ContextOf(s.ctx) \in Prompts
        BY CompactsIsThere, PromptsDiffer
      <3> QED BY <1>6, <2>2, <3>1, PromptTouches DEF ContextWrites, AdapterMove
    <2> QED BY <1>6, <2>1, <2>2 DEF ContextWrites
  <1>7. ASSUME NEW s \in sending, StreamWrites(s) PROVE AdapterMove
    BY <1>7 DEF AdapterMove, AdapterNext
  <1>8. ASSUME NEW k \in DOMAIN clients, CProcess(k) \/ CProcessDies(k) PROVE AdapterMove
    BY <1>8 DEF CProcess, CProcessDies, AdapterMove, AdapterNext
  <1>9. CASE ClearHistory
    BY <1>9 DEF ClearHistory
  <1> QED BY <1>1, <1>2, <1>3, <1>4, <1>5, <1>6, <1>7, <1>8, <1>9, InwardLeaves,
             StepsApart

-----------------------------------------------------------------------------
(* Types: the inductive step.                                              *)

\* The assumptions of the lemmas below.
CBefore ==
    /\ IInv /\ IInv' /\ ClientsInv /\ ClientsInv'
    /\ CompTypes /\ CompNext

\* The data of a conversation.
Data ==
    /\ history \in Seq(Entry) /\ MessagesOf(history) \subseteq Msgs
    /\ estimate \in Nat
    /\ copied \subseteq Msgs /\ cleared \subseteq Msgs /\ gaveUp \subseteq Msgs
    /\ text \subseteq Sessions
    /\ session \in Sessions /\ turnSession \in Sessions
    /\ rcSession \in [Msgs -> Sessions]

LEMMA TypesData == CompTypes => Data
  BY DEF CompTypes, CompTypeOK, Data, Entry, Sessions

\* An entry that comes behind the history.
LEMMA EntryAppended ==
    ASSUME Data, NEW e \in Entry, Adds(e) \subseteq Msgs
    PROVE  /\ Append(history, e) \in Seq(Entry)
           /\ MessagesOf(Append(history, e)) \subseteq Msgs
           /\ estimate + Size(e) \in Nat
  <1>1. Append(history, e) \in Seq(Entry)
    BY DEF Data
  <1>2. MessagesOf(Append(history, e)) = MessagesOf(history) \cup Adds(e)
    BY MessagesAppended DEF Data
  <1>3. estimate + Size(e) \in Nat
    BY SizeIsNat DEF Data
  <1> QED BY <1>1, <1>2, <1>3 DEF Data

\* The message a turn receives, and the one compactSession takes.
LEMMA IncomingFacts ==
    ASSUME IInv, ClientsInv, NEW l \in Msgs, Receiving(l), Incoming # <<>>
    PROVE  Head(Incoming).ctx \in Prompts /\ with \in DOMAIN clients
  <1>1. with \in DOMAIN clients /\ clients[with] \in Client
    BY ClientIsThere DEF Receiving, ClientsInv, AdapterTypeOK
  <1>2. Head(Incoming) \in [ctx : Prompts, result : BOOLEAN]
    BY <1>1, HeadAndTail DEF Client, Incoming
  <1> QED BY <1>1, <1>2

LEMMA StepData == ASSUME CBefore PROVE Data'
  <1>d. Data /\ Prompts \subseteq Sessions /\ Msgs \subseteq Prompts
    BY TypesData, PromptsDiffer DEF CBefore, Sessions
  <1>1. CASE UNCHANGED compVars
    BY <1>d, <1>1 DEF Data, compVars, historyVars, userVars, phaseVars, sessionVars,
                      launchVars, streamVars
  <1>2. CASE CStart \/ \E t \in Msgs : CReconnectConnects(t)
    BY <1>d, <1>2 DEF Data, CStart, CReconnectConnects, historyVars, userVars, phaseVars,
                      sessionVars, streamVars
  <1>3. CASE ClearHistory
    <2>1. MessagesOf(<<>>) = {} /\ <<>> \in Seq(Entry)
      BY MessagesOfNone
    <2> QED BY <1>d, <1>3, <2>1 DEF Data, ClearHistory, phaseVars, sessionVars,
                                    launchVars, streamVars
  <1>4. ASSUME NEW l \in Msgs, CTakesClient(l) PROVE Data'
    <2> DEFINE e == [kind |-> "message", of |-> Range(turn[l])]
    <2>1. Range(turn[l]) \subseteq Msgs
      BY HeldWasSent DEF CBefore, IInv
    <2>2. e \in Entry /\ Adds(e) = Range(turn[l])
      BY <1>d, <2>1 DEF Entry, Kinds, Adds
    <2>3. /\ history' = Append(history, e) /\ estimate' = estimate + Size(e)
          /\ turnSession' = session /\ text' = {}
          /\ UNCHANGED <<copied, cleared, gaveUp, session, rcSession>>
      BY <1>4 DEF CTakesClient, userVars, launchVars, streamVars
    <2> HIDE DEF e
    <2>4. /\ history' \in Seq(Entry) /\ MessagesOf(history)' \subseteq Msgs
          /\ estimate' \in Nat
      BY <1>d, <2>1, <2>2, <2>3, EntryAppended
    <2> QED BY <1>d, <2>3, <2>4 DEF Data
  <1>5. ASSUME NEW l \in Msgs, CReceivePart(l) PROVE Data'
    BY <1>d, <1>5, IncomingFacts DEF Data, CReceivePart, ReceivePart, CBefore, historyVars,
                    userVars, phaseVars, sessionVars, launchVars, streamVars
  <1>6. ASSUME NEW l \in Msgs, CReceiveResult(l) PROVE Data'
    <2> DEFINE e == [kind |-> "answer", of |-> text]
    <2>1. stage = "receive" /\ Head(Incoming).ctx \in Prompts
      BY <1>6, IncomingFacts DEF CReceiveResult, ReceiveResult, Receiving, CBefore
    <2>2. None \notin text
      BY <2>1 DEF CBefore, CompTypes, CompTypeOK
    <2>3. e \in Entry /\ Adds(e) = {}
      BY <1>d, <2>2 DEF Data, Sessions, Entry, Kinds, Adds
    <2>4. /\ \/ history' = Append(history, e) /\ estimate' = estimate + Size(e)
             \/ history' = history /\ estimate' = estimate
          /\ session' \in {session, Head(Incoming).ctx}
          /\ UNCHANGED <<text, turnSession, copied, cleared, gaveUp, rcSession>>
      BY <1>6 DEF CReceiveResult, userVars, phaseVars, launchVars, streamVars
    <2> HIDE DEF e
    <2>5. /\ history' \in Seq(Entry) /\ MessagesOf(history)' \subseteq Msgs
          /\ estimate' \in Nat
      BY <1>d, <2>3, <2>4, EntryAppended DEF Data
    <2> QED BY <1>d, <2>1, <2>4, <2>5 DEF Data
  <1>7. ASSUME NEW l \in Msgs, Resets(l) PROVE Data'
    <2>1. Summary(l) \in Entry /\ Adds(Summary(l)) \subseteq Msgs
      BY <1>d DEF Summary, Entry, Kinds, Adds, Data
    <2>2. <<Summary(l)>> \in Seq(Entry) /\ MessagesOf(<<Summary(l)>>) \subseteq Msgs
      BY <2>1, MessagesOfOne
    <2>3. Size(Summary(l)) \in Nat
      BY <2>1, SizeIsNat
    <2> QED BY <1>d, <1>7, <2>2, <2>3 DEF Data, Resets, userVars, launchVars, streamVars,
                                          Sessions
  <1>8. ASSUME NEW l \in Msgs,
               \/ CompactCopies(l) \/ SummaryQuery(l) \/ SummaryQueryFails(l) \/ BacksOff(l)
               \/ CompactListens(l) \/ SummaryEnds(l) \/ ContextQuery(l) \/ AckEnds(l)
               \/ CompactReturns(l)
        PROVE  Data'
    <2>1. UNCHANGED <<history, cleared, gaveUp, session, rcSession>>
      BY <1>8 DEF CompactCopies, SummaryQuery, SummaryQueryFails, BacksOff,
         CompactListens, SummaryEnds, ContextQuery, AckEnds, CompactReturns, historyVars,
         userVars, sessionVars, launchVars, streamVars
    <2>2. /\ estimate' \in {estimate, BackOff} /\ copied' \in {copied, MessagesOf(history)}
          /\ text' \in {text, {None}, text \cup {None}}
          /\ turnSession' \in {turnSession, session}
      BY <1>8 DEF CompactCopies, SummaryQuery, SummaryQueryFails, BacksOff,
         CompactListens, SummaryEnds, ContextQuery, AckEnds, CompactReturns, historyVars,
         userVars, sessionVars, launchVars, streamVars
    <2> QED BY <1>d, <2>1, <2>2, BackOffIsNat DEF Data, Sessions
  <1>9. ASSUME NEW l \in Msgs, SummaryMessage(l) \/ AckMessage(l) PROVE Data'
    <2>1. NextMessage.ctx \in Sessions
      BY <1>d, <1>9, MessageFacts DEF SummaryMessage, AckMessage, In, CBefore
    <2>2. /\ UNCHANGED <<history, estimate, copied, cleared, gaveUp, turnSession, rcSession>>
          /\ text' \in {text, text \cup {NextMessage.ctx}, text \cup {None}}
          /\ session' \in {session, NextMessage.ctx}
      BY <1>9 DEF SummaryMessage, CollectsText, AckMessage, historyVars, userVars,
                  sessionVars, launchVars, streamVars
    <2> QED BY <1>d, <2>1, <2>2 DEF Data, Sessions
  <1>10. ASSUME NEW t \in Msgs, CReconnectBegins(t) PROVE Data'
    BY <1>d, <1>10 DEF Data, CReconnectBegins, historyVars, userVars, phaseVars,
                       sessionVars, streamVars
  <1>11. ASSUME NEW s \in sending \cup telling, CStreamWrites(s) PROVE Data'
    <2>1. s.ctx \in Msgs
      BY <1>11, ClientIsThere, CompactsIsThere DEF CBefore, ClientsInv
    <2> QED BY <1>d, <1>11, <2>1 DEF Data, CStreamWrites, historyVars, userVars, phaseVars,
                                     sessionVars, launchVars
  <1> QED BY <1>1, <1>2, <1>3, <1>4, <1>5, <1>6, <1>7, <1>8, <1>9, <1>10, <1>11, StepsApart
          DEF CBefore, Inward, CCalls, CQueries, CLoop, CReconnectEnds, CProcess, CProcessDies

\* The stage of runClaude, which is Adapter's.
LEMMA StepStage == ASSUME Before, StageOfTurn PROVE StageOfTurn'
  <1>1. CASE AStart \/ AStop \/ (\E t \in Msgs : ReconnectStep(t))
             \/ (\E s \in sending : StreamWrites(s))
    <2>1. UNCHANGED <<pc, stage>>
      BY <1>1, ReconnectSteps DEF AStart, Start, AStop, Stop, StreamWrites, loopVars, vars
    <2> QED BY <2>1 DEF StageOfTurn
  <1>2. CASE Aside /\ TurnsLast
    BY <1>2 DEF Aside, TurnsLast, StageOfTurn
  <1>3. ASSUME NEW l \in Msgs, ABeginTurn(l) PROVE StageOfTurn'
    <2>1. pc'[l] = "turn" /\ stage' = "begun"
      BY <1>3 DEF ABeginTurn, BeginTurn, Before, IInv, TypeOK
    <2> QED BY <2>1 DEF StageOfTurn
  <1>4. ASSUME NEW l \in Msgs, TurnStep(l) PROVE StageOfTurn'
    <2>1. pc[l] = "turn" /\ (GoesOn(l) \/ EndsTurn(l))
      BY <1>4, TurnSteps
    <2>2. CASE GoesOn(l)
      <3>1. stage # "idle" /\ stage' # "idle" /\ pc' = pc
        BY <2>1, <2>2 DEF GoesOn, TakesClient, StageOfTurn
      <3> QED BY <2>1, <3>1 DEF StageOfTurn
    <2>3. CASE EndsTurn(l)
      <3>1. stage' = "idle" /\ pc' = [pc EXCEPT ![l] = "drain"]
        BY <2>3 DEF EndsTurn, EndTurn
      <3>2. \A m \in Msgs : pc[m] = "turn" => m = l
        BY <2>1, TurnHasContext DEF Before
      <3>3. pc \in [Msgs -> Places]
        BY DEF Before, IInv, TypeOK
      <3> QED BY <3>1, <3>2, <3>3 DEF StageOfTurn
    <2> QED BY <2>1, <2>2, <2>3
  <1> QED BY <1>1, <1>2, <1>3, <1>4, StepKinds DEF Before

\* The steps of runClaude that a turn cannot take while it compacts.
LEMMA CompactingStays ==
    ASSUME CBefore, phase # "none"
    PROVE  /\ stage = "query"
           /\ \A l \in Msgs :
                  /\ ~ABeginTurn(l) /\ ~CTakesClient(l) /\ ~CQueries(l)
                  /\ ~Listens(l) /\ ~CReceivePart(l) /\ ~CReceiveResult(l)
                  /\ ~ReceiveCancelled(l) /\ ~ReceiveClosed(l)
  <1>1. stage = "query" /\ \E l \in Msgs : pc[l] = "turn"
    BY DEF CBefore, CompTypes, CompTypeOK, StageOfTurn
  <1>2. ASSUME NEW l \in Msgs PROVE ~ABeginTurn(l)
    BY <1>1, TurnHasContext DEF CBefore, ABeginTurn, BeginTurn
  <1> QED BY <1>1, <1>2 DEF CTakesClient, TakesClient, CQueries, Listens, CReceivePart,
             ReceivePart, CReceiveResult, ReceiveResult, ReceiveCancelled, ReceiveClosed,
             Receiving, SeesClosed

\* Adapter's steps, taken while a turn compacts or not, and where the phase is
\* after them.
LEMMA StepStays ==
    ASSUME CBefore, phase # "none"
    PROVE  stage' = "query"
  <1>1. CASE CStart \/ CCalls \/ ClearHistory
    BY <1>1, CompactingStays DEF CStart, AStart, CCalls, ASend, ACancel, AStop, AStopReturns,
       ACallerCancels, ClearHistory, adapterVars, clientVars
  <1>2. ASSUME NEW l \in Msgs, CLoop(l) PROVE stage' = "query"
    <2>1. ASkipTurn(l) \/ ALoop(l)
      BY <1>2, CompactingStays DEF CLoop
    <2> QED BY <2>1, CompactingStays DEF ASkipTurn, ALoop, clientVars
  <1>3. ASSUME NEW l \in Msgs,
               SummaryQuery(l) \/ SummaryMessage(l) \/ AckMessage(l) \/ Inward(l)
        PROVE  stage' = "query"
    BY <1>3, CompactingStays, InwardLeaves DEF SummaryQuery, SummaryMessage, AckMessage,
       CompactTakes, adapterVars, clientVars
  <1>4. ASSUME NEW t \in Msgs,
               CReconnectBegins(t) \/ CReconnectConnects(t) \/ CReconnectEnds(t)
        PROVE  stage' = "query"
    BY <1>4, CompactingStays DEF CReconnectBegins, CReconnectConnects, CReconnectEnds,
       ReconnectBegins, ReconnectDisconnects, ReconnectConnects, ReconnectFails,
       ReconnectSwaps
  <1>5. CASE \/ \E s \in sending : StreamWrites(s)
             \/ \E s \in telling : ContextWrites(s)
             \/ \E k \in DOMAIN clients : CProcess(k) \/ CProcessDies(k)
    BY <1>5, CompactingStays DEF StreamWrites, ContextWrites, CProcess, CliAnswers,
       CliInterrupted, CProcessDies, CliDies
  <1> QED BY <1>1, <1>2, <1>3, <1>4, <1>5, CompactingStays, StepsApart DEF CBefore

Control ==
    /\ phase \in Phases
    /\ phase # "none" => stage = "query"
    /\ None \in text => phase = "reset"

LEMMA StepControl == ASSUME CBefore PROVE Control'
  <1>c. Control /\ None \notin Prompts
    BY PromptsDiffer DEF CBefore, CompTypes, CompTypeOK, Control, Phases
  <1>1. CASE UNCHANGED <<phase, text>>
    BY <1>c, <1>1, StepStays DEF Control
  <1>2. ASSUME NEW l \in Msgs, CTakesClient(l) PROVE Control'
    BY <1>c, <1>2 DEF Control, CTakesClient, TakesClient, Phases
  <1>3. ASSUME NEW l \in Msgs, CReceivePart(l) PROVE Control'
    <2>1. Head(Incoming).ctx # None
      BY <1>c, <1>3, IncomingFacts DEF CReceivePart, ReceivePart, CBefore
    <2> QED BY <1>c, <1>3, <2>1, StepStays DEF Control, CReceivePart, phaseVars
  <1>4. ASSUME NEW l \in Msgs,
               \/ CompactCopies(l) \/ SummaryQuery(l) \/ SummaryQueryFails(l) \/ BacksOff(l)
               \/ CompactListens(l) \/ SummaryEnds(l) \/ Resets(l) \/ ContextQuery(l)
               \/ AckEnds(l) \/ CompactReturns(l)
        PROVE  Control'
    <2>1. phase # "none"
      BY <1>4, InwardLeaves DEF Inward, SummaryQuery, In
    <2>2. phase' \in Phases
      BY <1>4 DEF Phases, CompactCopies, SummaryQuery, SummaryQueryFails, BacksOff,
         CompactListens, SummaryEnds, Resets, ContextQuery, AckEnds, CompactReturns
    <2>3. None \in text' => phase' = "reset"
      BY <1>c, <1>4 DEF Control, CompactCopies, SummaryQuery, SummaryQueryFails, BacksOff,
         CompactListens, SummaryEnds, Resets, ContextQuery, AckEnds, CompactReturns, In
    <2> QED BY <2>1, <2>2, <2>3, StepStays DEF Control
  <1>5. ASSUME NEW l \in Msgs, SummaryMessage(l) \/ AckMessage(l) PROVE Control'
    <2>1. NextMessage.ctx # None
      BY <1>c, <1>5, MessageFacts DEF SummaryMessage, AckMessage, In, CBefore
    <2> QED BY <1>c, <1>5, <2>1, StepStays
            DEF Control, SummaryMessage, CollectsText, AckMessage, In, Phases
  <1> QED BY <1>1, <1>2, <1>3, <1>4, <1>5, StepsApart
          DEF CBefore, Inward, CStart, CCalls, ClearHistory, CQueries, CLoop, CReceiveResult,
              CReconnectBegins, CReconnectConnects, CReconnectEnds, CStreamWrites, CProcess,
              CProcessDies, compVars, phaseVars

\* Each client was launched once, and compactions know clients that are there.
Launches ==
    /\ Len(resumed) = Len(clients)
    /\ resumed \in Seq({Launched(s) : s \in Sessions})
    /\ phase \notin {"none", "begun"} => compacts \in DOMAIN clients
    /\ telling \subseteq [ctx : Msgs, to : DOMAIN clients]

LEMMA DisconnectsCounts ==
    ASSUME ClientsInv, NEW k, Disconnects(k)
    PROVE  DOMAIN clients' = DOMAIN clients
  BY DEF Disconnects

\* No other step than these connects a client.
LEMMA StepCounts ==
    ASSUME CBefore
    PROVE  \/ DOMAIN clients' = DOMAIN clients
           \/ CStart
           \/ \E t \in Msgs : CReconnectConnects(t)
  <1>1. CASE CCalls \/ ClearHistory
    BY <1>1, DisconnectsCounts DEF CBefore, CCalls, ASend, ACancel, AStop, AStopReturns,
       ACallerCancels, ClearHistory, adapterVars, clientVars
  <1>2. ASSUME NEW l \in Msgs,
               CTakesClient(l) \/ CQueries(l) \/ CLoop(l) \/ CReceivePart(l) \/ CReceiveResult(l)
        PROVE  DOMAIN clients' = DOMAIN clients
    BY <1>2 DEF CTakesClient, CQueries, CLoop, CReceivePart, CReceiveResult, TakesClient,
       QueryText, QueryTextFails, QueryStream, QueryStreamFails, ABeginTurn, ASkipTurn,
       ALoop, Listens, ReceiveCancelled, ReceiveClosed, ReceivePart, ReceiveResult,
       clientVars
  <1>3. ASSUME NEW l \in Msgs,
               SummaryQuery(l) \/ SummaryMessage(l) \/ AckMessage(l) \/ Inward(l)
        PROVE  DOMAIN clients' = DOMAIN clients
    BY <1>3, InwardLeaves DEF SummaryQuery, SummaryMessage, AckMessage, CompactTakes,
       adapterVars, clientVars
  <1>4. ASSUME NEW t \in Msgs, CReconnectBegins(t) \/ CReconnectEnds(t)
        PROVE  DOMAIN clients' = DOMAIN clients
    BY <1>4, DisconnectsCounts DEF CBefore, CReconnectBegins, CReconnectEnds,
       ReconnectBegins, ReconnectDisconnects, ReconnectFails, ReconnectSwaps
  <1>5. CASE \/ \E s \in sending : StreamWrites(s)
             \/ \E s \in telling : ContextWrites(s)
             \/ \E k \in DOMAIN clients : CProcess(k) \/ CProcessDies(k)
    BY <1>5 DEF StreamWrites, ContextWrites, CProcess, CliAnswers, CliInterrupted,
       CProcessDies, CliDies
  <1> QED BY <1>1, <1>2, <1>3, <1>4, <1>5, StepsApart DEF CBefore

LEMMA SameLength ==
    ASSUME NEW S, NEW s \in Seq(S), NEW t \in Seq(S), DOMAIN s = DOMAIN t
    PROVE  Len(s) = Len(t)
  <1>1. 1 .. Len(s) = 1 .. Len(t) /\ Len(s) \in Nat /\ Len(t) \in Nat
    OBVIOUS
  <1> QED BY <1>1

LEMMA StepLaunches == ASSUME CBefore PROVE Launches'
  <1>c. /\ Launches
        /\ session \in Sessions /\ rcSession \in [Msgs -> Sessions] /\ None \in Sessions
        /\ clients \in Seq(Client) /\ clients' \in Seq(Client)
        /\ DOMAIN clients = 1 .. Len(clients) /\ DOMAIN clients' = 1 .. Len(clients')
        /\ DOMAIN clients \subseteq DOMAIN clients'
    <2>1. /\ clients \in Seq(Client) /\ DOMAIN clients = 1 .. Len(clients)
          /\ clients' \in Seq(Client) /\ DOMAIN clients' = 1 .. Len(clients')
      <3>1. AdapterTypeOK /\ AdapterTypeOK'
        BY DEF CBefore, ClientsInv
      <3>2. clients \in Seq(Client) /\ clients' \in Seq(Client)
        BY <3>1 DEF AdapterTypeOK, Client
      <3> QED BY <3>2
    <2>2. DOMAIN clients \subseteq DOMAIN clients'
      BY StepMoves, ClientsAge DEF CBefore, ClientsInv, ClientsAged, adapterVars, clientVars
    <2> QED BY <2>1, <2>2 DEF CBefore, CompTypes, CompTypeOK, Launches, Sessions
  <1> DEFINE S == {Launched(s) : s \in Sessions}
  <1>1. ASSUME clients' = Append(clients, Fresh), NEW s \in Sessions,
               resumed' = Append(resumed, Launched(s))
        PROVE  Len(resumed') = Len(clients') /\ resumed' \in Seq(S)
    <2>1. Launched(s) \in S /\ resumed \in Seq(S)
      BY <1>c DEF Launches
    <2> HIDE DEF S
    <2>2. Len(resumed') = Len(resumed) + 1 /\ resumed' \in Seq(S)
      BY <1>1, <2>1
    <2>3. Len(clients') = Len(clients) + 1
      BY <1>c, <1>1, FreshIsClient
    <2> QED BY <1>c, <2>2, <2>3 DEF Launches
  <1>2. CASE CStart
    <2>1. Len(resumed') = Len(clients') /\ resumed' \in Seq(S)
      BY <1>c, <1>1, <1>2 DEF CStart, AStart
    <2> QED BY <1>c, <1>2, <2>1 DEF Launches, CStart, phaseVars, streamVars
  <1>3. ASSUME NEW t \in Msgs, CReconnectConnects(t) PROVE Launches'
    <2>1. rcSession[t] \in Sessions
      BY <1>c
    <2>2. Len(resumed') = Len(clients') /\ resumed' \in Seq(S)
      BY <1>1, <1>3, <2>1 DEF CReconnectConnects, ReconnectConnects
    <2> QED BY <1>c, <1>3, <2>2 DEF Launches, CReconnectConnects, phaseVars, streamVars
  <1>4. ASSUME DOMAIN clients' = DOMAIN clients, resumed' = resumed
        PROVE  Len(resumed') = Len(clients') /\ resumed' \in Seq(S)
    BY <1>c, <1>4, SameLength DEF Launches
  <1>5. ASSUME ~CStart, \A t \in Msgs : ~CReconnectConnects(t)
        PROVE  /\ resumed' = resumed
               /\ phase' \notin {"none", "begun"} => compacts' \in DOMAIN clients'
               /\ telling' \subseteq [ctx : Msgs, to : DOMAIN clients']
    <2>1. CASE UNCHANGED <<launchVars, phase, compacts, telling>>
      BY <1>c, <2>1 DEF Launches, launchVars
    <2>2. ASSUME NEW l \in Msgs, CTakesClient(l)
          PROVE  /\ UNCHANGED <<resumed, telling>>
                 /\ phase' \in {"none", "begun"}
      BY <2>2 DEF CTakesClient, launchVars, streamVars
    <2>3. ASSUME NEW l \in Msgs, CompactCopies(l)
          PROVE  /\ UNCHANGED <<resumed, telling>>
                 /\ compacts' \in DOMAIN clients
      <3>1. stage = "query" /\ compacts' = client
        BY <2>3, CompactingStays, InwardLeaves DEF CompactCopies, Inward
      <3>2. client \in DOMAIN clients
        BY <3>1, ClientIsThere DEF CBefore, ClientsInv, ClientsBeginWithStart
      <3> QED BY <2>3, <3>1, <3>2 DEF CompactCopies, launchVars, streamVars
    <2>4. ASSUME NEW l \in Msgs,
                 \/ SummaryQuery(l) \/ SummaryQueryFails(l) \/ BacksOff(l)
                 \/ CompactListens(l) \/ SummaryEnds(l) \/ Resets(l)
                 \/ AckEnds(l) \/ CompactReturns(l) \/ SummaryMessage(l) \/ AckMessage(l)
          PROVE  UNCHANGED <<resumed, telling, compacts>> /\ phase \notin {"none", "begun"}
      BY <2>4 DEF SummaryQuery, SummaryQueryFails, BacksOff, CompactListens, SummaryEnds,
         Resets, AckEnds, CompactReturns, SummaryMessage, AckMessage, In, launchVars,
         streamVars, phaseVars
    <2>5. ASSUME NEW l \in Msgs, ContextQuery(l)
          PROVE  /\ UNCHANGED <<resumed, compacts>> /\ phase \notin {"none", "begun"}
                 /\ telling' \subseteq [ctx : Msgs, to : DOMAIN clients]
      <3>1. Ctx(l) \in Msgs /\ compacts \in DOMAIN clients
        BY <1>c, <2>5, TurnHasContext DEF ContextQuery, In, CBefore, Launches
      <3> QED BY <1>c, <2>5, <3>1 DEF ContextQuery, In, launchVars, Launches
    <2>6. ASSUME NEW s \in sending \cup telling, CStreamWrites(s)
          PROVE  /\ UNCHANGED <<resumed, compacts, phase>>
                 /\ telling' \subseteq telling
      BY <2>6 DEF CStreamWrites, ContextWrites, launchVars, phaseVars
    <2>7. ASSUME NEW t \in Msgs, CReconnectBegins(t)
          PROVE  UNCHANGED <<resumed, compacts, phase, telling>>
      BY <2>7 DEF CReconnectBegins, phaseVars, streamVars
    <2>8. ASSUME \/ CCalls \/ ClearHistory
                 \/ \E l \in Msgs : \/ CQueries(l) \/ CLoop(l) \/ CReceivePart(l)
                                    \/ CReceiveResult(l) \/ CReconnectEnds(l)
                 \/ \E k \in DOMAIN clients : CProcess(k) \/ CProcessDies(k)
          PROVE  UNCHANGED <<launchVars, phase, compacts, telling>>
      BY <2>8 DEF CCalls, ClearHistory, CQueries, CLoop, CReceivePart, CReceiveResult,
         CReconnectEnds, CProcess, CProcessDies, compVars, phaseVars, launchVars, streamVars
    <2> QED BY <1>c, <1>5, <2>1, <2>2, <2>3, <2>4, <2>5, <2>6, <2>7, <2>8, StepsApart
            DEF CBefore, Launches, Inward
  <1> QED BY <1>2, <1>3, <1>4, <1>5, StepCounts DEF Launches

\* ClearHistory, and nothing else, counts.
LEMMA StepClears ==
    ASSUME CBefore
    PROVE  clears' \in Nat /\ (clears' = 0 => clears = 0 /\ ~ClearHistory)
  <1>1. clears \in Nat
    BY DEF CBefore, CompTypes
  <1>2. CASE ClearHistory
    BY <1>1, <1>2 DEF ClearHistory
  <1>3. ASSUME ~ClearHistory PROVE clears' = clears
    BY <1>3, StepsApart DEF CBefore, CStart, CCalls, CTakesClient, CQueries, CLoop,
       CReceivePart, CReceiveResult, SummaryQuery, SummaryMessage, AckMessage, Inward,
       CompactCopies, SummaryQueryFails, BacksOff, CompactListens, SummaryEnds, Resets,
       ContextQuery, AckEnds, CompactReturns, CReconnectBegins, CReconnectConnects,
       CReconnectEnds, CStreamWrites, CProcess, CProcessDies, compVars, userVars
  <1> QED BY <1>1, <1>2, <1>3

LEMMA StepTypes == ASSUME CBefore PROVE CompTypes'
  <1>1. Data' /\ Control' /\ Launches'
    BY StepData, StepControl, StepLaunches
  <1>2. StageOfTurn'
    <2>1. CASE AdapterMove
      BY <2>1, StepStage DEF CBefore, Before, CompTypes
    <2>2. CASE UNCHANGED adapterVars
      BY <2>2 DEF CBefore, CompTypes, StageOfTurn, adapterVars, vars, clientVars
    <2> QED BY <2>1, <2>2, StepMoves DEF CBefore
  <1>3. telling' \subseteq [ctx : Msgs, to : DOMAIN clients']
    BY <1>1 DEF Launches
  <1> QED BY <1>1, <1>2, <1>3, StepClears
          DEF Data, Control, Launches, CompTypes, CompTypeOK, Entry,
             Sessions, Phases

-----------------------------------------------------------------------------
(* What was cleared: the inductive step.                                   *)

\* A turn at its beginning has just begun, or was there before.
LEMMA TurnAtBeginning ==
    ASSUME Before, NEW l \in Msgs, pc'[l] = "turn", stage' = "begun"
    PROVE  BeginTurn(l) \/ (pc[l] = "turn" /\ stage = "begun" /\ turn'[l] = turn[l])
  <1>1. BeginTurn(l) \/ (pc[l] = "turn" /\ turn'[l] = turn[l])
    BY TurnLasts, BeforeFacts DEF Before
  <1>2. CASE pc[l] = "turn"
    <2>1. ASSUME NEW k \in Msgs, ABeginTurn(k) PROVE FALSE
      BY <1>2, <2>1, TurnHasContext DEF ABeginTurn, BeginTurn, Before
    <2>2. ASSUME NEW k \in Msgs, TurnStep(k) PROVE stage = "begun"
      BY <2>2, TurnSteps DEF GoesOn, TakesClient, EndsTurn
    <2>3. ASSUME \/ AStart \/ AStop \/ Aside \/ (\E t \in Msgs : ReconnectStep(t))
                 \/ (\E s \in sending : StreamWrites(s))
          PROVE  stage = "begun"
      BY <2>3, ReconnectSteps DEF AStart, AStop, Aside, StreamWrites
    <2> QED BY <1>1, <1>2, <2>1, <2>2, <2>3, StepKinds DEF Before
  <1> QED BY <1>1, <1>2 DEF BeginTurn

\* The messages of a turn that begins have no fate yet.
LEMMA BeginnersAreNew ==
    ASSUME IInv, NEW l \in Msgs, pc[l] = "begin", NEW m \in Range(turn[l])
    PROVE  fate[m] = "none" /\ m \in Msgs
  BY HeldWasSent, AboutToBeginElement DEF IInv, NothingLost, Waiting

\* What was cleared or recorded is kept or becomes less.
Shrinks ==
    /\ cleared' \cap Recorded' = {}
    /\ cleared' \cup Recorded' \subseteq cleared \cup Recorded

LEMMA ShrinkingIsSafe ==
    ASSUME CBefore, ClearedInv, Shrinks
    PROVE  ClearedInv'
  <1>1. \A m \in cleared \cup Recorded : m \in Msgs
    BY TypesData DEF CBefore, Data, Recorded
  <1>2. [Next]_vars
    BY StepMoves, StepSchedules DEF CBefore, adapterVars
  <1>3. \A m \in cleared \cup Recorded : fate'[m] # "none"
    BY <1>1, <1>2, FateStays DEF ClearedInv, CBefore
  <1>4. ASSUME NEW l \in Msgs, pc'[l] = "turn", stage' = "begun"
        PROVE  Range(turn'[l]) \cap (cleared \cup Recorded) = {}
    <2>1. CASE AdapterMove
      <3>1. BeginTurn(l) \/ (pc[l] = "turn" /\ stage = "begun" /\ turn'[l] = turn[l])
        BY <1>4, <2>1, TurnAtBeginning DEF CBefore, Before
      <3>2. CASE BeginTurn(l)
        BY <3>2, BeginnersAreNew DEF BeginTurn, CBefore, ClearedInv
      <3> QED BY <3>1, <3>2 DEF ClearedInv
    <2>2. CASE UNCHANGED adapterVars
      BY <1>4, <2>2 DEF ClearedInv, adapterVars, vars, clientVars
    <2> QED BY <2>1, <2>2, StepMoves DEF CBefore
  <1> QED BY <1>3, <1>4 DEF Shrinks, ClearedInv

LEMMA StepCleared == ASSUME CBefore, ClearedInv PROVE ClearedInv'
  <1>d. Data /\ cleared \cap Recorded = {}
    BY TypesData DEF CBefore, ClearedInv
  <1>1. CASE UNCHANGED <<history, cleared, copied, phase>>
    BY <1>d, <1>1, ShrinkingIsSafe DEF Shrinks, Recorded, CopyIsOut
  <1>2. CASE ClearHistory
    <2>1. /\ MessagesOf(history') = {} /\ UNCHANGED <<copied, phase>>
          /\ cleared' = IF CopyIsOut THEN cleared ELSE cleared \cup MessagesOf(history)
      BY <1>2, MessagesOfNone DEF ClearHistory, phaseVars
    <2> QED BY <1>d, <2>1, ShrinkingIsSafe DEF Shrinks, Recorded, CopyIsOut
  <1>3. ASSUME NEW l \in Msgs, CTakesClient(l) PROVE ClearedInv'
    <2> DEFINE e == [kind |-> "message", of |-> Range(turn[l])]
    <2>1. /\ Adds(e) = Range(turn[l]) /\ e \in Entry
          /\ \A m \in Range(turn[l]) : fate[m] # "none"
      <3>1. Range(turn[l]) \subseteq Prompts
        BY HeldWasSent, PromptsDiffer DEF CBefore, IInv
      <3> QED BY <1>3, <3>1 DEF Adds, Entry, Kinds, CTakesClient, TakesClient, CBefore, IInv,
                                FateFollowsTurn
    <2>2. MessagesOf(history') = MessagesOf(history) \cup Range(turn[l])
      <3>1. history \in Seq(Entry) /\ history' = Append(history, e)
        BY <1>d, <1>3 DEF Data, CTakesClient
      <3> HIDE DEF e
      <3>2. MessagesOf(Append(history, e)) = MessagesOf(history) \cup Adds(e)
        BY <2>1, <3>1, MessagesAppended
      <3> QED BY <2>1, <3>1, <3>2
    <2>3. /\ phase = "none" /\ phase' \in {"none", "begun"} /\ cleared' = cleared
          /\ stage' = "query" /\ fate' = fate
          /\ Range(turn[l]) \cap (cleared \cup Recorded) = {}
      BY <1>3, CompactingStays DEF CTakesClient, TakesClient, userVars, vars, ClearedInv
    <2>4. Recorded' = Recorded \cup Range(turn[l])
      BY <2>2, <2>3 DEF Recorded, CopyIsOut
    <2> QED BY <1>d, <2>1, <2>3, <2>4 DEF ClearedInv
  <1>4. ASSUME NEW l \in Msgs, CReceiveResult(l) PROVE ClearedInv'
    <2>1. /\ MessagesOf(history') = MessagesOf(history)
          /\ UNCHANGED <<copied, phase, cleared>>
      <3> DEFINE e == [kind |-> "answer", of |-> text]
      <3>1. stage = "receive"
        BY <1>4 DEF CReceiveResult, ReceiveResult, Receiving
      <3>2. e \in Entry /\ Adds(e) = {}
        BY <1>d, <3>1 DEF CBefore, CompTypes, CompTypeOK, Data, Sessions, Entry, Kinds, Adds
      <3>3. /\ history' = history \/ history' = Append(history, e)
            /\ UNCHANGED <<copied, phase, cleared>>
        BY <1>4 DEF CReceiveResult, phaseVars, userVars
      <3> HIDE DEF e
      <3>4. history \in Seq(Entry)
        BY <1>d DEF Data
      <3>5. MessagesOf(Append(history, e)) = MessagesOf(history) \cup Adds(e)
        BY <3>2, <3>4, MessagesAppended
      <3> QED BY <3>2, <3>3, <3>5
    <2> QED BY <1>d, <2>1, ShrinkingIsSafe DEF Shrinks, Recorded, CopyIsOut
  <1>5. ASSUME NEW l \in Msgs, CompactCopies(l) PROVE ClearedInv'
    BY <1>d, <1>5, ShrinkingIsSafe DEF Shrinks, Recorded, CopyIsOut, CompactCopies,
                                       historyVars, userVars
  <1>6. ASSUME NEW l \in Msgs, Resets(l) PROVE ClearedInv'
    <2>1. MessagesOf(history') = Adds(Summary(l))
      BY <1>6, MessagesOfOne DEF Resets
    <2>2. Adds(Summary(l)) \subseteq copied
      BY DEF Adds, Summary
    <2>3. phase = "reset" /\ phase' = "context" /\ cleared' = cleared
      BY <1>6 DEF Resets, In, userVars
    <2> QED BY <1>d, <2>1, <2>2, <2>3, ShrinkingIsSafe DEF Shrinks, Recorded, CopyIsOut
  <1>7. ASSUME NEW l \in Msgs,
               \/ SummaryQuery(l) \/ SummaryQueryFails(l) \/ BacksOff(l)
               \/ CompactListens(l) \/ SummaryEnds(l) \/ ContextQuery(l)
               \/ AckEnds(l) \/ CompactReturns(l) \/ SummaryMessage(l) \/ AckMessage(l)
        PROVE  ClearedInv'
    <2>1. UNCHANGED <<history, copied, cleared>>
      BY <1>7 DEF SummaryQuery, SummaryQueryFails, BacksOff, CompactListens, SummaryEnds,
         ContextQuery, AckEnds, CompactReturns, SummaryMessage, AckMessage, historyVars,
         userVars, phaseVars
    <2>2. CopyIsOut' => CopyIsOut
      BY <1>7 DEF SummaryQuery, SummaryQueryFails, BacksOff, CompactListens, SummaryEnds,
         ContextQuery, AckEnds, CompactReturns, SummaryMessage, AckMessage, In, CopyIsOut,
         phaseVars
    <2> QED BY <1>d, <2>1, <2>2, ShrinkingIsSafe DEF Shrinks, Recorded
  <1> QED BY <1>1, <1>2, <1>3, <1>4, <1>5, <1>6, <1>7, StepsApart
          DEF CBefore, Inward, CStart, CCalls, CQueries, CLoop, CReceivePart,
              CReconnectBegins, CReconnectConnects, CReconnectEnds, CStreamWrites,
              CProcess, CProcessDies, compVars, historyVars, userVars, phaseVars

-----------------------------------------------------------------------------
(* Prompts and answers: what one exchange does.                            *)

\* Who waits does so in the turn, for one answer of a client that is there.
LEMMA TurnUsers ==
    IInv /\ ClientsInv /\ CompTypes =>
        /\ \A l \in Msgs : \A u : Waits(l, u) => u \in Users
        /\ \A u \in Users : /\ u.to \in DOMAIN clients /\ u.ctx \in Prompts
                            /\ \E l \in Msgs : Waits(l, u)
        /\ \A u, v \in Users : u = v
  <1> SUFFICES ASSUME IInv, ClientsInv, CompTypes
               PROVE  /\ \A l \in Msgs : \A u : Waits(l, u) => u \in Users
                      /\ \A u \in Users : /\ u.to \in DOMAIN clients /\ u.ctx \in Prompts
                                          /\ \E l \in Msgs : Waits(l, u)
                      /\ \A u, v \in Users : u = v
    OBVIOUS
  <1>1. phase # "none" => stage = "query"
    BY DEF CompTypes, CompTypeOK
  <1>2. ASSUME NEW l \in Msgs, NEW u, Waits(l, u)
        PROVE  u \in [ctx : Prompts, to : DOMAIN clients]
    <2>1. Ctx(l) \in Msgs
      BY <1>2, TurnHasContext DEF Waits
    <2>2. stage \in {"asked", "receive"} => with \in DOMAIN clients
      BY ClientIsThere DEF ClientsInv, AdapterTypeOK
    <2>3. phase \notin {"none", "begun"} => compacts \in DOMAIN clients
      BY CompactsIsThere
    <2> QED BY <1>2, <2>1, <2>2, <2>3, PromptsDiffer DEF Waits
  <1>3. ASSUME NEW l \in Msgs, NEW m \in Msgs, NEW u, NEW v, Waits(l, u), Waits(m, v)
        PROVE  u = v
    <2>1. l = m
      BY <1>3, TurnHasContext DEF Waits
    <2> QED BY <1>1, <1>3, <2>1 DEF Waits
  <1> QED BY <1>2, <1>3 DEF Users

\* Who writes has a client that is there.
LEMMA WritersThere ==
    ASSUME ClientsInv, CompTypes, NEW w \in Writers
    PROVE  w \in [ctx : Prompts, to : DOMAIN clients]
  <1>1. sending \subseteq [ctx : Msgs, to : DOMAIN clients]
    BY ClientIsThere DEF ClientsInv, AdapterTypeOK
  <1>2. \A s \in telling : s.ctx \in Msgs /\ s.to \in DOMAIN clients
    BY CompactsIsThere
  <1> QED BY <1>1, <1>2, PromptsDiffer DEF Writers

\* What becomes of the clients.
Older ==
    /\ DOMAIN clients \subseteq DOMAIN clients'
    /\ \A k \in DOMAIN clients :
           clients[k].proc = "dead" => clients'[k].proc = "dead"
    /\ \A k \in DOMAIN clients : Keeps(k) =>
           /\ Lost(k) => Lost(k)'
           /\ Empty(clients[k]) => Empty(clients'[k])
           /\ \A p : /\ Whole(clients[k], p) => Whole(clients'[k], p)
                     /\ Rest(clients[k], p) => Rest(clients'[k], p)
    /\ \A k \in DOMAIN clients' : k \in DOMAIN clients \/ Empty(clients'[k])
    /\ clients \in Seq(Client) /\ clients' \in Seq(Client)
    /\ \A k \in DOMAIN clients : clients[k] \in Client
    /\ \A k \in DOMAIN clients' : clients'[k] \in Client

LEMMA StepOlder == ASSUME CBefore PROVE Older
  <1>1. CASE UNCHANGED adapterVars
    <2>1. clients' = clients
      BY <1>1 DEF adapterVars, clientVars
    <2>2. clients \in Seq(Client) /\ \A k \in DOMAIN clients : clients[k] \in Client
      BY ClientIsThere DEF CBefore, ClientsInv
    <2> QED BY <2>1, <2>2 DEF Older, Lost
  <1>2. CASE AdapterMove
    <2>1. ClientsAged
      BY <1>2, ClientsAge DEF CBefore, ClientsInv
    <2>2. clients \in Seq(Client) /\ \A k \in DOMAIN clients : clients[k] \in Client
      BY ClientIsThere DEF CBefore, ClientsInv
    <2>3. \A s \in Seq(Client) : \A k \in DOMAIN s : s[k] \in Client
      OBVIOUS
    <2>4. \A k \in DOMAIN clients' : k \in DOMAIN clients \/ Empty(clients'[k])
      <3>1. Empty(Fresh)
        BY DEF Fresh, Empty
      <3> QED BY <2>1, <3>1 DEF ClientsAged
    <2>5. \A k \in DOMAIN clients : k \in DOMAIN clients' /\ Ages(clients[k], clients'[k])
      BY <2>1 DEF ClientsAged
    <2>6. clients' \in Seq(Client) /\ \A k \in DOMAIN clients' : clients'[k] \in Client
      BY <2>1, <2>3 DEF ClientsAged
    <2>7. ASSUME NEW k \in DOMAIN clients, Keeps(k)
          PROVE  /\ Lost(k) => Lost(k)'
                 /\ Empty(clients[k]) => Empty(clients'[k])
                 /\ \A p : /\ Whole(clients[k], p) => Whole(clients'[k], p)
                           /\ Rest(clients[k], p) => Rest(clients'[k], p)
      BY <2>5, <2>7 DEF Ages, Keeps, Lost, Empty, Whole, Rest
    <2> QED BY <2>2, <2>4, <2>5, <2>6, <2>7 DEF Older, Ages
  <1> QED BY <1>1, <1>2, StepMoves DEF CBefore

\* Nobody writes, answers or reads.
LEMMA FlowKept ==
    ASSUME CBefore, Flow, AllKeep, Users' = Users, Writers' \subseteq Writers,
           \A x : Got(x) => Got(x)'
    PROVE  Flow'
  <1>o. Older /\ \A k \in DOMAIN clients : Keeps(k)
    BY StepOlder DEF AllKeep
  <1>u. \A u \in Users : u.to \in DOMAIN clients
    BY TurnUsers DEF CBefore
  <1>1. UnusedIsEmpty'
    BY <1>o DEF Flow, UnusedIsEmpty, Older
  <1>2. UserIsAnswered'
    <2>1. ASSUME NEW u \in Users
          PROVE  \/ Empty(clients'[u.to]) /\ Got({})'
                 \/ clients'[u.to].proc = "dead" /\ clients'[u.to].chan = <<>>
                 \/ Whole(clients'[u.to], u.ctx) /\ Got({})' /\ u \notin Writers'
                 \/ Rest(clients'[u.to], u.ctx) /\ Got({u.ctx})' /\ u \notin Writers'
      BY <1>o, <1>u DEF Flow, UserIsAnswered, Older, Keeps
    <2> QED BY <2>1 DEF UserIsAnswered
  <1>3. WriterIsUser'
    BY <1>o, WritersThere DEF CBefore, Flow, WriterIsUser, Older
  <1> QED BY <1>1, <1>2, <1>3 DEF Flow

\* Nobody waits any more, and who did has a lost client.
LEMMA FlowUnused ==
    ASSUME CBefore, Flow, AllKeep, Users' = {}, Writers' \subseteq Writers,
           \A u \in Users : Lost(u.to)
    PROVE  Flow'
  <1>o. Older /\ \A k \in DOMAIN clients : Keeps(k)
    BY StepOlder DEF AllKeep
  <1>1. UnusedIsEmpty'
    BY <1>o DEF Flow, UnusedIsEmpty, Older
  <1>2. UserIsAnswered'
    BY DEF UserIsAnswered
  <1>3. WriterIsUser'
    <2>1. \A w \in Writers : w.to \in DOMAIN clients /\ clients[w.to].proc = "dead"
      BY WritersThere DEF CBefore, Flow, WriterIsUser, Lost
    <2> QED BY <1>o, <2>1 DEF WriterIsUser, Older
  <1> QED BY <1>1, <1>2, <1>3 DEF Flow

\* A prompt goes to a client nobody waits for.
LEMMA FlowPrompted ==
    ASSUME CBefore, Flow, Users = {}, NEW k \in DOMAIN clients, NEW p \in Prompts,
           clients[k].proc # "dead",
           clients' = [clients EXCEPT ![k].asked = Append(@, p)],
           Users' = {[ctx |-> p, to |-> k]}, Writers' = Writers, Got({})'
    PROVE  Flow'
  <1> DEFINE d == [clients[k] EXCEPT !.asked = Append(@, p)]
  <1>1. /\ Older /\ clients[k] \in Client /\ DOMAIN clients' = DOMAIN clients
        /\ clients' = [clients EXCEPT ![k] = d]
    BY StepOlder DEF Older
  <1>2. clients'[k] = d /\ \A j \in DOMAIN clients : j # k => clients'[j] = clients[j]
    BY <1>1
  <1>3. d \in Client /\ d.proc = clients[k].proc
    BY <1>1, <1>2 DEF Older, Client
  <1>4. Empty(clients[k])
    BY DEF Flow, UnusedIsEmpty, Lost
  <1>5. Whole(d, p)
    BY <1>1, <1>3, <1>4, BeginsAnswer
  <1> HIDE DEF d
  <1>6. \A w \in Writers : w.to \in DOMAIN clients /\ clients[w.to].proc = "dead"
    BY WritersThere DEF CBefore, Flow, WriterIsUser
  <1>7. UnusedIsEmpty'
    <2>1. ASSUME NEW j \in DOMAIN clients, j # k
          PROVE  clients'[j] = clients[j] /\ (Lost(j)' \/ Empty(clients'[j]))
      BY <1>2, <2>1 DEF Flow, UnusedIsEmpty, Lost
    <2>2. \E v \in Users' : v.to = k
      OBVIOUS
    <2> QED BY <1>1, <2>1, <2>2 DEF UnusedIsEmpty
  <1>8. UserIsAnswered'
    <2>1. [ctx |-> p, to |-> k] \notin Writers
      BY <1>6
    <2>2. \A u \in Users' : u.to = k /\ u.ctx = p /\ u \notin Writers'
      BY <2>1
    <2>3. Whole(clients'[k], p)
      BY <1>2, <1>5
    <2> QED BY <2>2, <2>3 DEF UserIsAnswered
  <1>9. WriterIsUser'
    BY <1>2, <1>3, <1>6 DEF WriterIsUser
  <1> QED BY <1>7, <1>8, <1>9 DEF Flow

\* A prompt is left to a goroutine, for a client nobody waits for.
LEMMA FlowHandedOver ==
    ASSUME CBefore, Flow, Users = {}, NEW k \in DOMAIN clients, NEW p \in Prompts,
           clients[k].connected, clients' = clients,
           Users' = {[ctx |-> p, to |-> k]},
           Writers' = Writers \cup {[ctx |-> p, to |-> k]}, Got({})'
    PROVE  Flow'
  <1>1. Empty(clients[k]) \/ (clients[k].proc = "dead" /\ clients[k].chan = <<>>)
    BY DEF Flow, UnusedIsEmpty, Lost
  <1>2. UnusedIsEmpty'
    BY DEF Flow, UnusedIsEmpty, Lost
  <1>3. UserIsAnswered'
    BY <1>1 DEF UserIsAnswered
  <1>4. WriterIsUser'
    <2>1. \A w \in Writers : clients[w.to].proc = "dead"
      BY DEF Flow, WriterIsUser
    <2> QED BY <2>1 DEF WriterIsUser
  <1> QED BY <1>2, <1>3, <1>4 DEF Flow

\* That goroutine writes, to the client of the user if at all.
LEMMA FlowWritten ==
    ASSUME CBefore, Flow, NEW w \in Writers, ~Broken(w.to),
           clients' = [clients EXCEPT ![w.to].asked = Append(@, w.ctx)],
           Users' = Users, Writers' = Writers \ {w}, \A x : Got(x) => Got(x)'
    PROVE  Flow'
  <1> DEFINE k == w.to
             d == [clients[k] EXCEPT !.asked = Append(@, w.ctx)]
  <1>1. /\ Older /\ k \in DOMAIN clients /\ w.ctx \in Prompts
        /\ clients[k] \in Client /\ clients[k].proc # "dead"
    BY StepOlder, WritersThere DEF Older, CBefore, Broken
  <1>2. DOMAIN clients' = DOMAIN clients /\ clients' = [clients EXCEPT ![k] = d]
    BY <1>1
  <1>3. clients'[k] = d /\ \A j \in DOMAIN clients : j # k => clients'[j] = clients[j]
    BY <1>1, <1>2
  <1>4. d \in Client /\ d.proc = clients[k].proc
    BY <1>1, <1>2, <1>3 DEF Older, Client
  <1>5. w \in Users /\ \A u \in Users : u = w
    BY <1>1, TurnUsers DEF CBefore, Flow, WriterIsUser
  <1>6. Empty(clients[k]) /\ Got({})
    BY <1>1, <1>5 DEF Flow, UserIsAnswered
  <1>7. Whole(d, w.ctx)
    BY <1>1, <1>4, <1>6, BeginsAnswer
  <1> HIDE DEF d
  <1>8. UnusedIsEmpty'
    <2>1. ASSUME NEW j \in DOMAIN clients, j # k
          PROVE  clients'[j] = clients[j] /\ (Lost(j)' \/ Empty(clients'[j]))
      BY <1>3, <1>5, <2>1 DEF Flow, UnusedIsEmpty, Lost
    <2> QED BY <1>2, <1>5, <2>1 DEF UnusedIsEmpty
  <1>9. UserIsAnswered'
    BY <1>3, <1>5, <1>6, <1>7 DEF UserIsAnswered
  <1>10. WriterIsUser'
    <2>1. \A v \in Writers : v.to \in DOMAIN clients
      BY WritersThere DEF CBefore
    <2> QED BY <1>3, <1>4, <2>1 DEF Flow, WriterIsUser
  <1> QED BY <1>8, <1>9, <1>10 DEF Flow

LEMMA WholeIsNotRest == ASSUME NEW c, NEW p PROVE ~(Whole(c, p) /\ Rest(c, p))
  <1>1. /\ <<p>> # <<>> /\ <<Part(p)>> # <<>> /\ <<Result(p)>> # <<>>
        /\ Head(<<Result(p)>>) = Result(p) /\ Head(<<Part(p), Result(p)>>) = Part(p)
        /\ Part(p) # Result(p)
    BY ShortSeqs DEF Part, Result
  <1> QED BY <1>1 DEF Whole, Rest

\* The process answers the prompt somebody waits for.
LEMMA FlowAnswered ==
    ASSUME CBefore, Flow, NEW k \in DOMAIN clients, CliAnswers(k),
           Users' = Users, Writers' = Writers, \A x : Got(x) => Got(x)'
    PROVE  Flow'
  <1> DEFINE c == clients[k]
             d == [c EXCEPT !.chan = Append(@, [ctx |-> Head(c.asked), result |-> c.parted]),
                            !.parted = ~@,
                            !.asked = IF c.parted THEN Tail(@) ELSE @]
  <1>1. c.proc # "dead" /\ c.asked # <<>> /\ clients' = [clients EXCEPT ![k] = d]
    BY DEF CliAnswers
  <1>2. Older /\ c \in Client /\ DOMAIN clients' = DOMAIN clients
    BY <1>1, StepOlder DEF Older
  <1>3. clients'[k] = d /\ \A j \in DOMAIN clients : j # k => clients'[j] = clients[j]
    BY <1>1, <1>2
  <1>4. d \in Client /\ d.proc = c.proc
    BY <1>2, <1>3 DEF Older, Client
  <1>5. PICK u \in Users : u.to = k
    BY <1>1 DEF Flow, UnusedIsEmpty, Lost, Empty
  <1>6. /\ u.ctx \in Prompts /\ \A v \in Users : v = u
        /\ u \notin Writers
        /\ \/ Whole(c, u.ctx) /\ Got({})
           \/ Rest(c, u.ctx) /\ Got({u.ctx})
    BY <1>1, <1>5, TurnUsers DEF CBefore, Flow, UserIsAnswered, Empty
  <1>7. IF Whole(c, u.ctx) THEN Whole(d, u.ctx) ELSE Rest(d, u.ctx)
    BY <1>1, <1>2, <1>4, <1>6, GivesAnswer DEF Answering
  <1>8. ~(Whole(c, u.ctx) /\ Rest(c, u.ctx))
    BY WholeIsNotRest
  <1> HIDE DEF d
  <1>9. UnusedIsEmpty'
    <2>1. ASSUME NEW j \in DOMAIN clients, j # k
          PROVE  clients'[j] = clients[j] /\ (Lost(j)' \/ Empty(clients'[j]))
      BY <1>3, <1>5, <1>6, <2>1 DEF Flow, UnusedIsEmpty, Lost
    <2> QED BY <1>2, <1>5, <2>1 DEF UnusedIsEmpty
  <1>10. UserIsAnswered'
    BY <1>3, <1>5, <1>6, <1>7, <1>8 DEF UserIsAnswered
  <1>11. WriterIsUser'
    <2>1. \A v \in Writers : v.to \in DOMAIN clients
      BY WritersThere DEF CBefore
    <2> QED BY <1>3, <1>4, <2>1 DEF Flow, WriterIsUser
  <1> QED BY <1>9, <1>10, <1>11 DEF Flow

\* The user takes a message: the part of the answer to its prompt, which it has
\* not yet, or the result, which ends the answer.
LEMMA TakenFacts ==
    ASSUME CBefore, Flow, NEW u \in Users, clients[u.to].chan # <<>>,
           clients' = [clients EXCEPT ![u.to].chan = Tail(@)]
    PROVE  LET c == clients[u.to]
               d == clients'[u.to]
           IN  /\ Older /\ u.to \in DOMAIN clients /\ DOMAIN clients' = DOMAIN clients
               /\ \A j \in DOMAIN clients : j # u.to => clients'[j] = clients[j]
               /\ d.proc = c.proc
               /\ u.ctx \in Prompts /\ u \notin Writers /\ \A v \in Users : v = u
               /\ Head(c.chan).ctx = u.ctx
               /\ IF Head(c.chan).result THEN Empty(d) /\ Got({u.ctx})
                                         ELSE Rest(d, u.ctx) /\ Got({})
  <1> DEFINE c == clients[u.to]
             d == [c EXCEPT !.chan = Tail(@)]
  <1>1. /\ Older /\ u.to \in DOMAIN clients /\ u.ctx \in Prompts
        /\ \A v \in Users : v = u
    BY StepOlder, TurnUsers DEF CBefore
  <1>2. c \in Client /\ DOMAIN clients' = DOMAIN clients /\ clients' = [clients EXCEPT ![u.to] = d]
    BY <1>1 DEF Older
  <1>3. clients'[u.to] = d /\ \A j \in DOMAIN clients : j # u.to => clients'[j] = clients[j]
    BY <1>1, <1>2
  <1>4. d \in Client /\ d.proc = c.proc
    BY <1>1, <1>2, <1>3 DEF Older, Client
  <1>5. /\ u \notin Writers
        /\ \/ Whole(c, u.ctx) /\ Got({})
           \/ Rest(c, u.ctx) /\ Got({u.ctx})
    BY DEF Flow, UserIsAnswered, Empty
  <1>6. /\ Head(c.chan).ctx = u.ctx
        /\ IF Head(c.chan).result THEN Rest(c, u.ctx) /\ Empty(d)
                                  ELSE Whole(c, u.ctx) /\ Rest(d, u.ctx)
    BY <1>1, <1>2, <1>4, <1>5, TakesAnswer DEF Answering
  <1>7. ~(Whole(c, u.ctx) /\ Rest(c, u.ctx))
    BY WholeIsNotRest
  <1> HIDE DEF d
  <1> QED BY <1>1, <1>2, <1>3, <1>4, <1>5, <1>6, <1>7

LEMMA FlowTaken ==
    ASSUME CBefore, Flow, NEW u \in Users, clients[u.to].chan # <<>>,
           clients' = [clients EXCEPT ![u.to].chan = Tail(@)], Writers' = Writers,
           IF Head(clients[u.to].chan).result
           THEN Users' = {}
           ELSE Users' = Users /\ Got({u.ctx})'
    PROVE  Flow'
  <1> DEFINE c == clients[u.to]
             d == clients'[u.to]
  <1>1. /\ Older /\ u.to \in DOMAIN clients /\ DOMAIN clients' = DOMAIN clients
        /\ \A j \in DOMAIN clients : j # u.to => clients'[j] = clients[j]
        /\ d.proc = c.proc
        /\ u \notin Writers /\ \A v \in Users : v = u
        /\ IF Head(c.chan).result THEN Empty(d) ELSE Rest(d, u.ctx)
    BY TakenFacts
  <1> HIDE DEF d
  <1>2. UnusedIsEmpty'
    <2>1. ASSUME NEW j \in DOMAIN clients, j # u.to
          PROVE  Lost(j)' \/ Empty(clients'[j])
      BY <1>1, <2>1 DEF Flow, UnusedIsEmpty, Lost
    <2>2. Empty(clients'[u.to]) \/ u \in Users'
      BY <1>1 DEF d
    <2> QED BY <1>1, <2>1, <2>2 DEF UnusedIsEmpty
  <1>3. UserIsAnswered'
    <2>1. CASE Head(c.chan).result
      BY <2>1 DEF UserIsAnswered
    <2>2. CASE ~Head(c.chan).result
      <3>1. /\ Users' = Users /\ Got({u.ctx})' /\ u \notin Writers'
            /\ Rest(clients'[u.to], u.ctx)
        BY <1>1, <2>2 DEF d
      <3> QED BY <1>1, <3>1 DEF UserIsAnswered
    <2> QED BY <2>1, <2>2
  <1>4. WriterIsUser'
    <2>1. ASSUME NEW w \in Writers
          PROVE  w.to \in DOMAIN clients /\ clients'[w.to].proc = "dead"
      <3>1. w.to \in DOMAIN clients /\ clients[w.to].proc = "dead"
        BY <1>1, WritersThere DEF CBefore, Flow, WriterIsUser
      <3> QED BY <1>1, <3>1 DEF d
    <2> QED BY <2>1 DEF WriterIsUser
  <1> QED BY <1>2, <1>3, <1>4 DEF Flow

-----------------------------------------------------------------------------
(* Prompts and answers: the inductive step.                                *)

\* The users before and after a step, from who waits.
LEMMA UsersChange ==
    ASSUME CBefore
    PROVE  /\ (\A l \in Msgs : \A u : Waits(l, u)' <=> Waits(l, u)) => Users' = Users
           /\ (\A l \in Msgs : \A u : ~Waits(l, u)) => Users = {}
           /\ (\A l \in Msgs : \A u : ~Waits(l, u)') => Users' = {}
           /\ \A l \in Msgs : \A u : Waits(l, u) => Users = {u}
           /\ \A l \in Msgs : \A u : Waits(l, u)' => Users' = {u}
  <1>1. /\ \A l \in Msgs : \A u : Waits(l, u) => u \in Users
        /\ \A u \in Users : \E l \in Msgs : Waits(l, u)
        /\ \A u, v \in Users : u = v
    BY TurnUsers DEF CBefore
  <1>2. CompTypes'
    BY StepTypes
  <1>3. /\ \A l \in Msgs : \A u : Waits(l, u)' => u \in Users'
        /\ \A u \in Users' : \E l \in Msgs : Waits(l, u)'
        /\ \A u, v \in Users' : u = v
    <2>1. (IInv /\ ClientsInv /\ CompTypes)' =>
              (/\ \A l \in Msgs : \A u : Waits(l, u) => u \in Users
               /\ \A u \in Users : /\ u.to \in DOMAIN clients /\ u.ctx \in Prompts
                                   /\ \E l \in Msgs : Waits(l, u)
               /\ \A u, v \in Users : u = v)'
      BY TurnUsers, PTL
    <2> QED BY <1>2, <2>1 DEF CBefore
  <1> HIDE DEF Users
  <1> QED BY <1>1, <1>3

\* Turns and their stage stay, and so does the compaction.
Unmoved ==
    /\ TurnsLast
    /\ UNCHANGED <<stage, with, phase, compacts, sending, telling, text>>

LEMMA UnmovedUsers ==
    ASSUME CBefore, Unmoved
    PROVE  /\ Users' = Users /\ Writers' = Writers
           /\ \A x : Got(x) <=> Got(x)'
           /\ TextIsWhole => TextIsWhole'
  <1>1. \A l \in Msgs : /\ pc'[l] = "turn" <=> pc[l] = "turn"
                        /\ pc[l] = "turn" => Ctx(l)' = Ctx(l)
    BY DEF Unmoved, TurnsLast, Ctx
  <1>2. \A l \in Msgs : \A u : Waits(l, u)' <=> Waits(l, u)
    BY <1>1 DEF Unmoved, Waits, SummaryOf, ContextOf
  <1>3. Users' = Users
    BY <1>2, UsersChange
  <1>4. Writers' = Writers
    BY DEF Unmoved, Writers
  <1>5. \A x : Got(x) <=> Got(x)'
    BY DEF Unmoved, Got
  <1>6. TextIsWhole => TextIsWhole'
    BY <1>1 DEF Unmoved, TextIsWhole, SummaryOf
  <1> QED BY <1>3, <1>4, <1>5, <1>6

\* Steps that have nothing to do with prompts and answers.
LEMMA FlowUnmoved ==
    ASSUME CBefore, Flow, TextIsWhole, AllKeep, Unmoved
    PROVE  Flow' /\ TextIsWhole'
  BY UnmovedUsers, FlowKept

LEMMA UserCallsFlow ==
    ASSUME CBefore, Flow, TextIsWhole, CStart \/ CCalls \/ ClearHistory
    PROVE  Flow' /\ TextIsWhole'
  <1>1. CASE CStart \/ CCalls
    <2>1. AdapterMove
      BY <1>1 DEF CStart, CCalls, AdapterMove, AdapterNext
    <2>2. AllKeep
      BY <1>1, <2>1, OthersKeep DEF CStart, CCalls, CBefore, Before
    <2>3. TurnsLast /\ UNCHANGED <<stage, with, sending>>
      <3>1. CASE AStart \/ AStop
        BY <3>1 DEF AStart, Start, loopVars, AStop, Stop, TurnsLast
      <3>2. CASE ~AStart /\ ~AStop
        BY <1>1, <2>1, <3>2, AsideSteps DEF CStart, CCalls, CBefore, Aside
      <3> QED BY <3>1, <3>2
    <2>4. UNCHANGED <<phase, compacts, telling, text>>
      BY <1>1 DEF CStart, CCalls, compVars, phaseVars, streamVars
    <2> QED BY <2>2, <2>3, <2>4, FlowUnmoved DEF Unmoved
  <1>2. CASE ClearHistory
    BY <1>2, FlowUnmoved DEF ClearHistory, adapterVars, vars, clientVars, phaseVars,
                             streamVars, AllKeep, Keeps, Unmoved, TurnsLast
  <1> QED BY <1>1, <1>2

LEMMA ReconnectFlow ==
    ASSUME CBefore, Flow, TextIsWhole, NEW t \in Msgs,
           CReconnectBegins(t) \/ CReconnectConnects(t) \/ CReconnectEnds(t)
    PROVE  Flow' /\ TextIsWhole'
  <1>1. ReconnectStep(t)
    BY DEF CReconnectBegins, CReconnectConnects, CReconnectEnds, ReconnectStep
  <1>2. Before
    BY <1>1 DEF CBefore, Before, AdapterMove, AdapterNext
  <1>3. AllKeep
    BY <1>1, <1>2, OthersKeep
  <1>4. UNCHANGED <<vars, stage, with, sending>>
    BY <1>1, <1>2, ReconnectSteps
  <1>5. UNCHANGED <<phase, compacts, telling, text>>
    BY DEF CReconnectBegins, CReconnectConnects, CReconnectEnds, compVars, phaseVars,
           streamVars
  <1> QED BY <1>3, <1>4, <1>5, FlowUnmoved DEF Unmoved, TurnsLast, vars

LEMMA ProcessFlow ==
    ASSUME CBefore, Flow, TextIsWhole, NEW k \in DOMAIN clients,
           CProcess(k) \/ CProcessDies(k)
    PROVE  Flow' /\ TextIsWhole'
  <1>1. Unmoved
    BY DEF CProcess, CProcessDies, CliAnswers, CliInterrupted, CliDies, vars, compVars,
           phaseVars, streamVars, Unmoved, TurnsLast
  <1>2. CASE CliAnswers(k)
    BY <1>1, <1>2, UnmovedUsers, FlowAnswered
  <1>3. CASE CliInterrupted(k) \/ CliDies(k)
    <2>1. Before
      BY <1>3 DEF CBefore, Before, AdapterMove, AdapterNext
    <2> QED BY <1>1, <1>3, <2>1, OthersKeep, FlowUnmoved
  <1> QED BY <1>2, <1>3 DEF CProcess, CProcessDies

\* A goroutine of QueryStream writes its prompt, or gives up.
LEMMA WritesFlow ==
    ASSUME CBefore, Flow, TextIsWhole,
           \/ \E s \in sending : StreamWrites(s) /\ UNCHANGED telling /\ CStreamWrites(s)
           \/ \E s \in telling : ContextWrites(s) /\ CStreamWrites(s)
    PROVE  Flow' /\ TextIsWhole'
  <1>1. /\ TurnsLast
        /\ UNCHANGED <<stage, with, phase, compacts, text>>
    BY DEF StreamWrites, ContextWrites, CStreamWrites, vars, phaseVars, TurnsLast
  <1>2. /\ Users' = Users /\ (\A x : Got(x) => Got(x)') /\ TextIsWhole'
    <2>1. \A l \in Msgs : /\ pc'[l] = "turn" <=> pc[l] = "turn"
                          /\ pc[l] = "turn" => Ctx(l)' = Ctx(l)
      BY <1>1 DEF TurnsLast, Ctx
    <2>2. \A l \in Msgs : \A u : Waits(l, u)' <=> Waits(l, u)
      BY <1>1, <2>1 DEF Waits, SummaryOf, ContextOf
    <2>3. (\A x : Got(x) => Got(x)') /\ TextIsWhole'
      BY <1>1, <2>1 DEF Got, TextIsWhole, SummaryOf
    <2> QED BY <2>2, <2>3, UsersChange
  <1>3. \E w \in Writers :
            /\ Writers' = Writers \ {w}
            /\ \/ clients' = clients
               \/ /\ ~Broken(w.to)
                  /\ clients' = [clients EXCEPT ![w.to].asked = Append(@, w.ctx)]
    <2>1. /\ \A s \in sending : s.ctx \in Msgs
          /\ \A s \in telling : s.ctx \in Msgs /\ s = [ctx |-> s.ctx, to |-> s.to]
      BY ClientIsThere, CompactsIsThere DEF CBefore, ClientsInv, CompTypes, CompTypeOK
    <2>2. ASSUME NEW s \in sending, NEW r \in telling
          PROVE  s # [ctx |-> ContextOf(r.ctx), to |-> r.to]
      BY <2>1, PromptsDiffer
    <2>3. ASSUME NEW s \in sending, StreamWrites(s), UNCHANGED telling
          PROVE  /\ s \in Writers /\ Writers' = Writers \ {s}
                 /\ \/ clients' = clients
                    \/ /\ ~Broken(s.to)
                       /\ clients' = [clients EXCEPT ![s.to].asked = Append(@, s.ctx)]
      <3>1. sending' = sending \ {s}
        BY <2>3 DEF StreamWrites
      <3>2. Writers' = Writers \ {s}
        BY <2>2, <2>3, <3>1 DEF Writers
      <3> QED BY <2>3, <3>2 DEF StreamWrites, Writers
    <2>4. ASSUME NEW s \in telling, ContextWrites(s), telling' = telling \ {s}
          PROVE  LET w == [ctx |-> ContextOf(s.ctx), to |-> s.to]
                 IN  /\ w \in Writers /\ Writers' = Writers \ {w}
                     /\ \/ clients' = clients
                        \/ /\ ~Broken(w.to)
                           /\ clients' = [clients EXCEPT ![w.to].asked = Append(@, w.ctx)]
      <3> DEFINE w == [ctx |-> ContextOf(s.ctx), to |-> s.to]
      <3>1. sending' = sending
        BY <2>4 DEF ContextWrites
      <3>2. \A r \in telling : [ctx |-> ContextOf(r.ctx), to |-> r.to] = w => r = s
        BY <2>1, PromptsDiffer
      <3>3. Writers' = Writers \ {w}
        BY <2>2, <2>4, <3>1, <3>2 DEF Writers
      <3>4. \/ clients' = clients
            \/ /\ ~Broken(w.to)
               /\ clients' = [clients EXCEPT ![w.to].asked = Append(@, w.ctx)]
        BY <2>4 DEF ContextWrites
      <3> QED BY <3>3, <3>4 DEF Writers
    <2> QED BY <2>3, <2>4 DEF ContextWrites
  <1>4. CASE clients' = clients
    <2>1. AllKeep
      BY <1>4 DEF AllKeep, Keeps
    <2> QED BY <1>2, <1>3, <2>1, FlowKept
  <1> QED BY <1>2, <1>3, <1>4, FlowWritten

\* Nobody waits before a step or after it.
LEMMA NobodyWaits ==
    ASSUME CBefore, Flow, TextIsWhole, AllKeep, Writers' \subseteq Writers,
           stage \in {"idle", "begun", "query"}, stage' \in {"idle", "begun", "query"},
           phase \notin {"asked", "summary", "told", "ack"},
           phase' \notin {"asked", "summary", "told", "ack"}
    PROVE  Flow'
  <1>1. (\A l \in Msgs : \A u : ~Waits(l, u)) /\ (\A l \in Msgs : \A u : ~Waits(l, u)')
    BY DEF Waits
  <1> QED BY <1>1, UsersChange, FlowUnused

\* The turn, but for its messages.
LEMMA TurnFlow ==
    ASSUME CBefore, Flow, TextIsWhole, Uncut', NEW l \in Msgs,
           CTakesClient(l) \/ CQueries(l) \/ CLoop(l)
    PROVE  Flow' /\ TextIsWhole'
  <1>b. Before
    <2>1. ALoopStep(l)
      BY DEF CTakesClient, CQueries, CLoop, ALoopStep, TurnStep
    <2> QED BY <2>1 DEF CBefore, Before, AdapterMove, AdapterNext
  <1>p. CTakesClient(l) \/ CQueries(l) \/ ABeginTurn(l) \/ Listens(l) \/ ReceiveClosed(l)
            => phase = "none"
    BY CompactingStays
  <1>1. CASE CTakesClient(l)
    <2>1. AllKeep
      BY <1>1, <1>b, OthersKeep DEF CTakesClient
    <2>2. /\ stage = "begun" /\ stage' = "query" /\ phase = "none"
          /\ phase' \in {"none", "begun"} /\ text' = {} /\ Writers' = Writers
      BY <1>1, <1>p DEF CTakesClient, TakesClient, streamVars, Writers
    <2> QED BY <2>1, <2>2, NobodyWaits DEF TextIsWhole
  <1>2. CASE CQueries(l) /\ (QueryTextFails(l) \/ QueryStreamFails(l))
    <2>1. AllKeep
      BY <1>2, <1>b, OthersKeep
    <2>2. /\ stage = "query" /\ stage' = "idle" /\ phase = "none"
          /\ phase' = "none" /\ Writers' = Writers
      BY <1>2, <1>p DEF CQueries, QueryTextFails, QueryStreamFails, Ends, compVars,
                        phaseVars, streamVars, Writers
    <2> QED BY <2>1, <2>2, NobodyWaits DEF TextIsWhole
  <1>3. CASE CQueries(l) /\ QueryText(l)
    <2>1. /\ pc[l] = "turn" /\ stage = "query" /\ stage' = "asked" /\ phase = "none"
          /\ ~Broken(with) /\ UNCHANGED <<vars, with, phase, text, sending, telling>>
          /\ clients' = [clients EXCEPT ![with].asked = Append(@, Ctx(l))]
      BY <1>3, <1>p DEF CQueries, QueryText, compVars, phaseVars, streamVars
    <2>2. with \in DOMAIN clients /\ Ctx(l) \in Prompts /\ Ctx(l)' = Ctx(l)
      BY <2>1, ClientIsThere, TurnHasContext, PromptsDiffer
         DEF CBefore, ClientsInv, AdapterTypeOK, Ctx, vars
    <2>3. \A m \in Msgs : \A u : ~Waits(m, u)
      BY <2>1 DEF Waits
    <2>4. Waits(l, [ctx |-> Ctx(l), to |-> with])'
      BY <2>1, <2>2 DEF Waits, vars
    <2>5. /\ Users = {} /\ Users' = {[ctx |-> Ctx(l), to |-> with]}
          /\ Writers' = Writers /\ Got({})' /\ TextIsWhole'
      BY <2>1, <2>2, <2>3, <2>4, UsersChange DEF Writers, Got, TextIsWhole
    <2> QED BY <2>1, <2>2, <2>5, FlowPrompted DEF Broken
  <1>4. CASE CQueries(l) /\ QueryStream(l)
    <2>1. /\ pc[l] = "turn" /\ stage = "query" /\ stage' = "asked" /\ phase = "none"
          /\ clients[with].connected /\ UNCHANGED <<vars, with, phase, text, telling, clients>>
          /\ sending' = sending \cup {[ctx |-> Ctx(l), to |-> with]}
      BY <1>4, <1>p DEF CQueries, QueryStream, compVars, phaseVars, streamVars
    <2>2. with \in DOMAIN clients /\ Ctx(l) \in Prompts /\ Ctx(l)' = Ctx(l)
      BY <2>1, ClientIsThere, TurnHasContext, PromptsDiffer
         DEF CBefore, ClientsInv, AdapterTypeOK, Ctx, vars
    <2>3. \A m \in Msgs : \A u : ~Waits(m, u)
      BY <2>1 DEF Waits
    <2>4. Waits(l, [ctx |-> Ctx(l), to |-> with])'
      BY <2>1, <2>2 DEF Waits, vars
    <2>5. /\ Users = {} /\ Users' = {[ctx |-> Ctx(l), to |-> with]}
          /\ Writers' = Writers \cup {[ctx |-> Ctx(l), to |-> with]}
          /\ Got({})' /\ TextIsWhole'
      BY <2>1, <2>2, <2>3, <2>4, UsersChange DEF Writers, Got, TextIsWhole
    <2> QED BY <2>1, <2>2, <2>5, FlowHandedOver
  <1>5. CASE CLoop(l) /\ ABeginTurn(l)
    <2>1. AllKeep
      BY <1>5, <1>b, OthersKeep
    <2>2. /\ stage' = "begun" /\ phase = "none" /\ phase' = "none" /\ Writers' = Writers
      BY <1>5, <1>p DEF CLoop, ABeginTurn, compVars, phaseVars, streamVars, Writers
    <2>3. stage = "idle"
      BY <1>5, TurnHasContext DEF ABeginTurn, BeginTurn, CBefore, CompTypes, StageOfTurn
    <2> QED BY <2>1, <2>2, <2>3, NobodyWaits DEF TextIsWhole
  <1>6. CASE CLoop(l) /\ (ASkipTurn(l) \/ ALoop(l))
    <2>1. AllKeep
      BY <1>6, <1>b, OthersKeep
    <2>2. Unmoved
      BY <1>6, <1>b, AsideSteps DEF Before, Aside, CLoop, compVars, phaseVars, streamVars,
                                    Unmoved
    <2> QED BY <2>1, <2>2, FlowUnmoved
  <1>7. CASE CLoop(l) /\ Listens(l)
    <2>1. AllKeep
      BY <1>7, <1>b, OthersKeep
    <2>2. /\ stage = "asked" /\ stage' = "receive" /\ phase = "none"
          /\ UNCHANGED <<vars, with, phase, compacts, text, sending, telling>>
      BY <1>7, <1>p DEF CLoop, Listens, compVars, phaseVars, streamVars
    <2>3. \A m \in Msgs : \A u : Waits(m, u)' <=> Waits(m, u)
      BY <2>2 DEF Waits, Ctx, vars, SummaryOf, ContextOf
    <2>4. /\ Users' = Users /\ Writers' = Writers /\ TextIsWhole'
          /\ \A x : Got(x) => Got(x)'
      BY <2>2, <2>3, UsersChange DEF Writers, Got, TextIsWhole
    <2> QED BY <2>1, <2>4, FlowKept
  <1>8. CASE CLoop(l) /\ ReceiveCancelled(l)
    <2>1. outcome' = [outcome EXCEPT ![Ctx(l)] = "cancelled"] /\ pc[l] = "turn"
      BY <1>8 DEF ReceiveCancelled, Receiving, Ends
    <2>2. Ctx(l) \in Msgs
      BY <2>1, TurnHasContext DEF CBefore
    <2> QED BY <1>b, <2>1, <2>2, BeforeFacts DEF Uncut
  <1>9. CASE CLoop(l) /\ ReceiveClosed(l)
    <2>1. AllKeep
      BY <1>9, <1>b, OthersKeep
    <2>2. /\ SeesClosed(l) /\ stage' = "idle" /\ phase = "none" /\ phase' = "none"
          /\ Writers' = Writers
      BY <1>9, <1>p DEF CLoop, ReceiveClosed, Ends, compVars, phaseVars, streamVars, Writers
    <2>3. Lost(with)
      BY <2>2, ClosedIsDead DEF CBefore, SeesClosed, Incoming, Lost
    <2>4. Waits(l, [ctx |-> Ctx(l), to |-> with]) /\ \A m \in Msgs : \A u : ~Waits(m, u)'
      BY <2>2 DEF SeesClosed, Receiving, Waits
    <2>5. Users = {[ctx |-> Ctx(l), to |-> with]} /\ Users' = {}
      BY <2>4, UsersChange
    <2> QED BY <2>1, <2>2, <2>3, <2>5, FlowUnused DEF TextIsWhole
  <1> QED BY <1>1, <1>2, <1>3, <1>4, <1>5, <1>6, <1>7, <1>8, <1>9 DEF CQueries, CLoop

\* The turn takes a part of its answer, or the result.
LEMMA ReceiveFlow ==
    ASSUME CBefore, Flow, TextIsWhole, NEW l \in Msgs, CReceivePart(l) \/ CReceiveResult(l)
    PROVE  /\ Flow' /\ TextIsWhole'
           /\ Head(Incoming).result => text \subseteq {Ctx(l)}
  <1> DEFINE c == clients[with]
  <1>1. /\ pc[l] = "turn" /\ stage = "receive" /\ phase = "none" /\ phase' = "none"
        /\ c.chan # <<>> /\ clients' = [clients EXCEPT ![with].chan = Tail(@)]
        /\ Writers' = Writers /\ UNCHANGED <<turn, with, compacts>>
        /\ CReceiveResult(l) => Head(c.chan).result /\ stage' = "idle"
        /\ CReceivePart(l) =>
               ~Head(c.chan).result /\ UNCHANGED <<pc, stage>>
                   /\ text' \in {text, text \cup {Head(c.chan).ctx}}
    BY CompactingStays DEF CReceivePart, ReceivePart, CReceiveResult, ReceiveResult,
       Receiving, Incoming, Ends, EndTurn, vars, phaseVars, streamVars, Writers
  <1>2. Waits(l, [ctx |-> Ctx(l), to |-> with])
    BY <1>1 DEF Waits
  <1>3. PICK u \in Users : Users = {u} /\ u.ctx = Ctx(l) /\ u.to = with
    BY <1>2, UsersChange
  <1>4. /\ Head(c.chan).ctx = u.ctx
        /\ Head(c.chan).result => text \subseteq {u.ctx}
        /\ ~Head(c.chan).result => text = {}
    BY <1>1, <1>3, TakenFacts DEF Got
  <1>5. CASE Head(c.chan).result
    <2>1. \A m \in Msgs : \A v : ~Waits(m, v)'
      BY <1>1, <1>5 DEF Waits
    <2>2. Users' = {} /\ TextIsWhole'
      BY <1>1, <1>5, <2>1, UsersChange DEF TextIsWhole
    <2>3. Flow'
      BY <1>1, <1>3, <1>5, <2>2, FlowTaken
    <2> QED BY <1>3, <1>4, <2>2, <2>3 DEF Incoming
  <1>6. CASE ~Head(c.chan).result
    <2>1. \A m \in Msgs : \A v : Waits(m, v)' <=> Waits(m, v)
      BY <1>1, <1>6 DEF Waits, Ctx, SummaryOf, ContextOf
    <2>2. Users' = Users /\ TextIsWhole'
      BY <1>1, <1>4, <1>6, <2>1, UsersChange DEF TextIsWhole
    <2>3. Got({u.ctx})'
      BY <1>1, <1>4, <1>6 DEF Got
    <2>4. Flow'
      BY <1>1, <1>3, <1>6, <2>2, <2>3, FlowTaken
    <2> QED BY <1>6, <2>2, <2>4 DEF Incoming
  <1> QED BY <1>5, <1>6

\* The steps of a compaction between which nobody waits.
LEMMA QuietFlow ==
    ASSUME CBefore, Flow, TextIsWhole, NEW l \in Msgs,
           \/ CompactCopies(l) \/ SummaryQueryFails(l) \/ BacksOff(l) \/ Resets(l)
           \/ CompactReturns(l)
           \/ ContextQuery(l) /\ ~clients[compacts].connected
    PROVE  Flow' /\ TextIsWhole'
  <1>1. UNCHANGED adapterVars /\ phase # "none"
    BY InwardLeaves DEF Inward
  <1>2. stage = "query" /\ stage' = "query" /\ AllKeep
    BY <1>1, CompactingStays DEF adapterVars, clientVars, AllKeep, Keeps
  <1>3. /\ phase \in {"begun", "query", "backOff", "reset", "context", "done"}
        /\ phase' \in {"query", "backOff", "done", "context", "none"}
        /\ UNCHANGED telling
        /\ IF phase = "reset" THEN text' = {} ELSE UNCHANGED text
    BY DEF CompactCopies, SummaryQueryFails, BacksOff, Resets, CompactReturns,
           ContextQuery, In, streamVars
  <1>4. Writers' = Writers
    BY <1>1, <1>3 DEF adapterVars, clientVars, Writers
  <1>5. Flow'
    BY <1>2, <1>3, <1>4, NobodyWaits
  <1> QED BY <1>2, <1>3, <1>5 DEF TextIsWhole

\* A prompt of the compaction.
LEMMA PromptFlow ==
    ASSUME CBefore, Flow, TextIsWhole, NEW l \in Msgs,
           SummaryQuery(l) \/ (ContextQuery(l) /\ clients[compacts].connected)
    PROVE  Flow' /\ TextIsWhole'
  <1>1. pc[l] = "turn" /\ phase \in {"query", "context"}
    BY DEF SummaryQuery, ContextQuery, In
  <1>2. /\ compacts \in DOMAIN clients /\ Ctx(l) \in Msgs
        /\ SummaryOf(Ctx(l)) \in Prompts /\ ContextOf(Ctx(l)) \in Prompts
        /\ stage = "query" /\ text = {}
    BY <1>1, CompactsIsThere, TurnHasContext, PromptsDiffer, CompactingStays
       DEF CBefore, TextIsWhole
  <1>3. UNCHANGED <<pc, turn, sending, compacts, text>>
    BY InwardLeaves DEF Inward, SummaryQuery, ContextQuery, adapterVars, clientVars, vars
  <1>4. Ctx(l)' = Ctx(l) /\ \A m \in Msgs : \A u : ~Waits(m, u)
    BY <1>1, <1>2, <1>3 DEF Ctx, Waits
  <1>5. CASE SummaryQuery(l)
    <2>1. /\ phase' = "asked" /\ telling' = telling /\ ~Broken(compacts)
          /\ clients' = [clients EXCEPT ![compacts].asked = Append(@, SummaryOf(Ctx(l)))]
      BY <1>5 DEF SummaryQuery, streamVars
    <2>2. Waits(l, [ctx |-> SummaryOf(Ctx(l)), to |-> compacts])'
      BY <1>1, <1>3, <1>4, <2>1 DEF Waits, SummaryOf
    <2>3. /\ Users = {} /\ Users' = {[ctx |-> SummaryOf(Ctx(l)), to |-> compacts]}
          /\ Writers' = Writers /\ Got({})' /\ TextIsWhole'
      BY <1>2, <1>3, <1>4, <2>1, <2>2, UsersChange DEF Writers, Got, TextIsWhole, SummaryOf
    <2> QED BY <1>2, <2>1, <2>3, FlowPrompted DEF Broken
  <1>6. CASE ContextQuery(l) /\ clients[compacts].connected
    <2>1. /\ phase' = "told" /\ clients' = clients
          /\ telling' = telling \cup {[ctx |-> Ctx(l), to |-> compacts]}
      BY <1>6 DEF ContextQuery, adapterVars, clientVars
    <2>2. Waits(l, [ctx |-> ContextOf(Ctx(l)), to |-> compacts])'
      BY <1>1, <1>3, <1>4, <2>1 DEF Waits, ContextOf
    <2>3. /\ Users = {} /\ Users' = {[ctx |-> ContextOf(Ctx(l)), to |-> compacts]}
          /\ Writers' = Writers \cup {[ctx |-> ContextOf(Ctx(l)), to |-> compacts]}
      <3>1. Users = {} /\ Users' = {[ctx |-> ContextOf(Ctx(l)), to |-> compacts]}
        BY <1>3, <1>4, <2>2, UsersChange DEF ContextOf
      <3>2. \A w : w \in Writers' <=>
                w \in Writers \/ w = [ctx |-> ContextOf(Ctx(l)), to |-> compacts]
        <4> DEFINE Told(s) == [ctx |-> ContextOf(s.ctx), to |-> s.to]
        <4>1. Writers = sending \cup {Told(s) : s \in telling}
          BY DEF Writers
        <4>2. Writers' = sending' \cup {Told(s) : s \in telling'}
          BY DEF Writers, ContextOf
        <4>3. Told([ctx |-> Ctx(l), to |-> compacts])
                  = [ctx |-> ContextOf(Ctx(l)), to |-> compacts]
          OBVIOUS
        <4> HIDE DEF Told
        <4> QED BY <1>3, <2>1, <4>1, <4>2, <4>3
      <3> QED BY <3>1, <3>2
    <2>4. Got({})' /\ TextIsWhole'
      BY <1>2, <1>3, <2>1 DEF Got, TextIsWhole
    <2>5. Flow'
      BY <1>2, <1>6, <2>1, <2>3, <2>4, FlowHandedOver
    <2> QED BY <2>4, <2>5
  <1> QED BY <1>5, <1>6

\* compactSession gets the channel, or a closed one, or sees its end.
LEMMA ListenFlow ==
    ASSUME CBefore, Flow, TextIsWhole, ~spoilt', NEW l \in Msgs,
           CompactListens(l) \/ AckEnds(l)
    PROVE  Flow' /\ TextIsWhole'
  <1>1. UNCHANGED adapterVars /\ phase # "none" /\ pc[l] = "turn"
    BY InwardLeaves DEF Inward
  <1>2. /\ stage = "query" /\ stage' = "query" /\ AllKeep
        /\ UNCHANGED <<pc, turn, with, sending, clients>>
    BY <1>1, CompactingStays DEF adapterVars, vars, clientVars, AllKeep, Keeps
  <1>3. UNCHANGED <<compacts, telling, text>> /\ phase' # "reset"
    BY DEF CompactListens, AckEnds, In, streamVars, phaseVars
  <1>4. Writers' = Writers
    BY <1>2, <1>3 DEF Writers
  <1>5. CASE phase' \in {"summary", "ack"}
    <2>1. \/ phase = "asked" /\ phase' = "summary"
          \/ phase = "told" /\ phase' = "ack"
      BY <1>5 DEF CompactListens, AckEnds, In
    <2>2. \A m \in Msgs : \A u : Waits(m, u)' <=> Waits(m, u)
      BY <1>2, <1>3, <2>1 DEF Waits, Ctx, SummaryOf, ContextOf
    <2>3. /\ Users' = Users /\ TextIsWhole'
          /\ \A x : Got(x) => Got(x)'
      BY <1>2, <1>3, <2>1, <2>2, UsersChange DEF Got, TextIsWhole
    <2> QED BY <1>2, <1>4, <2>3, FlowKept
  <1>6. CASE phase' \notin {"summary", "ack"}
    <2>1. /\ phase' = "done" /\ phase \in {"told", "ack"}
          /\ ~clients[compacts].connected \/ Ended
      BY <1>3, <1>6 DEF CompactListens, AckEnds, In
    <2>2. Lost(compacts)
      BY <2>1, CompactsIsThere DEF CBefore, ClientsInv, LivesInOpen, Lost, Ended
    <2>3. /\ Waits(l, [ctx |-> ContextOf(Ctx(l)), to |-> compacts])
          /\ \A m \in Msgs : \A u : ~Waits(m, u)'
      BY <1>1, <1>2, <2>1 DEF Waits
    <2>4. Users = {[ctx |-> ContextOf(Ctx(l)), to |-> compacts]} /\ Users' = {}
      BY <2>3, UsersChange
    <2>5. TextIsWhole'
      BY <1>2, <1>3, <2>1 DEF TextIsWhole
    <2> QED BY <1>2, <1>4, <2>2, <2>4, <2>5, FlowUnused
  <1> QED BY <1>5, <1>6

\* compactSession takes a part of an answer, or the result.
LEMMA TakesFlow ==
    ASSUME CBefore, Flow, TextIsWhole, ~spoilt', NEW l \in Msgs,
           SummaryMessage(l) \/ AckMessage(l)
    PROVE  Flow' /\ TextIsWhole'
  <1> DEFINE c == clients[compacts]
             p == IF phase = "summary" THEN SummaryOf(Ctx(l)) ELSE ContextOf(Ctx(l))
  <1>1. /\ pc[l] = "turn" /\ phase \in {"summary", "ack"} /\ c.chan # <<>>
        /\ clients' = [clients EXCEPT ![compacts].chan = Tail(@)]
        /\ UNCHANGED <<pc, turn, with, stage, sending, telling, compacts>>
    BY DEF SummaryMessage, AckMessage, CompactTakes, In, vars, streamVars
  <1>2. /\ phase' = IF Head(c.chan).result
                    THEN IF phase = "summary" THEN "reset" ELSE "done" ELSE phase
        /\ IF phase = "summary" /\ ~Head(c.chan).result
           THEN text' \in {text, text \cup {Head(c.chan).ctx}} ELSE text' = text
        /\ phase = "summary" /\ Head(c.chan).result => text # {}
    BY DEF SummaryMessage, CollectsText, AckMessage, In, NextMessage
  <1>3. stage = "query" /\ Writers' = Writers
    BY <1>1, CompactingStays DEF Writers
  <1>4. Waits(l, [ctx |-> p, to |-> compacts])
    BY <1>1 DEF Waits
  <1>5. PICK u \in Users : Users = {u} /\ u.ctx = p /\ u.to = compacts
    BY <1>4, UsersChange
  <1>6. /\ Head(c.chan).ctx = u.ctx
        /\ phase = "summary" => text \subseteq IF Head(c.chan).result THEN {u.ctx} ELSE {}
    BY <1>1, <1>5, TakenFacts DEF Got
  <1>7. CASE Head(c.chan).result
    <2>1. \A m \in Msgs : \A v : ~Waits(m, v)'
      BY <1>1, <1>2, <1>3, <1>7 DEF Waits
    <2>2. Users' = {}
      BY <2>1, UsersChange
    <2>3. TextIsWhole'
      <3>1. \A m \in Msgs : pc[m] = "turn" => m = l
        BY <1>1, TurnHasContext DEF CBefore
      <3> QED BY <1>1, <1>2, <1>3, <1>5, <1>6, <1>7, <3>1 DEF TextIsWhole, Ctx, SummaryOf
    <2> QED BY <1>1, <1>3, <1>5, <1>7, <2>2, <2>3, FlowTaken
  <1>8. CASE ~Head(c.chan).result
    <2>1. \A m \in Msgs : \A v : Waits(m, v)' <=> Waits(m, v)
      BY <1>1, <1>2, <1>8 DEF Waits, Ctx, SummaryOf, ContextOf
    <2>2. Users' = Users
      BY <2>1, UsersChange
    <2>3. Got({u.ctx})' /\ TextIsWhole'
      BY <1>1, <1>2, <1>3, <1>6, <1>8 DEF Got, TextIsWhole
    <2> QED BY <1>1, <1>3, <1>5, <1>8, <2>2, <2>3, FlowTaken
  <1> QED BY <1>7, <1>8

\* Every step.
LEMMA StepFlow ==
    ASSUME CBefore, Flow, TextIsWhole, ~spoilt', Uncut'
    PROVE  Flow' /\ TextIsWhole'
  <1>1. ASSUME NEW l \in Msgs, SummaryEnds(l) PROVE FALSE
    BY <1>1 DEF SummaryEnds
  <1> QED BY <1>1, UserCallsFlow, TurnFlow, ReceiveFlow, PromptFlow, TakesFlow, QuietFlow,
             ListenFlow, ReconnectFlow, WritesFlow, ProcessFlow, StepsApart
          DEF CBefore, Inward

\* What was cut short, or spoilt, stays so.
LEMMA UncutWas ==
    ASSUME CBefore
    PROVE  /\ Uncut' => Uncut
           /\ ~spoilt' => ~spoilt
  <1>1. Uncut' => Uncut
    BY StepMoves, UncutBefore DEF CBefore, Before, Uncut, adapterVars, clientVars
  <1>2. ASSUME NEW l \in Msgs, Inward(l) PROVE ~spoilt' => ~spoilt
    BY <1>2 DEF Inward, CompactCopies, SummaryQueryFails, BacksOff, CompactListens,
       SummaryEnds, Resets, ContextQuery, AckEnds, CompactReturns, phaseVars
  <1>3. ASSUME NEW l \in Msgs, SummaryMessage(l) PROVE ~spoilt' => ~spoilt
    BY <1>3 DEF SummaryMessage
  <1>4. ASSUME ~\E l \in Msgs : Inward(l), ~\E l \in Msgs : SummaryMessage(l)
        PROVE  spoilt' = spoilt
    BY <1>4, StepsApart DEF CBefore, CStart, CCalls, ClearHistory, CTakesClient,
       CQueries, CLoop, CReceivePart, CReceiveResult, SummaryQuery, AckMessage,
       CReconnectBegins, CReconnectConnects, CReconnectEnds, CStreamWrites, CProcess,
       CProcessDies, compVars, phaseVars
  <1> QED BY <1>1, <1>2, <1>3, <1>4

LEMMA StepExchange == ASSUME CBefore, ExchangeInv PROVE ExchangeInv'
  BY UncutWas, StepFlow DEF ExchangeInv

-----------------------------------------------------------------------------
(* The conversation: the inductive step.                                   *)

LEMMA StepCopy == ASSUME CBefore, CopyIsHistory PROVE CopyIsHistory'
  <1> SUFFICES ASSUME clears' = 0, CopyIsOut' PROVE copied' = MessagesOf(history')
    BY DEF CopyIsHistory, MessagesOf
  <1>c. /\ ~ClearHistory
        /\ CopyIsOut => copied = MessagesOf(history)
    BY StepClears DEF CopyIsHistory
  <1>1. CASE UNCHANGED <<history, copied, phase>>
    BY <1>c, <1>1 DEF CopyIsOut
  <1>2. ASSUME NEW l \in Msgs, CTakesClient(l) \/ CReceiveResult(l) PROVE FALSE
    BY <1>2, CompactingStays DEF CTakesClient, CReceiveResult, phaseVars, CopyIsOut
  <1>3. ASSUME NEW l \in Msgs, CompactCopies(l) PROVE copied' = MessagesOf(history')
    BY <1>3 DEF CompactCopies, historyVars
  <1>4. ASSUME NEW l \in Msgs, Resets(l) PROVE FALSE
    BY <1>4 DEF Resets, CopyIsOut
  <1>5. ASSUME NEW l \in Msgs,
               \/ SummaryQuery(l) \/ SummaryQueryFails(l) \/ BacksOff(l)
               \/ CompactListens(l) \/ SummaryEnds(l) \/ ContextQuery(l)
               \/ AckEnds(l) \/ CompactReturns(l) \/ SummaryMessage(l) \/ AckMessage(l)
        PROVE  copied' = MessagesOf(history')
    <2>1. UNCHANGED <<history, copied>>
      BY <1>5 DEF SummaryQuery, SummaryQueryFails, BacksOff, CompactListens, SummaryEnds,
         ContextQuery, AckEnds, CompactReturns, SummaryMessage, AckMessage, historyVars,
         phaseVars
    <2>2. CopyIsOut
      BY <1>5 DEF SummaryQuery, SummaryQueryFails, BacksOff, CompactListens, SummaryEnds,
         ContextQuery, AckEnds, CompactReturns, SummaryMessage, AckMessage, In, CopyIsOut,
         phaseVars
    <2> QED BY <1>c, <2>1, <2>2
  <1> QED BY <1>c, <1>1, <1>2, <1>3, <1>4, <1>5, StepsApart
          DEF CBefore, Inward, CStart, CCalls, CQueries, CLoop, CReceivePart,
              CReconnectBegins, CReconnectConnects, CReconnectEnds, CStreamWrites,
              CProcess, CProcessDies, compVars, historyVars, phaseVars

\* No message leaves the history, and every answer that comes stands behind its
\* message.
LEMMA HistoryGrows ==
    ASSUME CBefore, Flow, TextIsWhole, CopyIsHistory, clears' = 0, AnswersAreOwn,
           TurnIsLast
    PROVE  MessagesOf(history) \subseteq MessagesOf(history') /\ AnswersAreOwn'
  <1>d. Data /\ ~ClearHistory /\ (CopyIsOut => copied = MessagesOf(history))
    BY TypesData, StepClears DEF CBefore, CopyIsHistory
  <1>1. CASE history' = history
    BY <1>1 DEF AnswersAreOwn
  <1>2. ASSUME NEW e \in Entry, history' = Append(history, e),
               e.kind = "answer" => /\ history # <<>>
                                    /\ \E t \in history[Len(history)].of : e.of \subseteq {t}
        PROVE  MessagesOf(history) \subseteq MessagesOf(history') /\ AnswersAreOwn'
    <2>1. MessagesOf(Append(history, e)) = MessagesOf(history) \cup Adds(e)
      BY <1>d, MessagesAppended DEF Data
    <2>2. history \in Seq(Entry)
      BY <1>d DEF Data
    <2>3. ASSUME NEW i \in DOMAIN history', history'[i].kind = "answer"
          PROVE  i > 1 /\ \E t \in history'[i - 1].of : history'[i].of \subseteq {t}
      <3>1. CASE i \in DOMAIN history
        <4>1. history'[i] = history[i] /\ (i > 1 => history'[i - 1] = history[i - 1])
          BY <1>2, <2>2, <3>1
        <4> QED BY <2>3, <3>1, <4>1 DEF AnswersAreOwn
      <3>2. CASE i \notin DOMAIN history
        <4>1. i = Len(history) + 1 /\ history'[i] = e
          BY <1>2, <2>2, <3>2
        <4>2. history # <<>> /\ \E t \in history[Len(history)].of : e.of \subseteq {t}
          BY <1>2, <2>3, <4>1
        <4>3. i > 1 /\ history'[i - 1] = history[Len(history)]
          BY <1>2, <2>2, <4>1, <4>2
        <4> QED BY <4>1, <4>2, <4>3
      <3> QED BY <3>1, <3>2
    <2> QED BY <1>2, <2>1, <2>3 DEF AnswersAreOwn
  <1>3. ASSUME NEW l \in Msgs, CTakesClient(l)
        PROVE  MessagesOf(history) \subseteq MessagesOf(history') /\ AnswersAreOwn'
    <2> DEFINE e == [kind |-> "message", of |-> Range(turn[l])]
    <2>1. Range(turn[l]) \subseteq Prompts
      BY HeldWasSent, PromptsDiffer DEF CBefore, IInv
    <2>2. e \in Entry /\ e.kind # "answer" /\ history' = Append(history, e)
      BY <1>3, <2>1 DEF CTakesClient, Entry, Kinds
    <2> HIDE DEF e
    <2> QED BY <1>2, <2>2
  <1>4. ASSUME NEW l \in Msgs, CReceiveResult(l)
        PROVE  MessagesOf(history) \subseteq MessagesOf(history') /\ AnswersAreOwn'
    <2> DEFINE e == [kind |-> "answer", of |-> text]
    <2>1. text \subseteq {Ctx(l)} /\ Ctx(l) \in Msgs
      BY <1>4, ReceiveFlow, TurnHasContext
         DEF CReceiveResult, ReceiveResult, Receiving, CBefore
    <2>2. history # <<>> /\ Ctx(l) \in history[Len(history)].of
      BY <1>4 DEF CReceiveResult, ReceiveResult, Receiving, TurnIsLast
    <2>3. e \in Entry /\ e.of \subseteq {Ctx(l)}
      BY <2>1, PromptsDiffer DEF Entry, Kinds
    <2>4. history' = history \/ history' = Append(history, e)
      BY <1>4 DEF CReceiveResult
    <2> HIDE DEF e
    <2> QED BY <1>1, <1>2, <2>2, <2>3, <2>4
  <1>5. ASSUME NEW l \in Msgs, Resets(l)
        PROVE  MessagesOf(history) \subseteq MessagesOf(history') /\ AnswersAreOwn'
    <2>1. text = {SummaryOf(Ctx(l))} /\ copied = MessagesOf(history)
      BY <1>d, <1>5 DEF Resets, In, TextIsWhole, CopyIsOut
    <2>2. Summary(l).kind # "answer" /\ Adds(Summary(l)) = MessagesOf(history)
      BY <2>1 DEF Summary, Adds
    <2>3. MessagesOf(<<Summary(l)>>) = Adds(Summary(l))
      BY MessagesOfOne
    <2>4. history' = <<Summary(l)>>
      BY <1>5 DEF Resets
    <2>5. \A i \in DOMAIN history' : history'[i].kind # "answer"
      BY <2>2, <2>4
    <2> QED BY <2>2, <2>3, <2>4, <2>5 DEF AnswersAreOwn
  <1>6. ASSUME NEW l \in Msgs, Inward(l), ~Resets(l) PROVE history' = history
    BY <1>6 DEF Inward, CompactCopies, SummaryQueryFails, BacksOff, CompactListens,
       SummaryEnds, ContextQuery, AckEnds, CompactReturns, historyVars
  <1> QED BY <1>d, <1>1, <1>3, <1>4, <1>5, <1>6, StepsApart
          DEF CBefore, CStart, CCalls, CQueries, CLoop, CReceivePart, SummaryQuery,
              SummaryMessage, AckMessage, CReconnectBegins, CReconnectConnects,
              CReconnectEnds, CStreamWrites, CProcess, CProcessDies, compVars, historyVars

\* A turn leaves its beginning when it records its messages.
LEMMA LeavesBeginning ==
    ASSUME CBefore, stage = "begun", stage' # "begun"
    PROVE  \E l \in Msgs : CTakesClient(l)
  <1>1. CASE CStart \/ CCalls \/ ClearHistory
    BY <1>1 DEF CStart, AStart, CCalls, ASend, ACancel, AStop, AStopReturns,
       ACallerCancels, ClearHistory, adapterVars, clientVars
  <1>2. ASSUME NEW l \in Msgs, CQueries(l) \/ CLoop(l) \/ CReceivePart(l) \/ CReceiveResult(l)
        PROVE  FALSE
    BY <1>2 DEF CQueries, QueryText, QueryTextFails, QueryStream, QueryStreamFails, CLoop,
       ABeginTurn, ASkipTurn, ALoop, Listens, ReceiveCancelled, ReceiveClosed, SeesClosed,
       CReceivePart, ReceivePart, CReceiveResult, ReceiveResult, Receiving, clientVars
  <1>3. ASSUME NEW l \in Msgs,
               SummaryQuery(l) \/ SummaryMessage(l) \/ AckMessage(l) \/ Inward(l)
        PROVE  FALSE
    BY <1>3, InwardLeaves DEF SummaryQuery, SummaryMessage, AckMessage, CompactTakes,
       adapterVars, clientVars
  <1>4. ASSUME NEW t \in Msgs,
               CReconnectBegins(t) \/ CReconnectConnects(t) \/ CReconnectEnds(t)
        PROVE  FALSE
    BY <1>4 DEF CReconnectBegins, CReconnectConnects, CReconnectEnds, ReconnectBegins,
       ReconnectDisconnects, ReconnectConnects, ReconnectFails, ReconnectSwaps
  <1>5. CASE \/ \E s \in sending : StreamWrites(s)
             \/ \E s \in telling : ContextWrites(s)
             \/ \E k \in DOMAIN clients : CProcess(k) \/ CProcessDies(k)
    BY <1>5 DEF StreamWrites, ContextWrites, CProcess, CliAnswers, CliInterrupted,
       CProcessDies, CliDies
  <1> QED BY <1>1, <1>2, <1>3, <1>4, <1>5, StepsApart DEF CBefore

\* A turn that is past its beginning after a step was in it before.
LEMMA TurnPastBeginning ==
    ASSUME Before, NEW l \in Msgs, pc'[l] = "turn", stage' # "begun"
    PROVE  pc[l] = "turn" /\ turn'[l] = turn[l]
  <1>1. BeginTurn(l) \/ (pc[l] = "turn" /\ turn'[l] = turn[l])
    BY TurnLasts, BeforeFacts DEF Before
  <1>2. CASE BeginTurn(l)
    <2>1. pc[l] = "begin"
      BY <1>2 DEF BeginTurn
    <2>2. CASE Aside /\ TurnsLast
      BY <2>1, <2>2 DEF TurnsLast
    <2>3. CASE AStart \/ AStop \/ (\E t \in Msgs : ReconnectStep(t))
               \/ \E s \in sending : StreamWrites(s)
      BY <2>1, <2>3, ReconnectSteps DEF AStart, Start, AStop, Stop, StreamWrites,
         loopVars, vars
    <2>4. ASSUME NEW k \in Msgs, TurnStep(k) PROVE FALSE
      <3>1. pc' = pc \/ pc' = [pc EXCEPT ![k] = "drain"]
        BY <2>4, TurnSteps DEF GoesOn, EndsTurn, EndTurn
      <3> QED BY <2>1, <3>1 DEF Before, IInv, TypeOK
    <2>5. ASSUME NEW k \in Msgs, ABeginTurn(k) PROVE FALSE
      BY <2>5 DEF ABeginTurn
    <2> QED BY <2>1, <2>2, <2>3, <2>4, <2>5, StepKinds DEF Before
  <1> QED BY <1>1, <1>2

\* A turn finds its message in the last entry until its answer comes.
LEMMA StaysLast ==
    ASSUME CBefore, TextIsWhole, CopyIsHistory, clears' = 0, QueriesAreRecorded, TurnIsLast
    PROVE  TurnIsLast'
  <1> SUFFICES ASSUME NEW l \in Msgs, pc'[l] = "turn", stage' # "begun"
               PROVE  history' # <<>> /\ Ctx(l)' \in history'[Len(history')].of
    BY DEF TurnIsLast
  <1>d. Data /\ ~ClearHistory /\ (CopyIsOut => copied = MessagesOf(history))
    BY TypesData, StepClears DEF CBefore, CopyIsHistory
  <1>b. Before \/ UNCHANGED adapterVars
    BY StepMoves DEF CBefore, Before
  <1>t. pc[l] = "turn" /\ turn'[l] = turn[l] /\ Ctx(l)' = Ctx(l)
    BY <1>b, TurnPastBeginning DEF adapterVars, vars, Ctx
  <1>c. /\ Ctx(l) \in Range(turn[l])
        /\ \A k \in Msgs : pc[k] = "turn" => k = l
    BY <1>t, TurnHasContext DEF CBefore
  <1>1. CASE history' = history /\ stage # "begun"
    BY <1>1, <1>t DEF TurnIsLast
  <1>2. ASSUME NEW k \in Msgs, CTakesClient(k)
        PROVE  history' # <<>> /\ Ctx(l)' \in history'[Len(history')].of
    <2>1. k = l
      BY <1>c, <1>2 DEF CTakesClient, TakesClient
    <2> DEFINE e == [kind |-> "message", of |-> Range(turn[l])]
    <2>2. history' = Append(history, e) /\ history \in Seq(Entry) /\ e.of = Range(turn[l])
      BY <1>2, <1>d, <2>1 DEF CTakesClient, Data
    <2>3. Range(turn[l]) \subseteq Prompts
      BY HeldWasSent, PromptsDiffer DEF CBefore, IInv
    <2>4. e \in Entry
      BY <2>3 DEF Entry, Kinds
    <2> HIDE DEF e
    <2>5. history' # <<>> /\ history'[Len(history')] = e
      BY <2>2, <2>4
    <2> QED BY <1>c, <1>t, <2>2, <2>5
  <1>3. ASSUME NEW k \in Msgs, CReceiveResult(k) PROVE FALSE
    <2>1. k = l /\ pc' = [pc EXCEPT ![k] = "drain"]
      BY <1>c, <1>3 DEF CReceiveResult, ReceiveResult, Receiving, Ends, EndTurn
    <2> QED BY <2>1 DEF CBefore, IInv, TypeOK
  <1>4. ASSUME NEW k \in Msgs, Resets(k)
        PROVE  history' # <<>> /\ Ctx(l)' \in history'[Len(history')].of
    <2>1. text = {SummaryOf(Ctx(k))} /\ copied = MessagesOf(history)
      BY <1>d, <1>4 DEF Resets, In, TextIsWhole, CopyIsOut
    <2>2. Summary(k).of = MessagesOf(history)
      BY <2>1 DEF Summary
    <2>3. history' = <<Summary(k)>> /\ stage # "begun"
      BY <1>4, CompactingStays DEF Resets, In
    <2>4. Ctx(l) \in MessagesOf(history)
      BY <1>c, <1>t, <2>3 DEF QueriesAreRecorded
    <2>5. history' # <<>> /\ history'[Len(history')] = Summary(k)
      BY <2>3
    <2>6. Ctx(l)' \in Summary(k).of
      BY <1>t, <2>2, <2>4
    <2> QED BY <2>5, <2>6
  <1>5. ASSUME NEW k \in Msgs, Inward(k), ~Resets(k) PROVE history' = history
    BY <1>5 DEF Inward, CompactCopies, SummaryQueryFails, BacksOff, CompactListens,
       SummaryEnds, ContextQuery, AckEnds, CompactReturns, historyVars
  <1>6. ASSUME ~\E k \in Msgs : CTakesClient(k) \/ CReceiveResult(k) \/ Resets(k)
        PROVE  history' = history
    BY <1>d, <1>5, <1>6, StepsApart
       DEF CBefore, CStart, CCalls, CQueries, CLoop, CReceivePart, SummaryQuery,
           SummaryMessage, AckMessage, CReconnectBegins, CReconnectConnects,
           CReconnectEnds, CStreamWrites, CProcess, CProcessDies, compVars, historyVars
  <1>7. stage # "begun" \/ \E k \in Msgs : CTakesClient(k)
    BY LeavesBeginning
  <1> QED BY <1>1, <1>2, <1>3, <1>4, <1>6, <1>7

LEMMA StepConversation ==
    ASSUME CBefore, Flow, TextIsWhole, CopyIsHistory, clears' = 0,
           QueriesAreRecorded, EndsAreRecorded, AnswersAreOwn, TurnIsLast
    PROVE  QueriesAreRecorded' /\ EndsAreRecorded' /\ AnswersAreOwn' /\ TurnIsLast'
  <1>l. TurnIsLast'
    BY StaysLast
  <1>h. MessagesOf(history) \subseteq MessagesOf(history') /\ AnswersAreOwn'
    BY HistoryGrows
  <1>1. CASE UNCHANGED adapterVars
    BY <1>h, <1>l, <1>1 DEF QueriesAreRecorded, EndsAreRecorded, adapterVars, vars,
                            clientVars
  <1>2. CASE AdapterMove
    <2>b. Before
      BY <1>2 DEF CBefore, Before
    <2>1. ASSUME NEW l \in Msgs, pc'[l] = "turn", stage' # "begun"
          PROVE  Range(turn'[l]) \subseteq MessagesOf(history')
      <3>1. pc[l] = "turn" /\ turn'[l] = turn[l]
        BY <2>b, <2>1, TurnPastBeginning
      <3>2. CASE stage # "begun"
        BY <1>h, <3>1, <3>2 DEF QueriesAreRecorded
      <3>3. CASE stage = "begun"
        <4>1. PICK k \in Msgs : CTakesClient(k)
          BY <2>1, <3>3, LeavesBeginning
        <4>2. k = l
          BY <3>1, <4>1, TurnHasContext DEF CTakesClient, TakesClient, CBefore
        <4> DEFINE e == [kind |-> "message", of |-> Range(turn[l])]
        <4>3. history' = Append(history, e) /\ history \in Seq(Entry)
          BY <4>1, <4>2, TypesData DEF CTakesClient, CBefore, Data
        <4>4. Range(turn[l]) \subseteq Prompts
          BY HeldWasSent, PromptsDiffer DEF CBefore, IInv
        <4>5. e \in Entry /\ Adds(e) = Range(turn[l])
          BY <4>4 DEF Entry, Kinds, Adds
        <4> HIDE DEF e
        <4>6. MessagesOf(Append(history, e)) = MessagesOf(history) \cup Adds(e)
          BY <4>3, <4>5, MessagesAppended
        <4> QED BY <3>1, <4>3, <4>5, <4>6
      <3> QED BY <3>2, <3>3
    <2>2. ASSUME NEW t \in Msgs, outcome'[t] # "none"
          PROVE  t \in MessagesOf(history')
      <3>1. CASE outcome[t] # "none"
        BY <1>h, <3>1 DEF EndsAreRecorded
      <3>2. CASE outcome[t] = "none"
        <4>1. PICK l \in Msgs : TurnStep(l) /\ EndsTurn(l) /\ pc[l] = "turn" /\ t = Ctx(l)
          BY <2>b, <2>2, <3>2, NewEnds
        <4>2. stage # "begun"
          BY <4>1 DEF TurnStep, EndsTurn, TakesClient, Listens, QueryText, QueryTextFails,
             QueryStream, QueryStreamFails, ReceiveCancelled, ReceivePart, ReceiveResult,
             ReceiveClosed, SeesClosed, Receiving
        <4>3. t \in Range(turn[l])
          BY <4>1, TurnHasContext DEF CBefore
        <4> QED BY <1>h, <4>1, <4>2, <4>3 DEF QueriesAreRecorded
      <3> QED BY <3>1, <3>2
    <2>3. QueriesAreRecorded' /\ EndsAreRecorded'
      BY <2>1, <2>2 DEF QueriesAreRecorded, EndsAreRecorded, MessagesOf
    <2> QED BY <1>h, <1>l, <2>3
  <1> QED BY <1>1, <1>2, StepMoves DEF CBefore

-----------------------------------------------------------------------------
(* The theorems.                                                           *)

\* What is needed of the adapter, and of the conversation.
CompInv == IInv /\ ClientsInv /\ ReconnectInv /\ CInv

LEMMA InitCompInv == CompInit => CompInv
  <1> SUFFICES ASSUME CompInit PROVE CompInv
    OBVIOUS
  <1>1. IInv /\ ClientsInv /\ ReconnectInv
    BY InitInv, InitAInv DEF CompInit, AdapterInit, AInv
  <1>2. /\ history = <<>> /\ MessagesOf(history) = {} /\ Range(history) = {}
        /\ clients = <<>> /\ resumed = <<>> /\ DOMAIN clients = {}
        /\ \A l \in Msgs : pc[l] = "none" /\ outcome[l] = "none"
        /\ stage = "idle" /\ phase = "none" /\ text = {}
        /\ sending = {} /\ telling = {} /\ cleared = {}
    BY MessagesOfNone, RangeEmpty DEF CompInit, AdapterInit, Init
  <1>3. CompTypes
    BY <1>2 DEF CompInit, CompTypes, CompTypeOK, StageOfTurn
  <1>4. ClearedInv
    BY <1>2 DEF ClearedInv, Recorded, CopyIsOut
  <1>5. ExchangeInv
    <2>1. Users = {} /\ Writers = {}
      BY <1>2 DEF Users, Waits, Writers
    <2> QED BY <1>2, <2>1 DEF ExchangeInv, Flow, UnusedIsEmpty, UserIsAnswered,
                              WriterIsUser, TextIsWhole
  <1>6. CopyIsHistory /\ ConversationInv
    BY <1>2 DEF CopyIsHistory, CopyIsOut, ConversationInv, QueriesAreRecorded,
                EndsAreRecorded, AnswersAreOwn, TurnIsLast
  <1> QED BY <1>1, <1>3, <1>4, <1>5, <1>6 DEF CompInv, CInv

LEMMA StepKept ==
    ASSUME CBefore, ExchangeInv, CopyIsHistory, ConversationInv
    PROVE  ConversationInv'
  BY UncutWas, StepClears, StepConversation DEF ExchangeInv, ConversationInv

LEMMA AdapterStutters ==
    ClientsInv /\ ReconnectInv /\ UNCHANGED adapterVars => ClientsInv' /\ ReconnectInv'
  BY SMTT(20) DEF adapterVars, vars, clientVars, ClientsInv, AdapterTypeOK,
     ClientsBeginWithStart, OneEndPerTurn, LivesInOpen, HeldByReconnect, NoOrphan,
     StopEndsProcesses, ReconnectInv, OneReconnect, ImagesQuiet, OneActive,
     ActiveForDead, UsedIsCurrent, DisconnectsDead, ReplacesDeadOnly, Active, Uses,
     HasImages, Ctx

LEMMA CompStutters == CInv /\ UNCHANGED allVars => CInv'
  <1> SUFFICES ASSUME CInv, UNCHANGED allVars PROVE CInv'
    OBVIOUS
  <1> USE DEF allVars, adapterVars, vars, clientVars, compVars, historyVars, userVars,
              phaseVars, sessionVars, launchVars, streamVars
  <1>1. CompTypes'
    BY DEF CInv, CompTypes, CompTypeOK, StageOfTurn, MessagesOf
  <1>2. ClearedInv'
    BY DEF CInv, ClearedInv, Recorded, CopyIsOut, MessagesOf
  <1>3. ExchangeInv'
    <2>1. /\ Users' = Users /\ Writers' = Writers /\ (Uncut' <=> Uncut)
          /\ \A x : Got(x)' <=> Got(x)
      BY DEF Users, Waits, Ctx, SummaryOf, ContextOf, Writers, Uncut, Got
    <2>2. Flow => Flow'
      BY <2>1 DEF Flow, UnusedIsEmpty, UserIsAnswered, WriterIsUser, Lost
    <2>3. TextIsWhole => TextIsWhole'
      BY DEF TextIsWhole, Ctx, SummaryOf
    <2> QED BY <2>1, <2>2, <2>3 DEF CInv, ExchangeInv
  <1>4. CopyIsHistory' /\ ConversationInv'
    BY DEF CInv, CopyIsHistory, CopyIsOut, ConversationInv, QueriesAreRecorded,
           EndsAreRecorded, AnswersAreOwn, TurnIsLast, Uncut, Ctx, MessagesOf
  <1> QED BY <1>1, <1>2, <1>3, <1>4 DEF CInv

\* A step of Compaction is one of RunLoop, or none to RunLoop.
LEMMA CompStepSchedules == CompInv /\ [CompNext]_allVars => [Next]_vars
  BY StepMoves, StepSchedules DEF CompInv, CInv, allVars, adapterVars

LEMMA StepCompInv == CompInv /\ [CompNext]_allVars => CompInv'
  <1> SUFFICES ASSUME CompInv, [CompNext]_allVars PROVE CompInv'
    OBVIOUS
  <1>1. IInv'
    BY CompStepSchedules, StepInv, StutterInv DEF CompInv
  <1>2. CASE UNCHANGED allVars
    BY <1>1, <1>2, AdapterStutters, CompStutters DEF CompInv, allVars
  <1>3. CASE CompNext
    <2>1. ClientsInv' /\ ReconnectInv'
      <3>1. CASE AdapterMove
        BY <1>1, <3>1, StepClients, StepReconnects DEF CompInv, Before
      <3>2. CASE UNCHANGED adapterVars
        BY <3>2, AdapterStutters DEF CompInv
      <3> QED BY <1>3, <3>1, <3>2, StepMoves DEF CompInv, CInv
    <2>2. CBefore
      BY <1>1, <1>3, <2>1 DEF CBefore, CompInv, CInv
    <2> QED BY <1>1, <2>1, <2>2, StepTypes, StepCleared, StepExchange, StepCopy, StepKept
            DEF CompInv, CInv
  <1> QED BY <1>2, <1>3

\* The inductive invariant holds in every run of an adapter that compacts.
THEOREM CompactionInvariance == CompSpec => []CompInv
  BY InitCompInv, StepCompInv, PTL DEF CompSpec

\* With its compactions and its conversation the adapter schedules turns as
\* RunLoop does: runClaude calls compactSession inside the turn, and all that
\* RunLoopProofs shows of every behaviour of RunLoop holds.
THEOREM CompactionSchedules == CompSpec => Spec
  <1>1. CompInit => Init
    BY DEF CompInit, AdapterInit
  <1> QED BY <1>1, CompStepSchedules, CompactionInvariance, PTL DEF CompSpec, Spec

\* Every variable of the conversation has its type, each client was launched with
\* one session, and compactSession runs between the turn's look at c.client and
\* its query, with a client to call.
THEOREM CompactionTypeCorrect == CompSpec => []CompTypeOK
  <1>1. CompInv => CompTypeOK
    BY DEF CompInv, CInv, CompTypes
  <1> QED BY <1>1, CompactionInvariance, PTL

\* compactSession, which copies the history under one lock and replaces it under
\* another, brings back no message that ClearHistory cleared, but those it had
\* copied before.
THEOREM ClearedIsGone == CompSpec => []ClearedStaysCleared
  <1>1. CompInv => ClearedStaysCleared
    BY DEF CompInv, CInv, ClearedInv, Recorded, ClearedStaysCleared
  <1> QED BY <1>1, CompactionInvariance, PTL

\* Every message that came to a query stays in the history or in the summary that
\* replaces it, and every tracked answer is to a message of the entry before it,
\* unless ClearHistory was called, a turn was cancelled, or the CLI ended, failed or
\* said nothing when it was asked for a summary.
THEOREM ConversationNeverLost == CompSpec => []ConversationIsKept
  <1>1. CompInv => ConversationIsKept
    BY DEF CompInv, CInv, ConversationInv, Uncut, QueriesAreRecorded, EndsAreRecorded,
           AnswersAreOwn, ConversationIsKept
  <1> QED BY <1>1, CompactionInvariance, PTL

\* The prompts of a compaction, and the messages it takes from the channel of the
\* turn's client, disturb no reconnect: none disconnects a process that is not
\* dead, in the first life and without images, and no process is orphaned.
THEOREM CompactionDisturbsNoReconnect == CompSpec => [](ReplacesDeadOnly /\ NoOrphan)
  <1>1. CompInv => ReplacesDeadOnly /\ NoOrphan
    BY DEF CompInv, ClientsInv, ReconnectInv
  <1> QED BY <1>1, CompactionInvariance, PTL

=============================================================================
