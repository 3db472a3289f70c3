--------------------------- MODULE TransportProofs ----------------------------
(***************************************************************************)
(* Theorems about Transport: writers and Disconnect keep out of each       *)
(* other's way, Disconnect is final, and every message the process prints  *)
(* comes out once and in order, for any number of callers, any pipe and    *)
(* channel capacities and any output.                                      *)
(***************************************************************************)
EXTENDS Transport, SequenceTheorems, TLAPS

-----------------------------------------------------------------------------
(* The inductive invariant: the locks.                                     *)

\* c.mu has one holder.
OneUnderLock ==
    \A k, l \in Closers : close[k] \in UnderLock /\ close[l] \in UnderLock => k = l

\* Who has got past close's look at t.connected.
Ending == {"waiting", "reaping", "killing"}

\* The transport is open from Connect to the first close, which closes stdin
\* with it; only an open transport is written to.
OpenUntilClose ==
    /\ open => conn = "up" /\ connected
    /\ stdin = "open" <=> open
    /\ connected => conn = "up"
    /\ \A k \in Closers : close[k] # "idle" => conn # "none"
    /\ \A k \in Closers : close[k] = "asking" => conn = "up"
    /\ \A k \in Closers : close[k] \in Ending => conn = "up" /\ ~open

\* A client that connected has a process and files until a Disconnect is through
\* with them.
Gone == proc = "reaped" /\ files = {}
ProcessUntilReaped ==
    /\ conn = "up" /\ ~open => Gone \/ Closing(Ending)
    /\ conn = "up" /\ ~connected => Gone

-----------------------------------------------------------------------------
(* The inductive invariant: the output.                                    *)

\* What CliPrints looks at: the places of the fragments, and the last of them.
Fragments == {i \in DOMAIN lines : lines[i] \in {"head", "tail"}}
LastIsThere ==
    Fragments # {} => \E i \in Fragments : \A j \in Fragments : j <= i

\* A message on two lines is interrupted by noise only.
OpenMessage == LastFragment = "head" => lines[Len(lines)] \in {"head", "noise"}
HeadsHaveTails ==
    \A i \in 1 .. Len(lines) :
        /\ lines[i] = "head" /\ i < Len(lines) => lines[i + 1] \in {"tail", "noise"}
        /\ lines[i] = "tail" => i > 1 /\ lines[i - 1] \in {"head", "noise"}

\* Between two lines, the parser holds at most the first half of a message.
HalfMessage ==
    ~ctxDone /\ ~Noisy =>
        buffer = IF taken > 0 /\ Kind(taken) = "head" THEN <<"head">> ELSE <<>>

\* The reader runs from Connect on.
ReaderIsStarted == reader # "none" => conn = "up"

\* A message in the reader's hand was read from a line.
HandIsTaken == reader = "hand" => taken > 0

TInv ==
    /\ TypeOK
    /\ ReaderIsStarted
    /\ HandIsTaken
    /\ WritersHaveStdin
    /\ OneUnderLock
    /\ OpenUntilClose
    /\ ProcessUntilReaped
    /\ DisconnectIsFinal
    /\ LastIsThere
    /\ OpenMessage
    /\ HeadsHaveTails
    /\ HalfMessage
    /\ EveryMessageOnce

-----------------------------------------------------------------------------
(* Lemmas about sequences and about the parser.                            *)

\* A number above all others is listed last.
LEMMA ListsAppend ==
    ASSUME NEW n \in Nat, NEW s \in Seq(1 .. n), NEW S, Lists(s, S),
           NEW x \in Nat, x > n
    PROVE  Lists(Append(s, x), S \cup {x})
  <1> DEFINE t == Append(s, x)
  <1>1. /\ DOMAIN s = 1 .. Len(s) /\ DOMAIN t = 1 .. Len(s) + 1
        /\ \A i \in 1 .. Len(s) : t[i] = s[i] /\ s[i] \in 1 .. n
        /\ t[Len(s) + 1] = x /\ Len(s) \in Nat
    OBVIOUS
  <1>2. \A i, j \in DOMAIN t : i < j => t[i] < t[j]
    BY <1>1 DEF Lists
  <1>3. \A m \in S \cup {x} : \E i \in DOMAIN t : t[i] = m
    <2>1. ASSUME NEW m \in S PROVE \E i \in DOMAIN t : t[i] = m
      <3>1. PICK i \in DOMAIN s : s[i] = m
        BY DEF Lists
      <3>2. i \in DOMAIN t /\ t[i] = m
        BY <1>1, <3>1
      <3> QED BY <3>2
    <2>2. Len(s) + 1 \in DOMAIN t /\ t[Len(s) + 1] = x
      BY <1>1
    <2> QED BY <2>1, <2>2
  <1>4. \A i \in DOMAIN t : t[i] \in S \cup {x}
    BY <1>1 DEF Lists
  <1> QED BY <1>2, <1>3, <1>4 DEF Lists

\* What moves from one of three sequences to the next stays in its place.
LEMMA HandedOver ==
    ASSUME NEW S, NEW a \in Seq(S), NEW b \in Seq(S), NEW x \in S
    PROVE  /\ a \o b \o <<>> = a \o b
           /\ a \o b \o <<x>> = Append(a \o b, x)
           /\ a \o Append(b, x) \o <<>> = a \o b \o <<x>>
           /\ a \o b \in Seq(S)
  OBVIOUS

LEMMA Received ==
    ASSUME NEW S, NEW a \in Seq(S), NEW b \in Seq(S), b # <<>>
    PROVE  Append(a, Head(b)) \o Tail(b) = a \o b
  <1>1. Append(a, Head(b)) \o Tail(b) \in Seq(S) /\ a \o b \in Seq(S)
    OBVIOUS
  <1>2. Len(Append(a, Head(b)) \o Tail(b)) = Len(a \o b)
    OBVIOUS
  <1>3. \A i \in 1 .. Len(a \o b) : (Append(a, Head(b)) \o Tail(b))[i] = (a \o b)[i]
    OBVIOUS
  <1> QED BY <1>1, <1>2, <1>3, SeqEqual

\* The parser keeps its limit, and puts out a message, an error or nothing.
LEMMA ParserType ==
    ASSUME NEW b \in Seq(Kinds), Len(b) <= BufferLimit, NEW k \in Kinds
    PROVE  LET p == ProcessLine(b, k)
           IN  /\ p.buffer \in Seq(Kinds) /\ Len(p.buffer) <= BufferLimit
               /\ p.out \in {"none", "msg", "err"}
  <1>1. Parsed(k) \in {"none", "msg", "err"} \/ k \in {"head", "noise", "blank", "huge"}
    BY DEF Parsed, Kinds
  <1>2. IsObject(Append(b, k)) => k \in {"whole", "quiet", "odd", "tail"}
    <2>1. Len(Append(b, k)) = Len(b) + 1 /\ Append(b, k)[Len(b) + 1] = k
      OBVIOUS
    <2>2. \A j : Append(b, k) = <<j>> => k = j
      BY <2>1
    <2>3. Append(b, k) = <<"head", "tail">> => k = "tail"
      BY <2>1
    <2> QED BY <2>2, <2>3 DEF IsObject
  <1> QED BY <1>1, <1>2, ParserAssumption DEF ProcessLine, Kinds

\* Between messages, a line that is no noise and no tail is a message or none by
\* itself; behind the first half of a message, its second half completes it.
LEMMA ParserWhole ==
    ASSUME NEW k \in Kinds \ {"noise", "huge", "tail"}
    PROVE  LET p == ProcessLine(<<>>, k)
           IN  /\ p.buffer = IF k = "head" THEN <<"head">> ELSE <<>>
               /\ p.out = "msg" <=> k = "whole"
  <1>1. Append(<<>>, k) = <<k>> /\ Len(<<k>>) = 1
    OBVIOUS
  <1>2. \A j : <<k>> = <<j>> <=> k = j
    OBVIOUS
  <1>3. <<k>> # <<"head", "tail">>
    OBVIOUS
  <1>4. IsObject(<<k>>) <=> k \in {"whole", "quiet", "odd"}
    BY <1>2, <1>3 DEF IsObject
  <1> QED BY <1>1, <1>4, ParserAssumption DEF ProcessLine, Parsed, Kinds

LEMMA ParserHalves ==
    ProcessLine(<<"head">>, "tail") = [buffer |-> <<>>, out |-> "msg"]
  <1>1. Append(<<"head">>, "tail") = <<"head", "tail">>
    <2> DEFINE s == Append(<<"head">>, "tail")
               t == <<"head", "tail">>
    <2>1. s \in Seq(Kinds) /\ t \in Seq(Kinds)
      BY DEF Kinds
    <2>2. Len(s) = 2 /\ Len(t) = 2 /\ \A i \in 1 .. 2 : s[i] = t[i]
      OBVIOUS
    <2> QED BY <2>1, <2>2, SeqEqual
  <1>2. Len(<<"head", "tail">>) = 2
    OBVIOUS
  <1> QED BY <1>1, <1>2, ParserAssumption DEF ProcessLine, IsObject, Parsed

-----------------------------------------------------------------------------
(* Types.                                                                  *)

LEMMA Capacities ==
    /\ InCap \in Nat \ {0} /\ OutCap \in Nat \ {0}
    /\ MsgCap \in Nat \ {0} /\ ErrCap \in Nat \ {0}
  BY TransportAssumption

\* TypeOK by owner: the callers, the process, the reader and its receivers.
CallType ==
    /\ conn \in {"none", "up", "failed"} /\ connected \in BOOLEAN
    /\ open \in BOOLEAN /\ stdin \in {"open", "nil"} /\ ctxDone \in BOOLEAN
    /\ files \subseteq {"mcp", "stderr"}
    /\ send \in [Senders -> {"idle", "locking", "writing", "done"}]
    /\ close \in [Closers -> UnderLock \cup {"idle", "returned"}]
    /\ early \in BOOLEAN
ProcType ==
    /\ proc \in {"none", "up", "dead", "reaped"}
    /\ killed \in BOOLEAN
    /\ input \in 0 .. InCap
    /\ pipe \in {"open", "closed"}
OutputType ==
    /\ lines \in Seq(Kinds) /\ taken \in 0 .. Len(lines)
    /\ Len(lines) - taken <= OutCap
    /\ reader \in {"none", "scan", "hand", "report", "last", "leave", "gone"}
    /\ buffer \in Seq(Kinds) /\ Len(buffer) <= BufferLimit
    /\ msgChan \in Seq(1 .. taken) /\ Len(msgChan) <= MsgCap
    /\ errChan \in 0 .. ErrCap
    /\ got \in Seq(1 .. taken)
    /\ HandIsTaken

LEMMA TypeParts == TypeOK /\ HandIsTaken <=> CallType /\ ProcType /\ OutputType
  BY DEF TypeOK, CallType, ProcType, OutputType

\* Each owner's types hold as long as its variables stay.
LEMMA TypeKept ==
    /\ CallType /\ UNCHANGED callVars => CallType'
    /\ ProcType /\ UNCHANGED procVars => ProcType'
    /\ OutputType /\ UNCHANGED <<lines, readVars>> => OutputType'
  BY DEF CallType, ProcType, OutputType, HandIsTaken, callVars, procVars, readVars

\* The initial states satisfy the invariant.
LEMMA InitInv == Init => TInv
  <1> SUFFICES ASSUME Init PROVE TInv
    OBVIOUS
  <1>1. TypeOK /\ HandIsTaken
    <2>1. /\ send \in [Senders -> {"idle", "locking", "writing", "done"}]
          /\ close \in [Closers -> UnderLock \cup {"idle", "returned"}]
      BY DEF Init
    <2>2. CallType
      BY <2>1 DEF Init, CallType
    <2>3. ProcType
      <3>1. 0 \in 0 .. InCap
        BY Capacities
      <3> QED BY <3>1 DEF Init, ProcType
    <2>4. OutputType
      BY Capacities, ParserAssumption DEF Init, OutputType, HandIsTaken
    <2> QED BY <2>2, <2>3, <2>4, TypeParts
  <1>2. /\ WritersHaveStdin /\ OneUnderLock /\ OpenUntilClose
        /\ ProcessUntilReaped /\ DisconnectIsFinal
    BY DEF Init, WritersHaveStdin, OneUnderLock, OpenUntilClose, UnderLock,
           Ending, ProcessUntilReaped, DisconnectIsFinal
  <1>3. LastIsThere /\ HeadsHaveTails /\ OpenMessage
    BY DEF Init, LastIsThere, Fragments, HeadsHaveTails, OpenMessage, LastFragment
  <1>4. HalfMessage /\ EveryMessageOnce
    <2>1. Passed = <<>>
      BY DEF Init, Passed, InHand
    <2>2. taken = 0 /\ buffer = <<>>
      BY DEF Init
    <2> QED BY <2>1, <2>2 DEF HalfMessage, EveryMessageOnce, Lists
  <1>5. ReaderIsStarted
    BY DEF Init, ReaderIsStarted
  <1> QED BY <1>1, <1>2, <1>3, <1>4, <1>5 DEF TInv

LEMMA StepType == ASSUME TypeOK, HandIsTaken, Next PROVE (TypeOK /\ HandIsTaken)'
  <1>t. CallType /\ ProcType /\ OutputType
    BY TypeParts
  <1>s. SUFFICES CallType' /\ ProcType' /\ OutputType'
    BY TypeParts, PTL
  <1>1. ASSUME Connects \/ ConnectFails \/ ParentCancelled
        PROVE  CallType' /\ ProcType' /\ OutputType'
    <2>1. CallType'
      BY <1>1, <1>t DEF Connects, ConnectFails, ParentCancelled, CallType
    <2>2. ProcType'
      BY <1>1, <1>t DEF Connects, ConnectFails, ParentCancelled, ProcType, procVars
    <2>3. OutputType'
      BY <1>1, <1>t
         DEF Connects, ConnectFails, ParentCancelled, OutputType, HandIsTaken,
             readVars, procVars
    <2> QED BY <2>1, <2>2, <2>3
  <1>2. ASSUME NEW s \in Senders, SendLooks(s) \/ SendStep(s)
        PROVE  CallType' /\ ProcType' /\ OutputType'
    <2> USE <1>2 DEF SendStep, SendLooks, SendLocks, SendCancelled, SendWrites,
                     SendBreaks
    <2>1. UNCHANGED <<lines, readVars>>
      BY DEF procVars
    <2>2. CallType'
      BY <1>t DEF CallType
    <2>3. ProcType'
      BY <1>t, TransportAssumption DEF ProcType, procVars
    <2> QED BY <1>t, <2>1, <2>2, <2>3, TypeKept
  <1>3. ASSUME ReaderStep \/ ReceiveMessage \/ ReceiveError
        PROVE  CallType' /\ ProcType' /\ OutputType'
    <2>1. UNCHANGED <<procVars, callVars>>
      BY <1>3 DEF ReaderStep, ReaderTakes, ReaderHands, ReaderReports,
           ReaderGivesUp, ReaderSeesEnd, ReaderFails, ReaderLeaves,
           ReceiveMessage, ReceiveError
    <2>2. lines' = lines
      BY <2>1 DEF procVars
    <2>3. CASE ReaderTakes
      <3>1. Kind(Following) \in Kinds /\ taken' \in 0 .. Len(lines) /\ taken' = taken + 1
        BY <1>t, <2>3 DEF ReaderTakes, Following, HasLine, Kind, OutputType
      <3>2. /\ buffer' \in Seq(Kinds) /\ Len(buffer') <= BufferLimit
            /\ reader' \in {"scan", "hand", "report", "leave"}
        BY <1>t, <2>3, <3>1, ParserType DEF ReaderTakes, OutputType
      <3>3. msgChan \in Seq(1 .. taken') /\ got \in Seq(1 .. taken')
        <4>1. 1 .. taken \subseteq 1 .. taken'
          BY <1>t, <3>1 DEF OutputType
        <4> QED BY <1>t, <4>1, SeqMonotonic DEF OutputType
      <3>4. UNCHANGED <<msgChan, errChan, got>>
        BY <2>3 DEF ReaderTakes
      <3>5. /\ Len(lines) - taken' <= OutCap
            /\ HandIsTaken'
        BY <1>t, <3>1, TransportAssumption DEF OutputType, HandIsTaken
      <3>6. OutputType'
        BY <1>t, <2>2, <3>1, <3>2, <3>3, <3>4, <3>5 DEF OutputType
      <3> QED BY <1>t, <2>1, <3>6, TypeKept
    <2>4. CASE ReaderHands
      <3>1. taken \in 1 .. taken
        BY <1>t, <2>4 DEF ReaderHands, OutputType, HandIsTaken
      <3>2. msgChan' \in Seq(1 .. taken) /\ Len(msgChan') <= MsgCap
        BY <1>t, <2>4, <3>1, TransportAssumption DEF ReaderHands, OutputType
      <3>3. OutputType'
        BY <1>t, <2>2, <2>4, <3>2 DEF ReaderHands, OutputType, HandIsTaken
      <3> QED BY <1>t, <2>1, <3>3, TypeKept
    <2>5. CASE ReaderReports \/ ReceiveError
      <3>1. errChan' \in 0 .. ErrCap
        BY <1>t, <2>5, Capacities DEF ReaderReports, ReceiveError, OutputType
      <3>2. OutputType'
        BY <1>t, <2>2, <2>5, <3>1
           DEF ReaderReports, ReceiveError, OutputType, HandIsTaken
      <3> QED BY <1>t, <2>1, <3>2, TypeKept
    <2>6. CASE ReaderGivesUp \/ ReaderSeesEnd \/ ReaderFails \/ ReaderLeaves
      <3>1. OutputType'
        BY <1>t, <2>2, <2>6
           DEF ReaderGivesUp, ReaderSeesEnd, ReaderFails, ReaderLeaves, OutputType,
               HandIsTaken
      <3> QED BY <1>t, <2>1, <3>1, TypeKept
    <2>7. CASE ReceiveMessage
      <3>1. /\ Head(msgChan) \in 1 .. taken
            /\ Tail(msgChan) \in Seq(1 .. taken)
            /\ Len(Tail(msgChan)) = Len(msgChan) - 1
        BY <1>t, <2>7, HeadTailProperties DEF ReceiveMessage, OutputType
      <3>2. /\ got' \in Seq(1 .. taken)
            /\ msgChan' \in Seq(1 .. taken) /\ Len(msgChan') <= MsgCap
        BY <1>t, <2>7, <3>1, TransportAssumption DEF ReceiveMessage, OutputType
      <3>3. OutputType'
        BY <1>t, <2>2, <2>7, <3>2 DEF ReceiveMessage, OutputType, HandIsTaken
      <3> QED BY <1>t, <2>1, <3>3, TypeKept
    <2> QED BY <1>3, <2>3, <2>4, <2>5, <2>6, <2>7 DEF ReaderStep
  <1>4. ASSUME NEW k \in Closers, CloseAsks(k) \/ CloseStep(k)
        PROVE  CallType' /\ ProcType' /\ OutputType'
    <2> USE <1>4 DEF CloseStep, CloseAsks, CloseBegins, CloseAgain, CloseTerminates,
                     CloseReaps, CloseReapsKilled, Reaps, CloseKills, CloseGraceOver
    <2>1. UNCHANGED <<lines, readVars>>
      BY DEF procVars
    <2>2. CallType'
      BY <1>t, ZenonT(40) DEF CallType, UnderLock
    <2>3. ProcType'
      BY <1>t DEF ProcType, procVars
    <2> QED BY <1>t, <2>1, <2>2, <2>3, TypeKept
  <1>5. ASSUME CliReads \/ CliExits \/ CliKilled
        PROVE  CallType' /\ ProcType' /\ OutputType'
    <2>1. UNCHANGED callVars /\ UNCHANGED <<lines, readVars>>
      BY <1>5 DEF CliReads, CliExits, CliKilled
    <2>2. ProcType'
      BY <1>5, <1>t, TransportAssumption DEF CliReads, CliExits, CliKilled, ProcType
    <2> QED BY <1>t, <2>1, <2>2, TypeKept
  <1>6. ASSUME NEW k \in Printed, CliPrints(k)
        PROVE  CallType' /\ ProcType' /\ OutputType'
    <2>1. lines' = Append(lines, k) /\ k \in Kinds /\ Len(lines) - taken < OutCap
      BY <1>6, TransportAssumption DEF CliPrints
    <2>2. OutputType'
      BY <1>6, <1>t, <2>1, TransportAssumption
         DEF CliPrints, OutputType, HandIsTaken, readVars
    <2>3. ProcType' /\ UNCHANGED callVars
      BY <1>6, <1>t DEF CliPrints, ProcType
    <2> QED BY <1>t, <2>2, <2>3, TypeKept
  <1> QED BY <1>1, <1>2, <1>3, <1>4, <1>5, <1>6 DEF Next


-----------------------------------------------------------------------------
(* The locks.                                                              *)

LocksInv ==
    WritersHaveStdin /\ OneUnderLock /\ OpenUntilClose /\ ProcessUntilReaped
        /\ DisconnectIsFinal

\* What the reader and the receivers do, and what the process does while it
\* lives on, is nothing to the callers.
LEMMA LocksKept ==
    ASSUME LocksInv, UNCHANGED callVars, proc' = proc \/ proc # "reaped"
    PROVE  LocksInv'
  BY DEF LocksInv, WritersHaveStdin, OneUnderLock, OpenUntilClose,
         ProcessUntilReaped, DisconnectIsFinal, Closing, UnderLock, Ending, Gone,
         callVars

\* A sender changes no more than its own step, and writes only what it found open.
LEMMA StepSends ==
    ASSUME TypeOK, LocksInv, NEW s \in Senders, SendLooks(s) \/ SendStep(s)
    PROVE  LocksInv'
  <1>1. /\ UNCHANGED <<conn, connected, open, stdin, files, close, proc>>
        /\ \E step \in {"locking", "writing", "done"} :
              /\ send' = [send EXCEPT ![s] = step]
              /\ step = "writing" => stdin = "open"
    BY DEF SendLooks, SendStep, SendLocks, SendCancelled, SendWrites, SendBreaks,
           procVars
  <1>2. WritersHaveStdin'
    BY <1>1 DEF LocksInv, WritersHaveStdin, TypeOK
  <1>3. /\ OneUnderLock' /\ OpenUntilClose'
        /\ ProcessUntilReaped' /\ DisconnectIsFinal'
    BY <1>1 DEF LocksInv, OneUnderLock, OpenUntilClose, ProcessUntilReaped,
           DisconnectIsFinal, Closing, Gone
  <1> QED BY <1>2, <1>3 DEF LocksInv

\* One Disconnect moves from step to step: nobody else is under the lock, it has
\* the transport closed from "waiting" on, and it returns from a process that
\* is reaped or from a client that was closed before.
LEMMA StepCloses ==
    ASSUME TypeOK, LocksInv, NEW k \in Closers, CloseAsks(k) \/ CloseStep(k)
    PROVE  LocksInv'
  <1>t. close \in [Closers -> UnderLock \cup {"idle", "returned"}]
    BY DEF TypeOK
  <1>a. \A l \in Closers : close[l] \in UnderLock => l = k
    BY DEF LocksInv, OneUnderLock, Closing, UnderLock, CloseStep, CloseAsks,
           CloseBegins, CloseAgain, CloseTerminates, CloseReaps, CloseKills,
           CloseGraceOver, CloseReapsKilled
  <1>b. UNCHANGED <<conn, send>>
    BY DEF CloseStep, CloseAsks, CloseBegins, CloseAgain, CloseTerminates,
           CloseReaps, CloseKills, CloseGraceOver, CloseReapsKilled, Reaps
  <1>1. CASE CloseAsks(k)
    <2>1. /\ close' = [close EXCEPT ![k] = IF connected THEN "asking" ELSE "returned"]
          /\ UNCHANGED <<connected, open, stdin, files, proc>>
          /\ conn # "none" /\ close[k] = "idle"
      BY <1>1 DEF CloseAsks, procVars
    <2>2. WritersHaveStdin' /\ OneUnderLock'
      BY <1>1, <1>t, <1>a, <1>b, <2>1
         DEF LocksInv, WritersHaveStdin, OneUnderLock, UnderLock, CloseAsks, Closing
    <2>3. OpenUntilClose' /\ ProcessUntilReaped' /\ DisconnectIsFinal'
      BY <1>t, <1>b, <2>1
         DEF LocksInv, OpenUntilClose, ProcessUntilReaped, DisconnectIsFinal,
             Ending, Gone, Closing, UnderLock
    <2> QED BY <2>2, <2>3 DEF LocksInv
  <1>2. CASE CloseBegins(k)
    <2>1. /\ close' = [close EXCEPT ![k] = "waiting"] /\ close[k] = "asking"
          /\ open /\ ~open' /\ stdin' = "nil"
          /\ UNCHANGED <<connected, files, proc>>
          /\ \A s \in Senders : send[s] # "writing"
      BY <1>2 DEF CloseBegins, procVars
    <2>2. WritersHaveStdin' /\ OneUnderLock'
      BY <1>t, <1>a, <1>b, <2>1
         DEF LocksInv, WritersHaveStdin, OneUnderLock, UnderLock
    <2>3. OpenUntilClose' /\ ProcessUntilReaped' /\ DisconnectIsFinal'
      BY <1>t, <1>b, <2>1
         DEF LocksInv, OpenUntilClose, ProcessUntilReaped, DisconnectIsFinal,
             Ending, Gone, Closing, UnderLock
    <2> QED BY <2>2, <2>3 DEF LocksInv
  <1>3. CASE CloseAgain(k)
    <2>1. /\ close' = [close EXCEPT ![k] = "returned"] /\ close[k] = "asking"
          /\ ~open /\ connected' = FALSE
          /\ UNCHANGED <<open, stdin, files, proc>>
      BY <1>3 DEF CloseAgain, procVars
    <2>2. WritersHaveStdin' /\ OneUnderLock'
      BY <1>t, <1>a, <1>b, <2>1
         DEF LocksInv, WritersHaveStdin, OneUnderLock, UnderLock
    <2>3. Gone
      BY <1>a, <2>1
         DEF LocksInv, OpenUntilClose, ProcessUntilReaped, Closing, Ending, UnderLock
    <2>4. OpenUntilClose' /\ ProcessUntilReaped' /\ DisconnectIsFinal'
      BY <1>t, <1>b, <2>1, <2>3
         DEF LocksInv, OpenUntilClose, ProcessUntilReaped, DisconnectIsFinal,
             Ending, Gone, Closing, UnderLock
    <2> QED BY <2>2, <2>4 DEF LocksInv
  <1>4. CASE CloseTerminates(k) \/ CloseKills(k) \/ CloseGraceOver(k)
    <2>1. PICK step \in Ending : close' = [close EXCEPT ![k] = step]
      BY <1>4 DEF CloseTerminates, CloseKills, CloseGraceOver, Ending
    <2>2. /\ close[k] \in Ending
          /\ UNCHANGED <<connected, open, stdin, files, proc>>
      BY <1>4 DEF CloseTerminates, CloseKills, CloseGraceOver, Ending, procVars
    <2>3. WritersHaveStdin' /\ OneUnderLock'
      BY <1>t, <1>a, <1>b, <2>1, <2>2
         DEF LocksInv, WritersHaveStdin, OneUnderLock, UnderLock, Ending
    <2>4. OpenUntilClose' /\ ProcessUntilReaped' /\ DisconnectIsFinal'
      BY <1>t, <1>b, <2>1, <2>2
         DEF LocksInv, OpenUntilClose, ProcessUntilReaped, DisconnectIsFinal,
             Ending, Gone, Closing, UnderLock
    <2> QED BY <2>3, <2>4 DEF LocksInv
  <1>5. CASE CloseReaps(k) \/ CloseReapsKilled(k)
    <2>1. /\ close' = [close EXCEPT ![k] = "returned"] /\ close[k] \in Ending
          /\ proc' = "reaped" /\ files' = {} /\ connected' \in BOOLEAN
          /\ UNCHANGED <<open, stdin>>
      BY <1>5 DEF CloseReaps, CloseReapsKilled, Reaps, Ending
    <2>2. WritersHaveStdin' /\ OneUnderLock'
      BY <1>t, <1>a, <1>b, <2>1
         DEF LocksInv, WritersHaveStdin, OneUnderLock, UnderLock
    <2>3. OpenUntilClose' /\ ProcessUntilReaped' /\ DisconnectIsFinal'
      BY <1>t, <1>a, <1>b, <2>1
         DEF LocksInv, OpenUntilClose, ProcessUntilReaped, DisconnectIsFinal,
             Ending, Gone, Closing, UnderLock
    <2> QED BY <2>2, <2>3 DEF LocksInv
  <1> QED BY <1>1, <1>2, <1>3, <1>4, <1>5 DEF CloseStep

LEMMA StepLocks == ASSUME TypeOK, LocksInv, Next PROVE LocksInv'
  <1>1. CASE Connects
    BY <1>1
       DEF Connects, LocksInv, WritersHaveStdin, OneUnderLock, OpenUntilClose,
           ProcessUntilReaped, DisconnectIsFinal, Closing, UnderLock, Ending, Gone
  <1>2. CASE ConnectFails \/ ParentCancelled
    BY <1>2
       DEF ConnectFails, ParentCancelled, LocksInv, WritersHaveStdin, OneUnderLock,
           OpenUntilClose, ProcessUntilReaped, DisconnectIsFinal, Closing, UnderLock,
           Ending, Gone, procVars
  <1>3. CASE ReaderStep \/ ReceiveMessage \/ ReceiveError
    <2>1. UNCHANGED <<procVars, callVars>>
      BY <1>3 DEF ReaderStep, ReaderTakes, ReaderHands, ReaderReports,
           ReaderGivesUp, ReaderSeesEnd, ReaderFails, ReaderLeaves,
           ReceiveMessage, ReceiveError
    <2> QED BY <2>1, LocksKept DEF procVars
  <1>4. CASE CliReads \/ CliExits \/ CliKilled \/ \E k \in Printed : CliPrints(k)
    <2>1. UNCHANGED callVars /\ proc = "up"
      BY <1>4 DEF CliReads, CliExits, CliKilled, CliPrints
    <2> QED BY <2>1, LocksKept
  <1> QED BY <1>1, <1>2, <1>3, <1>4, StepSends, StepCloses DEF Next

-----------------------------------------------------------------------------
(* The output.                                                             *)

PrintedInv == LastIsThere /\ OpenMessage /\ HeadsHaveTails
PassedInv == HalfMessage /\ EveryMessageOnce

\* The last fragment is the one no other is behind.
LastIsLast ==
    /\ Fragments = {} => LastFragment = "tail"
    /\ \A i \in Fragments :
           (\A j \in Fragments : j <= i) => LastFragment = lines[i]

LEMMA LastOne == lines \in Seq(Kinds) => LastIsLast
  <1> SUFFICES ASSUME lines \in Seq(Kinds) PROVE LastIsLast
    OBVIOUS
  <1>1. ASSUME Fragments = {} PROVE LastFragment = "tail"
    BY <1>1 DEF LastFragment, Fragments
  <1>2. ASSUME NEW i \in Fragments, \A j \in Fragments : j <= i
        PROVE  LastFragment = lines[i]
    <2> DEFINE last == CHOOSE m \in Fragments : \A j \in Fragments : j <= m
    <2>1. last \in Fragments /\ \A j \in Fragments : j <= last
      BY <1>2
    <2>2. i \in Nat /\ last \in Nat /\ i <= last /\ last <= i
      BY <1>2, <2>1 DEF Fragments
    <2>3. i = last
      BY <2>2
    <2>4. LastFragment = lines[last]
      BY <1>2 DEF LastFragment, Fragments
    <2> QED BY <2>3, <2>4
  <1> QED BY <1>1, <1>2 DEF LastIsLast

\* Who prints keeps the two lines of a message together.
LEMMA StepPrinted ==
    ASSUME TypeOK, PrintedInv, NEW k \in Printed, CliPrints(k)
    PROVE  PrintedInv'
  <1> DEFINE n == Len(lines) + 1
  <1>t. lines \in Seq(Kinds) /\ k \in Kinds /\ Len(lines) \in Nat
    BY TransportAssumption DEF TypeOK
  <1>1. /\ lines' = Append(lines, k) /\ lines' \in Seq(Kinds)
        /\ Len(lines') = n /\ DOMAIN lines' = 1 .. n /\ DOMAIN lines = 1 .. Len(lines)
        /\ lines'[n] = k /\ \A i \in 1 .. Len(lines) : lines'[i] = lines[i]
    BY <1>t DEF CliPrints
  <1>2. /\ LastFragment = "head" => k \in {"tail", "noise"}
        /\ LastFragment # "head" => k # "tail"
    BY DEF CliPrints
  <1>3. Fragments' = Fragments \cup (IF k \in {"head", "tail"} THEN {n} ELSE {})
    BY <1>1, <1>t DEF Fragments
  <1>4. \A i \in Fragments : i \in 1 .. Len(lines)
    BY <1>1 DEF Fragments
  <1>l. LastIsLast /\ LastIsLast'
    <2>1. (lines \in Seq(Kinds) => LastIsLast)'
      BY LastOne, PTL
    <2> QED BY <1>t, <1>1, <2>1, LastOne
  <1>5. HeadsHaveTails'
    <2>1. ASSUME Len(lines) > 0, lines[Len(lines)] = "head"
          PROVE  LastFragment = "head"
      <3>1. Len(lines) \in Fragments /\ \A j \in Fragments : j <= Len(lines)
        BY <1>t, <1>1, <1>4, <2>1 DEF Fragments
      <3> QED BY <1>l, <2>1, <3>1 DEF LastIsLast
    <2>2. ASSUME LastFragment = "head" PROVE Len(lines) > 0
      BY <1>t, <1>4, <1>l, <2>2 DEF LastIsLast
    <2>3. ASSUME NEW i \in 1 .. n, lines'[i] = "head", i < n
          PROVE  lines'[i + 1] \in {"tail", "noise"}
      <3>1. i \in 1 .. Len(lines) /\ lines[i] = "head"
        BY <1>t, <1>1, <2>3
      <3>2. CASE i = Len(lines)
        BY <1>t, <1>1, <1>2, <2>1, <3>1, <3>2
      <3>3. CASE i < Len(lines)
        BY <1>t, <1>1, <3>1, <3>3 DEF PrintedInv, HeadsHaveTails
      <3> QED BY <1>t, <3>1, <3>2, <3>3
    <2>4. ASSUME NEW i \in 1 .. n, lines'[i] = "tail"
          PROVE  i > 1 /\ lines'[i - 1] \in {"head", "noise"}
      <3>1. CASE i = n
        <4>1. Len(lines) > 0 /\ lines[Len(lines)] \in {"head", "noise"}
          BY <1>1, <1>2, <2>2, <2>4, <3>1 DEF PrintedInv, OpenMessage
        <4>2. i > 1 /\ i - 1 = Len(lines) /\ Len(lines) \in 1 .. Len(lines)
          BY <1>t, <3>1, <4>1
        <4> QED BY <1>1, <4>1, <4>2
      <3>2. CASE i # n
        BY <1>t, <1>1, <2>4, <3>2 DEF PrintedInv, HeadsHaveTails
      <3> QED BY <3>1, <3>2
    <2> QED BY <1>1, <2>3, <2>4 DEF HeadsHaveTails
  <1>6. CASE k \in {"head", "tail"}
    <2>1. n \in Fragments' /\ \A j \in Fragments' : j <= n
      BY <1>t, <1>3, <1>4, <1>6
    <2>2. LastFragment' = k
      BY <1>1, <1>l, <2>1 DEF LastIsLast
    <2>3. LastIsThere' /\ OpenMessage'
      BY <1>1, <1>6, <2>1, <2>2 DEF LastIsThere, OpenMessage
    <2> QED BY <1>5, <2>3 DEF PrintedInv
  <1>7. CASE k \notin {"head", "tail"}
    <2>1. Fragments' = Fragments
      BY <1>3, <1>7
    <2>2. LastIsThere'
      BY <2>1 DEF PrintedInv, LastIsThere
    <2>3. LastFragment' = LastFragment
      <3>1. CASE Fragments = {}
        BY <1>l, <2>1, <3>1 DEF LastIsLast
      <3>2. CASE Fragments # {}
        <4>1. PICK i \in Fragments : \A j \in Fragments : j <= i
          BY <3>2 DEF PrintedInv, LastIsThere
        <4> QED BY <1>1, <1>4, <1>l, <2>1, <4>1 DEF LastIsLast
      <3> QED BY <3>1, <3>2
    <2>4. OpenMessage'
      BY <1>1, <1>2, <1>7, <2>3 DEF OpenMessage
    <2> QED BY <1>5, <2>2, <2>4 DEF PrintedInv
  <1> QED BY <1>6, <1>7

\* What has been passed on stands as it is, from the step on or for good once
\* the context is done.
LEMMA PassedKept ==
    ASSUME PassedInv, UNCHANGED <<lines, taken, buffer>>, ctxDone => ctxDone',
           ctxDone' \/ Passed' = Passed
    PROVE  PassedInv'
  <1>1. /\ Noisy' <=> Noisy
        /\ {i \in 1 .. taken : EndsMessage(i)}' = {i \in 1 .. taken : EndsMessage(i)}
    BY DEF Noisy, EndsMessage, Kind
  <1>2. HalfMessage'
    BY <1>1 DEF PassedInv, HalfMessage, Kind
  <1>3. EveryMessageOnce'
    BY <1>1 DEF PassedInv, EveryMessageOnce
  <1> QED BY <1>2, <1>3 DEF PassedInv

\* New lines are behind those that were taken.
LEMMA PrintingPasses ==
    ASSUME TypeOK, PassedInv, NEW k \in Printed, CliPrints(k)
    PROVE  PassedInv'
  <1>1. /\ \A i \in 1 .. Len(lines) : lines'[i] = lines[i]
        /\ Len(lines') = Len(lines) + 1 /\ taken \in 0 .. Len(lines)
        /\ Len(lines) \in Nat
    BY TransportAssumption DEF CliPrints, TypeOK
  <1>2. UNCHANGED <<taken, buffer, got, msgChan, reader, ctxDone>>
    BY DEF CliPrints, readVars, callVars
  <1>3. Noisy => Noisy'
    BY <1>1, <1>2 DEF Noisy, Kind
  <1>4. Passed' = Passed
    BY <1>2 DEF Passed, InHand
  <1>5. {i \in 1 .. taken : EndsMessage(i)}' = {i \in 1 .. taken : EndsMessage(i)}
    BY <1>1, <1>2 DEF EndsMessage, Kind
  <1>6. HalfMessage'
    BY <1>1, <1>2, <1>3 DEF PassedInv, HalfMessage, Kind
  <1>7. EveryMessageOnce'
    BY <1>2, <1>3, <1>4, <1>5 DEF PassedInv, EveryMessageOnce
  <1> QED BY <1>6, <1>7 DEF PassedInv

\* A line is taken: the parser holds the first half of a message, and then this
\* is the second, or it holds nothing.
LEMMA TakingPasses ==
    ASSUME TypeOK, HeadsHaveTails, PassedInv, ReaderTakes
    PROVE  PassedInv'
  <1> DEFINE k == lines[taken + 1]
             p == ProcessLine(buffer, k)
             Ends == {i \in 1 .. taken : EndsMessage(i)}
  <1>1. SUFFICES ASSUME ~ctxDone', ~Noisy' PROVE PassedInv'
    BY DEF PassedInv, HalfMessage, EveryMessageOnce
  <1>2. UNCHANGED <<lines, ctxDone, got, msgChan>>
    BY DEF ReaderTakes, procVars, callVars
  <1>3. /\ Len(lines) \in Nat /\ taken \in Nat /\ taken < Len(lines)
        /\ taken' = taken + 1 /\ k \in Kinds /\ reader = "scan"
    BY DEF ReaderTakes, TypeOK, HasLine, Following
  <1>4. /\ k \notin {"noise", "huge"} /\ ~Noisy
        /\ taken > 0 => lines[taken] # "noise"
    BY <1>1, <1>2, <1>3 DEF Noisy, Kind
  <1>5. buffer' = p.buffer
        /\ reader' = CASE p.out = "none" -> "scan" [] p.out = "msg" -> "hand"
                       [] p.out = "err" -> "report"
    BY <1>1, <1>2 DEF ReaderTakes, Kind, Following
  <1>6. buffer = IF taken > 0 /\ lines[taken] = "head" THEN <<"head">> ELSE <<>>
    BY <1>1, <1>2, <1>4 DEF PassedInv, HalfMessage, Kind
  <1>7. /\ buffer' = (IF k = "head" THEN <<"head">> ELSE <<>>)
        /\ p.out = "msg" <=> k \in {"whole", "tail"}
    <2>1. CASE taken > 0 /\ lines[taken] = "head"
      <3>1. k = "tail"
        BY <1>3, <1>4, <2>1 DEF HeadsHaveTails
      <3> QED BY <1>5, <1>6, <2>1, <3>1, ParserHalves
    <2>2. CASE ~(taken > 0 /\ lines[taken] = "head")
      <3>1. k # "tail"
        BY <1>3, <1>4, <2>2 DEF HeadsHaveTails
      <3>2. k \in Kinds \ {"noise", "huge", "tail"} /\ buffer = <<>>
        BY <1>3, <1>4, <1>6, <2>2, <3>1
      <3> QED BY <1>5, <3>1, <3>2, ParserWhole
    <2> QED BY <2>1, <2>2
  <1>8. p.out \in {"none", "msg", "err"}
    BY <1>3, ParserType DEF TypeOK
  <1>9. HalfMessage'
    BY <1>2, <1>3, <1>7 DEF HalfMessage, Kind
  <1>10. Lists(got \o msgChan, Ends)
    <2>1. Passed = got \o msgChan
      BY <1>3, HandedOver DEF Passed, InHand, TypeOK
    <2> QED BY <1>1, <1>2, <1>4, <2>1 DEF PassedInv, EveryMessageOnce
  <1>11. EveryMessageOnce'
    <2>1. CASE k \in {"whole", "tail"}
      <3>1. {i \in 1 .. taken : EndsMessage(i)}' = Ends \cup {taken + 1}
        BY <1>2, <1>3, <2>1 DEF EndsMessage, Kind
      <3>2. Passed' = Append(got \o msgChan, taken + 1)
        <4>1. InHand' = <<taken + 1>>
          BY <1>3, <1>5, <1>7, <2>1 DEF InHand
        <4>2. got \in Seq(Nat) /\ msgChan \in Seq(Nat) /\ taken + 1 \in Nat
          BY <1>3 DEF TypeOK
        <4> QED BY <1>2, <4>1, <4>2, HandedOver DEF Passed
      <3>3. got \o msgChan \in Seq(1 .. taken)
        BY DEF TypeOK
      <3>4. Lists(Append(got \o msgChan, taken + 1), Ends \cup {taken + 1})
        <4>1. taken + 1 \in Nat /\ taken + 1 > taken
          BY <1>3
        <4> HIDE DEF Ends
        <4> QED BY <1>3, <1>10, <3>3, <4>1, ListsAppend
      <3> QED BY <3>1, <3>2, <3>4 DEF EveryMessageOnce
    <2>2. CASE k \notin {"whole", "tail"}
      <3>1. {i \in 1 .. taken : EndsMessage(i)}' = Ends
        BY <1>2, <1>3, <2>2 DEF EndsMessage, Kind
      <3>2. Passed' = got \o msgChan
        <4>1. InHand' = <<>>
          BY <1>5, <1>7, <1>8, <2>2 DEF InHand
        <4> QED BY <1>2, <4>1, HandedOver DEF Passed, TypeOK
      <3> QED BY <1>10, <3>1, <3>2 DEF EveryMessageOnce
    <2> QED BY <2>1, <2>2
  <1> QED BY <1>9, <1>11 DEF PassedInv

\* Every step keeps what the process printed and what was made of it.
LEMMA StepOutput ==
    ASSUME TypeOK, ReaderIsStarted, HandIsTaken, PrintedInv, PassedInv, Next
    PROVE  ReaderIsStarted' /\ PrintedInv' /\ PassedInv'
  <1>1. ASSUME UNCHANGED lines PROVE PrintedInv'
    BY <1>1 DEF PrintedInv, LastIsThere, OpenMessage, HeadsHaveTails, Fragments,
                LastFragment
  <1>2. ASSUME UNCHANGED conn, reader # "none" \/ UNCHANGED reader
        PROVE  ReaderIsStarted'
    BY <1>2 DEF ReaderIsStarted
  <1>3. ASSUME UNCHANGED <<taken, got, msgChan>>,
               UNCHANGED reader \/ "hand" \notin {reader, reader'}
        PROVE  Passed' = Passed
    BY <1>3 DEF Passed, InHand
  <1>4. CASE Connects \/ ConnectFails \/ ParentCancelled
    <2>1. /\ UNCHANGED <<lines, taken, buffer, got, msgChan>>
          /\ ctxDone => ctxDone'
          /\ reader' = reader \/ (Connects /\ reader' = "scan")
      BY <1>4 DEF Connects, ConnectFails, ParentCancelled, procVars, readVars
    <2>2. ReaderIsStarted'
      BY <1>4, <2>1 DEF Connects, ConnectFails, ParentCancelled, ReaderIsStarted
    <2>3. Connects => reader = "none"
      BY DEF Connects, ReaderIsStarted
    <2>4. Passed' = Passed
      BY <1>3, <2>1, <2>3
    <2> QED BY <1>1, <2>1, <2>2, <2>4, PassedKept
  <1>5. ASSUME NEW s \in Senders, SendLooks(s) \/ SendStep(s)
        PROVE  ReaderIsStarted' /\ PrintedInv' /\ PassedInv'
    <2>1. UNCHANGED <<lines, readVars, conn, ctxDone>>
      BY <1>5 DEF SendStep, SendLooks, SendLocks, SendCancelled, SendWrites,
                  SendBreaks, procVars
    <2> QED BY <1>1, <1>2, <1>3, <2>1, PassedKept DEF readVars
  <1>6. ASSUME NEW k \in Closers, CloseAsks(k) \/ CloseStep(k)
        PROVE  ReaderIsStarted' /\ PrintedInv' /\ PassedInv'
    <2>1. UNCHANGED <<lines, readVars, conn>> /\ (ctxDone => ctxDone')
      BY <1>6 DEF CloseStep, CloseAsks, CloseBegins, CloseAgain, CloseTerminates,
                  CloseReaps, CloseReapsKilled, Reaps, CloseKills, CloseGraceOver,
                  procVars
    <2> QED BY <1>1, <1>2, <1>3, <2>1, PassedKept DEF readVars
  <1>7. CASE CliReads \/ CliExits \/ CliKilled
    <2>1. UNCHANGED <<lines, readVars, conn, ctxDone>>
      BY <1>7 DEF CliReads, CliExits, CliKilled, callVars
    <2> QED BY <1>1, <1>2, <1>3, <2>1, PassedKept DEF readVars
  <1>8. ASSUME NEW k \in Printed, CliPrints(k)
        PROVE  ReaderIsStarted' /\ PrintedInv' /\ PassedInv'
    <2>1. UNCHANGED <<reader, conn>>
      BY <1>8 DEF CliPrints, readVars, callVars
    <2> QED BY <1>2, <1>8, <2>1, StepPrinted, PrintingPasses
  <1>9. CASE ReaderStep \/ ReceiveMessage \/ ReceiveError
    <2>1. UNCHANGED <<lines, conn, ctxDone>> /\ (reader # "none" \/ UNCHANGED reader)
      BY <1>9 DEF ReaderStep, ReaderTakes, ReaderHands, ReaderReports,
           ReaderGivesUp, ReaderSeesEnd, ReaderFails, ReaderLeaves,
           ReceiveMessage, ReceiveError, procVars, callVars
    <2>2. PassedInv'
      <3>t. /\ got \in Seq(1 .. taken) /\ msgChan \in Seq(1 .. taken)
            /\ taken \in Nat
        BY DEF TypeOK
      <3>1. CASE ReaderTakes
        BY <3>1, TakingPasses DEF PrintedInv
      <3>2. CASE ReaderHands
        <4>1. taken \in 1 .. taken
          BY <3>t, <3>2 DEF ReaderHands, HandIsTaken
        <4>2. /\ Passed = got \o msgChan \o <<taken>>
              /\ Passed' = got \o Append(msgChan, taken) \o <<>>
          BY <3>2 DEF ReaderHands, Passed, InHand
        <4>3. Passed' = Passed
          BY <3>t, <4>1, <4>2, HandedOver
        <4> QED BY <2>1, <3>2, <4>3, PassedKept DEF ReaderHands
      <3>3. CASE ReceiveMessage
        <4>1. Append(got, Head(msgChan)) \o Tail(msgChan) = got \o msgChan
          BY <3>t, <3>3, Received DEF ReceiveMessage
        <4>2. Passed' = Passed
          BY <3>3, <4>1 DEF ReceiveMessage, Passed, InHand
        <4> QED BY <2>1, <3>3, <4>2, PassedKept DEF ReceiveMessage
      <3>4. CASE ReaderGivesUp
        BY <2>1, <3>4, PassedKept DEF ReaderGivesUp
      <3>5. CASE \/ ReaderReports \/ ReaderSeesEnd \/ ReaderFails \/ ReaderLeaves
                 \/ ReceiveError
        <4>1. /\ UNCHANGED <<taken, buffer, got, msgChan>>
              /\ UNCHANGED reader \/ "hand" \notin {reader, reader'}
          BY <3>5 DEF ReaderReports, ReaderSeesEnd, ReaderFails, ReaderLeaves,
                      ReceiveError
        <4> QED BY <1>3, <2>1, <4>1, PassedKept
      <3> QED BY <1>9, <3>1, <3>2, <3>3, <3>4, <3>5 DEF ReaderStep
    <2> QED BY <1>1, <1>2, <2>1, <2>2
  <1> QED BY <1>4, <1>5, <1>6, <1>7, <1>8, <1>9 DEF Next

-----------------------------------------------------------------------------
(* The theorems.                                                           *)

LEMMA TInvParts ==
    TInv <=> /\ TypeOK /\ HandIsTaken
             /\ LocksInv
             /\ ReaderIsStarted /\ PrintedInv /\ PassedInv
  BY DEF TInv, LocksInv, PrintedInv, PassedInv

LEMMA StepInv == TInv /\ [Next]_vars => TInv'
  <1> SUFFICES ASSUME TInv, [Next]_vars PROVE TInv'
    OBVIOUS
  <1>s. SUFFICES /\ (TypeOK /\ HandIsTaken)' /\ LocksInv'
                 /\ ReaderIsStarted' /\ PrintedInv' /\ PassedInv'
    BY TInvParts, PTL
  <1>1. CASE Next
    BY <1>1, TInvParts, StepType, StepLocks, StepOutput
  <1>2. CASE UNCHANGED vars
    <2>1. UNCHANGED <<procVars, readVars, callVars>>
      BY <1>2 DEF vars
    <2>2. (TypeOK /\ HandIsTaken)'
      <3>1. CallType' /\ ProcType' /\ OutputType'
        BY <2>1, TInvParts, TypeParts, TypeKept DEF procVars
      <3> QED BY <3>1, TypeParts, PTL
    <2>3. LocksInv'
      BY <2>1, TInvParts, LocksKept DEF procVars
    <2>4. ReaderIsStarted' /\ PrintedInv'
      BY <2>1, TInvParts DEF ReaderIsStarted, PrintedInv, LastIsThere, OpenMessage,
                             HeadsHaveTails, Fragments, LastFragment, procVars,
                             readVars, callVars
    <2>5. PassedInv'
      <3>1. Passed' = Passed
        BY <2>1 DEF Passed, InHand, readVars
      <3> QED BY <2>1, <3>1, TInvParts, PassedKept DEF procVars, readVars, callVars
    <2> QED BY <2>2, <2>3, <2>4, <2>5
  <1> QED BY <1>1, <1>2

\* Every state of a client and its transport satisfies the inductive invariant.
THEOREM TransportInvariance == Spec => []TInv
  BY InitInv, StepInv, PTL DEF Spec

\* Every variable keeps its type, and every channel, pipe and buffer its limit.
THEOREM TransportTypeCorrect == Spec => []TypeOK
  <1>1. TInv => TypeOK
    BY DEF TInv
  <1> QED BY <1>1, TransportInvariance, PTL

\* No write meets a stdin that a concurrent Disconnect has closed: close waits
\* for the writers, and who comes later finds the transport closed.
THEOREM WritesAreSafe == Spec => []WritersHaveStdin
  <1>1. TInv => WritersHaveStdin
    BY DEF TInv
  <1> QED BY <1>1, TransportInvariance, PTL

\* When one of any number of Disconnect calls has returned, the process is
\* reaped and the temporary files are gone.
THEOREM DisconnectCleansUp == Spec => []DisconnectIsFinal
  <1>1. TInv => DisconnectIsFinal
    BY DEF TInv
  <1> QED BY <1>1, TransportInvariance, PTL

\* Whatever the process prints, in whatever pieces: each of its messages is
\* received, in the channel or in the reader's hand exactly once, in order.
THEOREM MessagesKeepOrder == Spec => []EveryMessageOnce
  <1>1. TInv => EveryMessageOnce
    BY DEF TInv
  <1> QED BY <1>1, TransportInvariance, PTL
=============================================================================
