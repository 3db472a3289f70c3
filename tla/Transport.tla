------------------------------ MODULE Transport ------------------------------
(***************************************************************************)
(* One client and its transport (internal/claudecode/client.go and         *)
(* transport.go), from Connect to Disconnect: senders that write prompts   *)
(* under the read lock, handleStdout that reads, parses and hands over     *)
(* lines, any number of Disconnect calls, and the process at the other end *)
(* of both pipes.                                                          *)
(*                                                                         *)
(* The lock c.mu of the client is held by Disconnect to its end and        *)
(* otherwise only for a moment; the lock t.mu of the transport is held for *)
(* reading through a write, and for writing through close.  A waiting      *)
(* writer keeps new readers out.  The processes that call are called       *)
(* Senders and Closers; a connect happens before all of them.  Lines are   *)
(* numbered as they are written; prompts are only counted.                 *)
(***************************************************************************)
EXTENDS Parser

CONSTANTS Senders, Closers,
          InCap, OutCap,         \* what the pipes hold
          MsgCap, ErrCap,        \* channelBufferSize
          Printed,               \* the kinds of lines the process prints
          MaxLines               \* bound: lines printed in all

ASSUME TransportAssumption ==
    /\ {InCap, OutCap, MsgCap, ErrCap} \subseteq Nat \ {0}
    /\ Printed \subseteq Kinds
    /\ MaxLines \in Nat

VARIABLES
    conn,                  \* Connect: "none", "up" or "failed"
    connected,             \* connected of the client
    open,                  \* connected of the transport
    stdin,                 \* t.stdin: "open" or "nil"
    ctxDone,               \* t.ctx is done
    files,                 \* the temporary files on disk
    send, close,           \* where the callers stand
    proc,                  \* the process: "none", "up", "dead", "reaped"
    killed,                \* SIGKILL was sent to it
    input,                 \* how many prompts stand in its stdin
    lines,                 \* the kinds of the lines it printed
    taken,                 \* how many of them left the stdout pipe
    pipe,                  \* the reading end of stdout: "open" or "closed"
    reader,                \* handleStdout: "none", "scan", "hand" a message,
                           \* "report" an error, "last" error, "leave", "gone"
    buffer,                \* the parser's buffer
    msgChan,               \* the lines whose messages it holds
    errChan,               \* how many errors it holds
    got,                   \* history: the messages received
    early                  \* history: close sent SIGKILL without grace

procVars == <<proc, killed, input, lines, pipe>>
readVars == <<taken, reader, buffer, msgChan, errChan, got>>
callVars == <<conn, connected, open, stdin, ctxDone, files, send, close, early>>
vars == <<procVars, readVars, callVars>>

Init ==
    /\ conn = "none" /\ connected = FALSE /\ open = FALSE /\ stdin = "nil"
    /\ ctxDone = FALSE /\ files = {}
    /\ send = [s \in Senders |-> "idle"]
    /\ close = [k \in Closers |-> "idle"]
    /\ proc = "none" /\ killed = FALSE
    /\ input = 0 /\ lines = <<>> /\ taken = 0 /\ pipe = "open"
    /\ reader = "none" /\ buffer = <<>>
    /\ msgChan = <<>> /\ errChan = 0 /\ got = <<>>
    /\ early = FALSE

-----------------------------------------------------------------------------
(* Connect.                                                                *)

\* With MCP servers, and without a DebugWriter: two temporary files.
Connects ==
    /\ conn = "none"
    /\ conn' = "up" /\ connected' = TRUE /\ open' = TRUE /\ stdin' = "open"
    /\ files' = {"mcp", "stderr"}
    /\ proc' = "up" /\ reader' = "scan"
    /\ UNCHANGED <<ctxDone, send, close, killed, input, lines, taken, pipe,
                   buffer, msgChan, errChan, got, early>>

\* A failure after prepareMcpConfig leaves its file; a failure of cmd.Start
\* cleans up.
ConnectFails ==
    /\ conn = "none"
    /\ conn' = "failed"
    /\ files' \in SUBSET {"mcp"}
    /\ UNCHANGED <<connected, open, stdin, ctxDone, send, close, early>>
    /\ UNCHANGED <<procVars, readVars>>

\* The context given to Connect ends: CommandContext kills the process.
ParentCancelled ==
    /\ conn = "up" /\ ~ctxDone
    /\ ctxDone' = TRUE
    /\ killed' = TRUE
    /\ UNCHANGED <<conn, connected, open, stdin, files, send, close, early,
                   proc, input, lines, pipe, readVars>>

-----------------------------------------------------------------------------
(* Query, QueryWithSession, QueryStream: sendMessage.                      *)

\* Some Disconnect stands at one of these points; and the points at which it
\* has c.mu, and has t.mu or asks for it.
Closing(steps) == \E k \in Closers : close[k] \in steps
UnderLock == {"asking", "waiting", "reaping", "killing"}

\* The client is looked at under c.mu, which is then released.
SendLooks(s) ==
    /\ conn # "none" /\ send[s] = "idle"
    /\ ~Closing(UnderLock)
    /\ send' = [send EXCEPT ![s] = IF connected THEN "locking" ELSE "done"]
    /\ UNCHANGED <<conn, connected, open, stdin, ctxDone, files, close, early,
                   procVars, readVars>>

\* Mutant: the transport is not looked at again under its own lock.
SendLocks_NoCheck(s) ==
    /\ send[s] = "locking" /\ ~Closing(UnderLock)
    /\ send' = [send EXCEPT ![s] = "writing"]
    /\ UNCHANGED <<conn, connected, open, stdin, ctxDone, files, close, early,
                   procVars, readVars>>

\* t.mu is taken for reading, and held through the write.
SendLocks(s) ==
    /\ send[s] = "locking"
    /\ ~Closing(UnderLock)
    /\ send' = [send EXCEPT ![s] = IF open /\ stdin = "open" THEN "writing"
                                   ELSE "done"]
    /\ UNCHANGED <<conn, connected, open, stdin, ctxDone, files, close, early,
                   procVars, readVars>>

\* The context of the caller is done.
SendCancelled(s) ==
    /\ send[s] = "locking"
    /\ ~Closing(UnderLock)
    /\ send' = [send EXCEPT ![s] = "done"]
    /\ UNCHANGED <<conn, connected, open, stdin, ctxDone, files, close, early,
                   procVars, readVars>>

\* The write waits for room in the pipe ...
SendWrites(s) ==
    /\ send[s] = "writing"
    /\ proc = "up" /\ input < InCap
    /\ input' = input + 1
    /\ send' = [send EXCEPT ![s] = "done"]
    /\ UNCHANGED <<conn, connected, open, stdin, ctxDone, files, close, early,
                   proc, killed, lines, pipe, readVars>>

\* Mutant: the lock is not released when the write fails.
SendBreaks_KeepsLock(s) ==
    /\ send[s] = "writing" /\ proc # "up"
    /\ UNCHANGED vars

\* ... and fails when nobody reads it any more.
SendBreaks(s) ==
    /\ send[s] = "writing"
    /\ proc # "up"
    /\ send' = [send EXCEPT ![s] = "done"]
    /\ UNCHANGED <<conn, connected, open, stdin, ctxDone, files, close, early,
                   procVars, readVars>>

-----------------------------------------------------------------------------
(* handleStdout.                                                           *)

Kind(i) == lines[i]
Following == taken + 1
HasLine == taken < Len(lines)

\* Mutant: a parse error ends the reader.
ReaderTakes_ErrorEnds ==
    /\ reader = "scan" /\ HasLine /\ Kind(Following) # "huge"
    /\ taken' = Following
    /\ LET p == ProcessLine(buffer, Kind(Following))
       IN  /\ buffer' = p.buffer
           /\ reader' = CASE p.out = "none" -> "scan" [] p.out = "msg" -> "hand"
                          [] p.out = "err"  -> "last"
    /\ UNCHANGED <<msgChan, errChan, got, procVars, callVars>>

\* A line is scanned; it is parsed unless the context is done.
ReaderTakes ==
    /\ reader = "scan" /\ HasLine
    /\ Kind(Following) # "huge"
    /\ taken' = Following
    /\ IF ctxDone
       THEN reader' = "leave" /\ UNCHANGED buffer
       ELSE LET p == ProcessLine(buffer, Kind(Following))
            IN  /\ buffer' = p.buffer
                /\ reader' = CASE p.out = "none" -> "scan"
                               [] p.out = "msg"  -> "hand"
                               [] p.out = "err"  -> "report"
    /\ UNCHANGED <<msgChan, errChan, got, procVars, callVars>>

\* Mutant: a message is dropped when the channel is full.
ReaderHands_OrDrops ==
    /\ reader = "hand"
    /\ msgChan' = IF Len(msgChan) < MsgCap THEN Append(msgChan, taken) ELSE msgChan
    /\ reader' = "scan"
    /\ UNCHANGED <<taken, buffer, errChan, got, procVars, callVars>>

\* The message goes to msgChan when there is room.
ReaderHands ==
    /\ reader = "hand"
    /\ Len(msgChan) < MsgCap
    /\ msgChan' = Append(msgChan, taken)
    /\ reader' = "scan"
    /\ UNCHANGED <<taken, buffer, errChan, got, procVars, callVars>>

\* The error goes to errChan when there is room; after the last one the
\* reader leaves.
ReaderReports ==
    /\ reader \in {"report", "last"}
    /\ errChan < ErrCap
    /\ errChan' = errChan + 1
    /\ reader' = IF reader = "report" THEN "scan" ELSE "leave"
    /\ UNCHANGED <<taken, buffer, msgChan, got, procVars, callVars>>

\* Mutant: a reader with a message in its hand does not look at the context.
ReaderGivesUp_ErrorsOnly ==
    /\ reader \in {"report", "last"} /\ ctxDone
    /\ reader' = "leave"
    /\ UNCHANGED <<taken, buffer, msgChan, errChan, got, procVars, callVars>>

\* Each of these selects also has the case of the context.
ReaderGivesUp ==
    /\ reader \in {"hand", "report", "last"}
    /\ ctxDone
    /\ reader' = "leave"
    /\ UNCHANGED <<taken, buffer, msgChan, errChan, got, procVars, callVars>>

\* The process is gone and its output is used up.
ReaderSeesEnd ==
    /\ reader = "scan"
    /\ pipe = "open" /\ taken = Len(lines) /\ proc # "up"
    /\ reader' = "leave"
    /\ UNCHANGED <<taken, buffer, msgChan, errChan, got, procVars, callVars>>

\* The scanner fails: a line is too long, or cmd.Wait closed the pipe (the
\* scanner may still hold lines it read before).
ReaderFails ==
    /\ reader = "scan"
    /\ pipe = "closed" \/ (HasLine /\ Kind(Following) = "huge")
    /\ reader' = "last"
    /\ UNCHANGED <<taken, buffer, msgChan, errChan, got, procVars, callVars>>

\* The deferred calls: close(errChan), close(msgChan), wg.Done.
ReaderLeaves ==
    /\ reader = "leave"
    /\ reader' = "gone"
    /\ UNCHANGED <<taken, buffer, msgChan, errChan, got, procVars, callVars>>

ReaderStep ==
    \/ ReaderTakes \/ ReaderHands \/ ReaderReports \/ ReaderGivesUp
    \/ ReaderSeesEnd \/ ReaderFails \/ ReaderLeaves

\* Who ranges over ReceiveMessages(), and over ReceiveErrors().
ReceiveMessage ==
    /\ msgChan # <<>>
    /\ got' = Append(got, Head(msgChan)) /\ msgChan' = Tail(msgChan)
    /\ UNCHANGED <<taken, reader, buffer, errChan, procVars, callVars>>

ReceiveError ==
    /\ errChan > 0
    /\ errChan' = errChan - 1
    /\ UNCHANGED <<taken, reader, buffer, msgChan, got, procVars, callVars>>

-----------------------------------------------------------------------------
(* Disconnect of the client, and close of the transport.                   *)

\* Disconnect takes c.mu; on a client that is not connected it is done.
CloseAsks(k) ==
    /\ conn # "none" /\ close[k] = "idle"
    /\ ~Closing(UnderLock)
    /\ close' = [close EXCEPT ![k] = IF connected THEN "asking" ELSE "returned"]
    /\ UNCHANGED <<conn, connected, open, stdin, ctxDone, files, send, early,
                   procVars, readVars>>

\* Mutant: close does not wait for the writers.
CloseBegins_NoLock(k) ==
    /\ close[k] = "asking" /\ open
    /\ close' = [close EXCEPT ![k] = "waiting"]
    /\ open' = FALSE /\ ctxDone' = TRUE /\ stdin' = "nil"
    /\ UNCHANGED <<conn, connected, files, send, early, procVars, readVars>>

\* Mutant: the context is not cancelled.
CloseBegins_NoCancel(k) ==
    /\ close[k] = "asking" /\ open /\ \A s \in Senders : send[s] # "writing"
    /\ close' = [close EXCEPT ![k] = "waiting"]
    /\ open' = FALSE /\ stdin' = "nil"
    /\ UNCHANGED <<conn, connected, ctxDone, files, send, early, procVars,
                   readVars>>

\* close takes t.mu when no write is under way: the context is cancelled and
\* stdin is closed.
CloseBegins(k) ==
    /\ close[k] = "asking" /\ open
    /\ \A s \in Senders : send[s] # "writing"
    /\ close' = [close EXCEPT ![k] = "waiting"]
    /\ open' = FALSE /\ ctxDone' = TRUE /\ stdin' = "nil"
    /\ UNCHANGED <<conn, connected, files, send, early, procVars, readVars>>

\* The transport is closed already: close returns nil, Disconnect resets the
\* client.
CloseAgain(k) ==
    /\ close[k] = "asking" /\ ~open
    /\ close' = [close EXCEPT ![k] = "returned"]
    /\ connected' = FALSE
    /\ UNCHANGED <<conn, open, stdin, ctxDone, files, send, early, procVars,
                   readVars>>

\* The reader has left or the timer has fired, at any time for a reader may be
\* slow: terminateProcess sends SIGTERM, which does not fail because the
\* process has not been waited for yet.
CloseTerminates(k) ==
    /\ close[k] = "waiting"
    /\ close' = [close EXCEPT ![k] = "reaping"]
    /\ UNCHANGED <<conn, connected, open, stdin, ctxDone, files, send, early,
                   procVars, readVars>>

\* cmd.Wait has returned: the process is reaped and the pipe is closed.  Then
\* comes cleanup, and Disconnect resets the client unless close had an error.
Reaps(k, failed) ==
    /\ proc = "dead"
    /\ proc' = "reaped" /\ pipe' = "closed"
    /\ files' = {}
    /\ connected' = failed
    /\ close' = [close EXCEPT ![k] = "returned"]
    /\ UNCHANGED <<conn, open, stdin, ctxDone, send, early, killed, input,
                   lines, readVars>>

\* Mutant: an error of the process skips cleanup.
CloseReaps_ErrorFirst(k) ==
    /\ close[k] = "reaping"
    /\ \/ Reaps(k, FALSE)
       \/ /\ proc = "dead" /\ proc' = "reaped" /\ pipe' = "closed"
          /\ close' = [close EXCEPT ![k] = "returned"]
          /\ UNCHANGED <<conn, connected, open, stdin, ctxDone, files, send,
                         early, killed, input, lines, readVars>>

\* The select takes the answer of cmd.Wait, an error when the process exited
\* with a status other than 0 ...
CloseReaps(k) ==
    /\ close[k] = "reaping"
    /\ \E failed \in BOOLEAN : Reaps(k, failed)

\* ... or the context, which is done: SIGKILL ...
CloseKills(k) ==
    /\ close[k] = "reaping" /\ ctxDone
    /\ close' = [close EXCEPT ![k] = "killing"]
    /\ killed' = TRUE
    /\ early' = (early \/ (proc = "up" /\ ~killed))
    /\ UNCHANGED <<conn, connected, open, stdin, ctxDone, files, send, proc,
                   input, lines, pipe, readVars>>

\* ... or the timer of the grace period: SIGKILL.
CloseGraceOver(k) ==
    /\ close[k] = "reaping"
    /\ close' = [close EXCEPT ![k] = "killing"]
    /\ killed' = TRUE
    /\ UNCHANGED <<conn, connected, open, stdin, ctxDone, files, send, early,
                   proc, input, lines, pipe, readVars>>

\* Mutant: nobody waits for the process that was killed.
CloseReapsKilled_NoWait(k) ==
    /\ close[k] = "killing"
    /\ files' = {} /\ connected' = FALSE
    /\ close' = [close EXCEPT ![k] = "returned"]
    /\ UNCHANGED <<conn, open, stdin, ctxDone, send, early, procVars,
                   readVars>>

\* After SIGKILL the answer of cmd.Wait is awaited and forgotten.
CloseReapsKilled(k) ==
    /\ close[k] = "killing"
    /\ Reaps(k, FALSE)

CloseStep(k) ==
    \/ CloseBegins(k) \/ CloseAgain(k) \/ CloseTerminates(k) \/ CloseReaps(k)
    \/ CloseKills(k) \/ CloseGraceOver(k) \/ CloseReapsKilled(k)

-----------------------------------------------------------------------------
(* The process (not under src/).                                           *)

CliReads ==
    /\ proc = "up" /\ input > 0
    /\ input' = input - 1
    /\ UNCHANGED <<proc, killed, lines, pipe, readVars, callVars>>

\* It prints a line, the second of a message only after the first.
LastFragment ==
    LET at == {i \in DOMAIN lines : lines[i] \in {"head", "tail"}}
    IN  IF at = {} THEN "tail" ELSE lines[CHOOSE i \in at : \A j \in at : j <= i]
CliPrints(k) ==
    /\ proc = "up" /\ pipe = "open"
    /\ Len(lines) - taken < OutCap /\ Len(lines) < MaxLines
    /\ CASE LastFragment = "head" -> k \in {"tail", "noise"}
         [] OTHER                 -> k # "tail"
    /\ lines' = Append(lines, k)
    /\ UNCHANGED <<proc, killed, input, pipe, readVars, callVars>>

\* It may exit at any time: of itself, at the end of its stdin, of SIGINT
\* (Interrupt) or of SIGTERM; no signal but SIGKILL is sure to end it, so the
\* others change nothing here.
CliExits ==
    /\ proc = "up"
    /\ proc' = "dead"
    /\ UNCHANGED <<killed, input, lines, pipe, readVars, callVars>>

\* SIGKILL it cannot survive.
CliKilled ==
    /\ proc = "up" /\ killed
    /\ proc' = "dead"
    /\ UNCHANGED <<killed, input, lines, pipe, readVars, callVars>>

-----------------------------------------------------------------------------
SendStep(s) == SendLocks(s) \/ SendCancelled(s) \/ SendWrites(s) \/ SendBreaks(s)

Next ==
    \/ Connects \/ ConnectFails \/ ParentCancelled
    \/ \E s \in Senders : SendLooks(s) \/ SendStep(s)
    \/ ReaderStep \/ ReceiveMessage \/ ReceiveError
    \/ \E k \in Closers : CloseAsks(k) \/ CloseStep(k)
    \/ CliReads \/ CliExits \/ CliKilled
    \/ \E k \in Printed : CliPrints(k)

Spec == Init /\ [][Next]_vars

\* Goroutines are scheduled, and a process that was sent SIGKILL dies; it need
\* not do anything else, and nobody must call or receive.
FairSpec ==
    /\ Spec
    /\ WF_vars(ReaderStep) /\ WF_vars(CliKilled)
    /\ \A s \in Senders : WF_vars(SendStep(s))
    /\ \A k \in Closers : WF_vars(CloseStep(k))

-----------------------------------------------------------------------------
(* Properties.                                                             *)

\* Every variable has its type; channels, pipes and the parser's buffer keep
\* their limits.
TypeOK ==
    /\ conn \in {"none", "up", "failed"} /\ connected \in BOOLEAN
    /\ open \in BOOLEAN /\ stdin \in {"open", "nil"} /\ ctxDone \in BOOLEAN
    /\ files \subseteq {"mcp", "stderr"}
    /\ send \in [Senders -> {"idle", "locking", "writing", "done"}]
    /\ close \in [Closers -> UnderLock \cup {"idle", "returned"}]
    /\ proc \in {"none", "up", "dead", "reaped"}
    /\ killed \in BOOLEAN
    /\ input \in 0 .. InCap
    /\ lines \in Seq(Kinds) /\ taken \in 0 .. Len(lines)
    /\ Len(lines) - taken <= OutCap
    /\ pipe \in {"open", "closed"}
    /\ reader \in {"none", "scan", "hand", "report", "last", "leave", "gone"}
    /\ buffer \in Seq(Kinds) /\ Len(buffer) <= BufferLimit
    /\ msgChan \in Seq(1 .. taken) /\ Len(msgChan) <= MsgCap
    /\ errChan \in 0 .. ErrCap
    /\ got \in Seq(1 .. taken)
    /\ early \in BOOLEAN

\* A write never meets a stdin that was closed, or set to nil, by a concurrent
\* Disconnect.
WritersHaveStdin ==
    \A s \in Senders : send[s] = "writing" => stdin = "open"

\* When any Disconnect of a connected client has returned, the process is gone
\* for good and both files are removed ("Cleanup: Closes pipes, removes temp
\* files", docs/architecture.md:83), whatever its exit and however many
\* of these calls there are.
DisconnectIsFinal ==
    conn = "up" /\ (\E k \in Closers : close[k] = "returned") =>
        proc = "reaped" /\ files = {}

\* Every message the process printed becomes one message, at its place in the
\* order, as long as the context is not done, and no line was printed that is
\* part of no object or that is too long.
Noisy == \E i \in 1 .. taken + 1 : i <= Len(lines) /\ Kind(i) \in {"noise", "huge"}
InHand == IF reader = "hand" THEN <<taken>> ELSE <<>>
EndsMessage(i) == Kind(i) \in {"whole", "tail"}
Passed == got \o msgChan \o InHand
Lists(s, S) ==
    /\ \A i, j \in DOMAIN s : i < j => s[i] < s[j]
    /\ \A n \in S : \E i \in DOMAIN s : s[i] = n
    /\ \A i \in DOMAIN s : s[i] \in S
EveryMessageOnce ==
    ~ctxDone /\ ~Noisy => Lists(Passed, {i \in 1 .. taken : EndsMessage(i)})

\* Once Disconnect has begun, the goroutine that reads stdout ends, though
\* nobody receives from its channels.
ReaderEnds == conn = "up" /\ ~open ~> reader = "gone"

\* A Disconnect returns, unless a write waits for a process that neither reads
\* nor dies.
ProcessReads == []<>(input < InCap \/ proc # "up")
DisconnectReturns ==
    ProcessReads => (Closing(UnderLock) ~> ~Closing(UnderLock))

\* Errors do not end the stream: with somebody at both channels every message
\* arrives, behind lines that are none.
BothReceived == []<>(msgChan = <<>>) /\ []<>(errChan = 0)
MessagesArrive ==
    BothReceived =>
        \A i \in 1 .. MaxLines :
            (i <= Len(lines) /\ ~ctxDone /\ EndsMessage(i)) ~>
                (ctxDone \/ Noisy \/ \E j \in DOMAIN got : got[j] = i)

\* "Termination: SIGTERM -> 5s grace period -> SIGKILL"
\* (docs/architecture.md:81): close does not kill, without waiting for the grace
\* period, a process that the end of Connect's context had not killed before.
GraceIsGiven == ~early
=============================================================================
