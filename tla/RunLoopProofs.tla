--------------------------- MODULE RunLoopProofs ----------------------------
(***************************************************************************)
(* Theorems about RunLoop, for any number of Send and Start calls and any  *)
(* queue limit: the type invariant, the safety invariants that the run     *)
(* RunLoop checks, and that RunLoop implements TurnServer.                 *)
(* They follow from the inductive invariant IInv.                          *)
(***************************************************************************)
EXTENDS RunLoop, TLAPS

-----------------------------------------------------------------------------
(* Facts about sequences and their elements.                               *)

\* A sequence over a set is one over any larger set.
LEMMA SeqWiden ==
    ASSUME NEW S, NEW T, S \subseteq T, NEW s \in Seq(S)
    PROVE  s \in Seq(T)
  OBVIOUS

\* The elements of a sequence come from its set.
LEMMA RangeOfSeq ==
    ASSUME NEW S, NEW s \in Seq(S)
    PROVE  Range(s) \subseteq S
  BY DEF Range

\* The elements of an empty, a one-element and an extended sequence.
LEMMA RangeEmpty == Range(<<>>) = {}
  BY DEF Range

LEMMA RangeSingle == ASSUME NEW x PROVE Range(<<x>>) = {x}
  BY DEF Range

LEMMA RangeAppend ==
    ASSUME NEW S, NEW s \in Seq(S), NEW x \in S
    PROVE  Range(Append(s, x)) = Range(s) \cup {x}
  <1>1. \A i \in DOMAIN s : i \in DOMAIN Append(s, x) /\ Append(s, x)[i] = s[i]
    OBVIOUS
  <1>2. \A i \in DOMAIN Append(s, x) :
           \/ i \in DOMAIN s /\ Append(s, x)[i] = s[i]
           \/ i = Len(s) + 1 /\ Append(s, x)[i] = x
    OBVIOUS
  <1>3. Len(s) + 1 \in DOMAIN Append(s, x) /\ Append(s, x)[Len(s) + 1] = x
    OBVIOUS
  <1> QED BY <1>1, <1>2, <1>3 DEF Range

\* A message later than all of a sequence extends it in order.
LEMMA AscendingAppend ==
    ASSUME NEW n \in Nat, NEW s \in Seq(1 .. n), Ascending(s)
    PROVE  Ascending(Append(s, n + 1))
  BY DEF Ascending
-----------------------------------------------------------------------------
(* The inductive invariant.                                                *)

\* c.running is owned by the one goroutine that will reset it.
RunningIsOwned == running <=> Owners # {}

\* c.runCancel cancels the context of that goroutine's turn.
CancelHitsOwner ==
    /\ \A l \in Owners : turn[l] # <<>> /\ runCancel = turn[l][1]
    /\ Owners = {} => runCancel = None

\* No goroutine and no fate belongs to a Send that was not made.
UnsentUntouched ==
    \A m \in Msgs : m > sent => pc[m] = "none" /\ fate[m] = "none"

\* No context of a queued message exists, and no cancellation has hit it.
QueueIsFresh == \A m \in Range(queue) : m \notin cancelled /\ m \notin doomed

\* Before a turn begins its context is done exactly when it is doomed.
DoomedTurnIsCancelled ==
    \A l \in Msgs : pc[l] = "begin" =>
        \A m \in Range(turn[l]) : m \in doomed <=> turn[l][1] \in cancelled

\* From the beginning of its turn on, the fate of a message is settled.
FateFollowsTurn ==
    \A l \in Msgs : pc[l] \in {"turn", "drain", "release"} =>
        \A m \in Range(turn[l]) :
            fate[m] # "none" /\ (pc[l] = "turn" => fate[m] = "begun")

\* A life that was stopped is over.
StopEndsLife ==
    \A k \in Lives : stop[k] # "none" =>
        k <= life /\ (k = life => status # "running")

IInv ==
    /\ TypeOK
    /\ OneTurnAtATime
    /\ RunningIsOwned
    /\ CancelHitsOwner
    /\ UnsentUntouched
    /\ QueueIsFresh
    /\ DoomedTurnIsCancelled
    /\ FateFollowsTurn
    /\ NothingLost
    /\ KeptInOrder
    /\ CancelledNeverBegins
    /\ OnlyCancelledDropped
    /\ StopEndsLife
    /\ StoppedIsQuiet

-----------------------------------------------------------------------------
\* The same, without a union of sets.
LEMMA AboutToBeginElement ==
    \A m : m \in AboutToBegin <=>
            \E l \in Msgs : pc[l] = "begin" /\ m \in Range(turn[l])
  BY DEF AboutToBegin

\* Every message that is held anywhere was sent.
LEMMA HeldWasSent ==
    ASSUME TypeOK
    PROVE  /\ Range(queue) \subseteq 1 .. sent
           /\ \A l \in Msgs : Range(turn[l]) \subseteq 1 .. sent
           /\ AboutToBegin \subseteq 1 .. sent
           /\ 1 .. sent \subseteq Msgs
           /\ sent \in Nat
  <1>1. Range(queue) \subseteq 1 .. sent /\ \A l \in Msgs : Range(turn[l]) \subseteq 1 .. sent
    BY RangeOfSeq DEF TypeOK
  <1>2. 1 .. sent \subseteq Msgs /\ sent \in Nat
    BY RunLoopAssumption DEF TypeOK, Msgs
  <1> QED BY <1>1, <1>2, AboutToBeginElement

\* What runCancel cancels is no queued message's context.
LEMMA RunCancelNotQueued ==
    ASSUME IInv, runCancel # None
    PROVE  /\ runCancel \notin Range(queue)
           /\ \A l \in Msgs : pc[l] = "begin" => turn[l][1] = runCancel
  <1>1. PICK l \in Owners : turn[l] # <<>> /\ runCancel = turn[l][1]
    BY DEF IInv, CancelHitsOwner
  <1>2. runCancel \in Range(turn[l]) /\ l \in Msgs
    BY <1>1 DEF Range, IInv, TypeOK, Owners
  <1>3. CASE pc[l] = "begin"
    BY <1>1, <1>2, <1>3, AboutToBeginElement
       DEF IInv, NothingLost, CancelHitsOwner, Owners
  <1>4. CASE pc[l] # "begin"
    BY <1>1, <1>2, <1>4, HeldWasSent DEF IInv, NothingLost, FateFollowsTurn,
         Owners, Waiting, CancelHitsOwner, OneTurnAtATime
  <1> QED BY <1>3, <1>4

\* The initial states satisfy the inductive invariant.
LEMMA InitInv == Init => IInv
  <1> SUFFICES ASSUME Init PROVE IInv
    OBVIOUS
  <1>1. Waiting = {} /\ Range(queue) = {} /\ AboutToBegin = {}
    BY RangeEmpty, AboutToBeginElement DEF Init, Waiting
  <1>2. TypeOK
    <2>1. turn \in [Msgs -> Seq(1 .. sent)] /\ queue \in Seq(1 .. sent)
      BY DEF Init
    <2>2. pc \in [Msgs -> Places]
      BY DEF Init, Places
    <2>3. stop \in [Lives -> {"none", "waiting", "relayWait", "returned"}]
          /\ fate \in [Msgs -> {"none", "refused", "begun", "dropped"}]
      BY DEF Init
    <2>4. life \in 0 .. MaxStarts /\ sent \in 0 .. MaxSends /\ runCancel \in 0 .. sent
          /\ Len(queue) <= MaxQueue
      BY RunLoopAssumption DEF Init, None
    <2>5. cancelled \subseteq 1 .. sent /\ doomed \subseteq 1 .. sent
          /\ status \in {"idle", "running", "stopped"} /\ running \in BOOLEAN
      BY DEF Init
    <2> QED BY <2>1, <2>2, <2>3, <2>4, <2>5 DEF TypeOK
  <1>3. Owners = {} /\ Live = {}
    BY DEF Init, Owners, Live
  <1>4. OneTurnAtATime /\ RunningIsOwned /\ CancelHitsOwner
    BY <1>3 DEF Init, OneTurnAtATime, RunningIsOwned, CancelHitsOwner
  <1>5. UnsentUntouched /\ QueueIsFresh /\ DoomedTurnIsCancelled /\ FateFollowsTurn
    BY <1>1 DEF Init, UnsentUntouched, QueueIsFresh, DoomedTurnIsCancelled,
         FateFollowsTurn
  <1>6. NothingLost
    BY <1>1 DEF Init, NothingLost, Msgs
  <1>7. KeptInOrder
    BY DEF Init, KeptInOrder, Ascending
  <1>8. CancelledNeverBegins /\ OnlyCancelledDropped /\ StopEndsLife /\ StoppedIsQuiet
    BY DEF Init, CancelledNeverBegins, OnlyCancelledDropped, StopEndsLife,
         StoppedIsQuiet
  <1> QED BY <1>2, <1>4, <1>5, <1>6, <1>7, <1>8 DEF IInv

\* Every step keeps it.
LEMMA StepInv == ASSUME IInv, Next PROVE IInv'
  <1>a. \A m : m \in AboutToBegin' <=>
            \E l \in Msgs : pc'[l] = "begin" /\ m \in Range(turn'[l])
    BY DEF AboutToBegin
  <1>b. /\ Range(queue) \subseteq 1 .. sent
        /\ \A l \in Msgs : Range(turn[l]) \subseteq 1 .. sent
        /\ AboutToBegin \subseteq 1 .. sent
        /\ 1 .. sent \subseteq Msgs
        /\ sent \in Nat
    BY HeldWasSent DEF IInv
  <1>c. runCancel # None =>
           /\ runCancel \notin Range(queue)
           /\ \A l \in Msgs : pc[l] = "begin" => turn[l][1] = runCancel
    BY RunCancelNotQueued
  <1>1. ASSUME Start PROVE IInv'
    <2>a. AboutToBegin' = AboutToBegin
      BY <1>1, <1>a, AboutToBeginElement DEF Start, loopVars, TypeOK, IInv
    <2>q. queue' = queue
      BY <1>1 DEF Start, loopVars
    <2>1. TypeOK'
      BY <1>1, <1>b, RunLoopAssumption
         DEF Start, loopVars, TypeOK, Places, Msgs, Lives, IInv
    <2>2. OneTurnAtATime' /\ RunningIsOwned' /\ CancelHitsOwner'
      BY <1>1 DEF Start, loopVars, OneTurnAtATime, RunningIsOwned,
           CancelHitsOwner, Owners, TypeOK, None, IInv
    <2>3. UnsentUntouched'
      BY <1>1, <1>b DEF Start, loopVars, UnsentUntouched, TypeOK, Msgs, IInv
    <2>4. StopEndsLife' /\ StoppedIsQuiet'
      BY <1>1 DEF Start, loopVars, StopEndsLife, StoppedIsQuiet, Live,
           TypeOK, Lives, IInv
    <2>5. QueueIsFresh'
      BY <1>1, <2>q DEF Start, loopVars, QueueIsFresh, IInv
    <2>6. DoomedTurnIsCancelled'
      BY <1>1 DEF Start, loopVars, DoomedTurnIsCancelled, TypeOK, IInv
    <2>7. FateFollowsTurn'
      BY <1>1 DEF Start, loopVars, FateFollowsTurn, TypeOK, IInv
    <2>8. NothingLost'
      BY <1>1, <2>a, <2>q DEF Start, loopVars, NothingLost, Waiting, IInv
    <2>9. KeptInOrder'
      BY <1>1 DEF Start, loopVars, KeptInOrder, IInv
    <2>10. CancelledNeverBegins' /\ OnlyCancelledDropped'
      BY <1>1 DEF Start, loopVars, CancelledNeverBegins,
           OnlyCancelledDropped, IInv
    <2> QED BY <2>1, <2>2, <2>3, <2>4, <2>5, <2>6, <2>7, <2>8, <2>9, <2>10
               DEF IInv
  <1>2. ASSUME SendRefused PROVE IInv'
    <2>a. AboutToBegin' = AboutToBegin
      BY <1>2, <1>a, AboutToBeginElement
         DEF SendRefused, loopVars, TypeOK, IInv
    <2>q. queue' = queue
      BY <1>2 DEF SendRefused, loopVars
    <2>1. TypeOK'
      BY <1>2, <1>b, RunLoopAssumption
         DEF SendRefused, loopVars, TypeOK, Places, Msgs, Lives, IInv
    <2>2. OneTurnAtATime' /\ RunningIsOwned' /\ CancelHitsOwner'
      BY <1>2 DEF SendRefused, loopVars, OneTurnAtATime, RunningIsOwned,
           CancelHitsOwner, Owners, TypeOK, None, IInv
    <2>3. UnsentUntouched'
      BY <1>2, <1>b DEF SendRefused, loopVars, UnsentUntouched, TypeOK, Msgs,
           IInv
    <2>4. StopEndsLife' /\ StoppedIsQuiet'
      BY <1>2 DEF SendRefused, loopVars, StopEndsLife, StoppedIsQuiet, Live,
           TypeOK, Lives, IInv
    <2>5. QueueIsFresh'
      BY <1>2, <2>q DEF SendRefused, loopVars, QueueIsFresh, IInv
    <2>6. DoomedTurnIsCancelled'
      BY <1>2 DEF SendRefused, loopVars, DoomedTurnIsCancelled, TypeOK, IInv
    <2>7. FateFollowsTurn'
      BY <1>2, <1>b DEF SendRefused, loopVars, FateFollowsTurn, TypeOK, IInv
    <2>8. NothingLost'
      BY <1>2, <2>a, <2>q, <1>b DEF SendRefused, loopVars, NothingLost,
           Waiting, TypeOK, UnsentUntouched, Msgs, IInv
    <2>9. KeptInOrder'
      BY <1>2 DEF SendRefused, loopVars, KeptInOrder, IInv
    <2>10. CancelledNeverBegins' /\ OnlyCancelledDropped'
      BY <1>2 DEF SendRefused, loopVars, CancelledNeverBegins,
           OnlyCancelledDropped, IInv
    <2> QED BY <2>1, <2>2, <2>3, <2>4, <2>5, <2>6, <2>7, <2>8, <2>9, <2>10
               DEF IInv
  <1>3. ASSUME SendQueues PROVE IInv'
    <2>a. AboutToBegin' = AboutToBegin
      BY <1>3, <1>a, AboutToBeginElement DEF SendQueues, TypeOK, IInv
    <2>q. Range(queue') = Range(queue) \cup {sent + 1}
      <3>1. queue \in Seq(1 .. sent + 1) /\ sent + 1 \in 1 .. sent + 1
        BY <1>3 DEF SendQueues, TypeOK, IInv
      <3> QED BY <3>1, <1>3, RangeAppend DEF SendQueues
    <2>1. TypeOK'
      BY <1>3, <1>b, RunLoopAssumption
         DEF SendQueues, TypeOK, Places, Msgs, Lives, IInv
    <2>2. OneTurnAtATime' /\ RunningIsOwned' /\ CancelHitsOwner'
      BY <1>3 DEF SendQueues, OneTurnAtATime, RunningIsOwned,
           CancelHitsOwner, Owners, TypeOK, None, IInv
    <2>3. UnsentUntouched'
      BY <1>3, <1>b DEF SendQueues, UnsentUntouched, TypeOK, Msgs, IInv
    <2>4. StopEndsLife' /\ StoppedIsQuiet'
      BY <1>3 DEF SendQueues, StopEndsLife, StoppedIsQuiet, Live, TypeOK,
           Lives, IInv
    <2>5. QueueIsFresh'
      BY <1>3, <2>q, <1>b DEF SendQueues, QueueIsFresh, TypeOK, IInv
    <2>6. DoomedTurnIsCancelled'
      BY <1>3 DEF SendQueues, DoomedTurnIsCancelled, TypeOK, IInv
    <2>7. FateFollowsTurn'
      BY <1>3 DEF SendQueues, FateFollowsTurn, TypeOK, IInv
    <2>8. NothingLost'
      BY <1>3, <2>a, <2>q, <1>b DEF SendQueues, NothingLost, Waiting,
           UnsentUntouched, TypeOK, Msgs, IInv
    <2>9. KeptInOrder'
      BY <1>3, <1>b, AscendingAppend DEF SendQueues, KeptInOrder, TypeOK, IInv
    <2>10. CancelledNeverBegins' /\ OnlyCancelledDropped'
      BY <1>3 DEF SendQueues, CancelledNeverBegins, OnlyCancelledDropped, IInv
    <2> QED BY <2>1, <2>2, <2>3, <2>4, <2>5, <2>6, <2>7, <2>8, <2>9, <2>10
               DEF IInv
  <1>4. ASSUME SendStarts PROVE IInv'
    <2>a. AboutToBegin = {} /\ AboutToBegin' = {sent + 1}
      <3>1. AboutToBegin = {}
        BY <1>4, AboutToBeginElement
           DEF SendStarts, RunningIsOwned, Owners, IInv
      <3>2. sent + 1 \in Msgs
        BY <1>4, RunLoopAssumption DEF SendStarts, TypeOK, Msgs, IInv
      <3>3. \A k \in Msgs : pc'[k] = "begin" <=> k = sent + 1
        BY <1>4, <3>2 DEF SendStarts, RunningIsOwned, Owners, TypeOK, IInv
      <3>4. turn'[sent + 1] = <<sent + 1>>
        BY <1>4, <3>2 DEF SendStarts, TypeOK, IInv
      <3> QED BY <3>1, <3>2, <3>3, <3>4, <1>a, RangeSingle
    <2>q. queue' = queue
      BY <1>4 DEF SendStarts
    <2>1. TypeOK'
      BY <1>4, <1>b, RunLoopAssumption
         DEF SendStarts, TypeOK, Places, Msgs, Lives, IInv
    <2>2. OneTurnAtATime' /\ RunningIsOwned' /\ CancelHitsOwner'
      <3>1. sent + 1 \in Msgs
        BY <1>4, RunLoopAssumption DEF SendStarts, TypeOK, Msgs, IInv
      <3>2. Owners' = {sent + 1}
        BY <1>4, <3>1 DEF SendStarts, RunningIsOwned, Owners, TypeOK, IInv
      <3>3. turn'[sent + 1] = <<sent + 1>> /\ runCancel' = sent + 1 /\ running'
        BY <1>4, <3>1 DEF SendStarts, TypeOK, IInv
      <3> QED BY <3>2, <3>3 DEF OneTurnAtATime, RunningIsOwned, CancelHitsOwner
    <2>3. UnsentUntouched'
      BY <1>4, <1>b DEF SendStarts, UnsentUntouched, TypeOK, Msgs, IInv
    <2>4. StopEndsLife' /\ StoppedIsQuiet'
      BY <1>4 DEF SendStarts, StopEndsLife, StoppedIsQuiet, Live, TypeOK,
           Lives, IInv
    <2>5. QueueIsFresh'
      BY <1>4, <2>q DEF SendStarts, QueueIsFresh, IInv
    <2>6. DoomedTurnIsCancelled'
      <3>1. \A l \in Msgs : pc'[l] = "begin" => l = sent + 1 /\ turn'[l] = <<l>>
        BY <1>4 DEF SendStarts, RunningIsOwned, Owners, TypeOK, IInv
      <3>2. sent + 1 \notin doomed /\ sent + 1 \notin cancelled
        BY <1>b DEF TypeOK, IInv
      <3> QED BY <1>4, <3>1, <3>2, RangeSingle
                 DEF SendStarts, DoomedTurnIsCancelled
    <2>7. FateFollowsTurn'
      BY <1>4 DEF SendStarts, FateFollowsTurn, TypeOK, IInv
    <2>8. NothingLost'
      BY <1>4, <2>a, <2>q, <1>b DEF SendStarts, NothingLost, Waiting,
           UnsentUntouched, TypeOK, Msgs, IInv
    <2>9. KeptInOrder'
      BY <1>4 DEF SendStarts, KeptInOrder, Ascending, TypeOK, IInv
    <2>10. CancelledNeverBegins' /\ OnlyCancelledDropped'
      BY <1>4 DEF SendStarts, CancelledNeverBegins, OnlyCancelledDropped, IInv
    <2> QED BY <2>1, <2>2, <2>3, <2>4, <2>5, <2>6, <2>7, <2>8, <2>9, <2>10
               DEF IInv
  <1>5. ASSUME Cancel PROVE IInv'
    <2>a. AboutToBegin' = AboutToBegin
      BY <1>5, <1>a, AboutToBeginElement DEF Cancel, TypeOK, IInv
    <2>q. Range(queue') = {}
      BY <1>5, RangeEmpty DEF Cancel
    <2>1. TypeOK'
      <3>0. RunCancelled \subseteq 1 .. sent
        BY <1>b DEF RunCancelled, None, TypeOK, IInv
      <3>1. cancelled' \subseteq 1 .. sent /\ doomed' \subseteq 1 .. sent
        BY <1>5, <3>0, <1>b DEF Cancel, Waiting, TypeOK, IInv
      <3>2. queue' \in Seq(1 .. sent) /\ Len(queue') <= MaxQueue
            /\ fate' \in [Msgs -> {"none", "refused", "begun", "dropped"}]
        BY <1>5, RunLoopAssumption DEF Cancel, TypeOK, Places, Msgs, IInv
      <3> QED BY <1>5, <3>1, <3>2 DEF Cancel, TypeOK, IInv
    <2>2. OneTurnAtATime' /\ RunningIsOwned' /\ CancelHitsOwner'
      BY <1>5 DEF Cancel, OneTurnAtATime, RunningIsOwned, CancelHitsOwner,
           Owners, TypeOK, None, IInv
    <2>3. UnsentUntouched'
      BY <1>5, <1>b DEF Cancel, UnsentUntouched, TypeOK, Msgs, IInv
    <2>4. StopEndsLife' /\ StoppedIsQuiet'
      BY <1>5 DEF Cancel, StopEndsLife, StoppedIsQuiet, Live, TypeOK, Lives,
           IInv
    <2>5. QueueIsFresh'
      BY <1>5, <2>q DEF Cancel, QueueIsFresh, IInv
    <2>6. DoomedTurnIsCancelled'
      <3> SUFFICES ASSUME NEW l \in Msgs, pc[l] = "begin", NEW m \in Range(turn[l])
                   PROVE  m \in doomed' /\ turn[l][1] \in cancelled'
        BY <1>5 DEF Cancel, DoomedTurnIsCancelled
      <3>1. m \in doomed'
        BY <1>5, AboutToBeginElement DEF Cancel, Waiting
      <3>2. turn[l][1] = runCancel /\ runCancel # None
        BY <1>b DEF CancelHitsOwner, Owners, TypeOK, IInv, None
      <3> QED BY <1>5, <3>1, <3>2 DEF Cancel, RunCancelled
    <2>7. FateFollowsTurn'
      BY <1>5, <1>b DEF Cancel, FateFollowsTurn, TypeOK, NothingLost,
           Waiting, IInv
    <2>8. NothingLost'
      BY <1>5, <2>a, <2>q DEF Cancel, NothingLost, Waiting, IInv
    <2>9. KeptInOrder'
      BY <1>5, <2>q DEF Cancel, KeptInOrder, Ascending, IInv
    <2>10. CancelledNeverBegins' /\ OnlyCancelledDropped'
      BY <1>5, <1>b DEF Cancel, CancelledNeverBegins, OnlyCancelledDropped,
           NothingLost, Waiting, TypeOK, Msgs, IInv
    <2> QED BY <2>1, <2>2, <2>3, <2>4, <2>5, <2>6, <2>7, <2>8, <2>9, <2>10
               DEF IInv
  <1>6. ASSUME Stop PROVE IInv'
    <2>a. AboutToBegin' = AboutToBegin
      BY <1>6, <1>a, AboutToBeginElement DEF Stop, TypeOK, IInv
    <2>q. queue' = queue
      BY <1>6 DEF Stop
    <2>1. TypeOK'
      <3>1. cancelled' \subseteq 1 .. sent /\ doomed' \subseteq 1 .. sent
        BY <1>6, <1>b DEF Stop, RunCancelled, Waiting, None, TypeOK, IInv
      <3>2. stop' \in [Lives -> {"none", "waiting", "relayWait", "returned"}]
        BY <1>6, RunLoopAssumption DEF Stop, TypeOK, Places, Msgs, IInv
      <3> QED BY <1>6, <3>1, <3>2 DEF Stop, TypeOK, IInv
    <2>2. OneTurnAtATime' /\ RunningIsOwned' /\ CancelHitsOwner'
      BY <1>6 DEF Stop, OneTurnAtATime, RunningIsOwned, CancelHitsOwner,
           Owners, TypeOK, None, IInv
    <2>3. UnsentUntouched'
      BY <1>6, <1>b DEF Stop, UnsentUntouched, TypeOK, Msgs, IInv
    <2>4. StopEndsLife' /\ StoppedIsQuiet'
      BY <1>6 DEF Stop, StopEndsLife, StoppedIsQuiet, Live, TypeOK, Lives, IInv
    <2>5. QueueIsFresh'
      BY <1>6, <2>q, <1>c DEF Stop, QueueIsFresh, RunCancelled, NothingLost,
           IInv
    <2>6. DoomedTurnIsCancelled'
      <3> SUFFICES ASSUME NEW l \in Msgs, pc[l] = "begin", NEW m \in Range(turn[l])
                   PROVE  m \in doomed' /\ turn[l][1] \in cancelled'
        BY <1>6 DEF Stop, DoomedTurnIsCancelled
      <3>1. m \in doomed'
        BY <1>6, AboutToBeginElement DEF Stop
      <3>2. turn[l][1] = runCancel /\ runCancel # None
        BY <1>b DEF CancelHitsOwner, Owners, TypeOK, IInv, None
      <3> QED BY <1>6, <3>1, <3>2 DEF Stop, RunCancelled
    <2>7. FateFollowsTurn'
      BY <1>6 DEF Stop, FateFollowsTurn, TypeOK, IInv
    <2>8. NothingLost'
      BY <1>6, <2>a, <2>q DEF Stop, NothingLost, Waiting, IInv
    <2>9. KeptInOrder'
      BY <1>6 DEF Stop, KeptInOrder, IInv
    <2>10. CancelledNeverBegins' /\ OnlyCancelledDropped'
      BY <1>6, <1>b DEF Stop, CancelledNeverBegins, OnlyCancelledDropped,
           NothingLost, Waiting, TypeOK, IInv
    <2> QED BY <2>1, <2>2, <2>3, <2>4, <2>5, <2>6, <2>7, <2>8, <2>9, <2>10
               DEF IInv
  <1>7. ASSUME NEW k \in Lives, StopWaited(k) \/ StopReturns(k) PROVE IInv'
    <2>u. pc' = pc /\ turn' = turn
      BY <1>7 DEF StopWaited, StopReturns, loopVars
    <2>a. AboutToBegin' = AboutToBegin
      BY <2>u DEF AboutToBegin
    <2>q. queue' = queue
      BY <1>7 DEF StopWaited, StopReturns, loopVars
    <2>1. TypeOK'
      BY <1>7, <1>b, RunLoopAssumption
         DEF StopWaited, StopReturns, loopVars, TypeOK, Places, Msgs, Lives, IInv
    <2>2. OneTurnAtATime' /\ RunningIsOwned' /\ CancelHitsOwner'
      BY <1>7 DEF StopWaited, StopReturns, loopVars, OneTurnAtATime, RunningIsOwned,
           CancelHitsOwner, Owners, TypeOK, None, IInv
    <2>3. UnsentUntouched'
      BY <1>7, <1>b DEF StopWaited, StopReturns, loopVars, UnsentUntouched, TypeOK, Msgs,
           IInv
    <2>4. StopEndsLife' /\ StoppedIsQuiet'
      BY <1>7 DEF StopWaited, StopReturns, loopVars, StopEndsLife, StoppedIsQuiet, Live,
           TypeOK, Lives, IInv
    <2>5. QueueIsFresh'
      BY <1>7, <2>q DEF StopWaited, StopReturns, loopVars, QueueIsFresh, IInv
    <2>6. DoomedTurnIsCancelled'
      BY <1>7 DEF StopWaited, StopReturns, loopVars, DoomedTurnIsCancelled, TypeOK, IInv
    <2>7. FateFollowsTurn'
      BY <1>7 DEF StopWaited, StopReturns, loopVars, FateFollowsTurn, TypeOK, IInv
    <2>8. NothingLost'
      BY <1>7, <2>a, <2>q DEF StopWaited, StopReturns, loopVars, NothingLost, Waiting, IInv
    <2>9. KeptInOrder'
      BY <1>7 DEF StopWaited, StopReturns, loopVars, KeptInOrder, IInv
    <2>10. CancelledNeverBegins' /\ OnlyCancelledDropped'
      BY <1>7 DEF StopWaited, StopReturns, loopVars, CancelledNeverBegins,
           OnlyCancelledDropped, IInv
    <2> QED BY <2>1, <2>2, <2>3, <2>4, <2>5, <2>6, <2>7, <2>8, <2>9, <2>10
               DEF IInv
  <1>8. ASSUME NEW l \in Msgs, CallerCancels(l) PROVE IInv'
    <2>a. AboutToBegin' = AboutToBegin
      BY <1>8, <1>a, AboutToBeginElement DEF CallerCancels, TypeOK, IInv
    <2>q. queue' = queue
      BY <1>8 DEF CallerCancels
    <2>1. TypeOK'
      <3>1. l \in 1 .. sent
        BY <1>8, <1>b, RangeSingle DEF CallerCancels
      <3> QED BY <1>8, <3>1 DEF CallerCancels, TypeOK, IInv
    <2>2. OneTurnAtATime' /\ RunningIsOwned' /\ CancelHitsOwner'
      BY <1>8 DEF CallerCancels, OneTurnAtATime, RunningIsOwned,
           CancelHitsOwner, Owners, TypeOK, None, IInv
    <2>3. UnsentUntouched'
      BY <1>8, <1>b DEF CallerCancels, UnsentUntouched, TypeOK, Msgs, IInv
    <2>4. StopEndsLife' /\ StoppedIsQuiet'
      BY <1>8 DEF CallerCancels, StopEndsLife, StoppedIsQuiet, Live, TypeOK,
           Lives, IInv
    <2>5. QueueIsFresh'
      <3>1. l \in Range(turn[l]) /\ l \in 1 .. sent
        BY <1>8, <1>b, RangeSingle DEF CallerCancels
      <3>2. l \notin Range(queue)
        <4>1. CASE pc[l] = "begin"
          BY <3>1, <4>1, AboutToBeginElement DEF NothingLost, IInv
        <4>2. CASE pc[l] = "turn"
          BY <3>1, <4>2 DEF NothingLost, FateFollowsTurn, Waiting, IInv
        <4> QED BY <4>1, <4>2, <1>8 DEF CallerCancels
      <3> QED BY <1>8, <3>2 DEF CallerCancels, QueueIsFresh, IInv
    <2>6. DoomedTurnIsCancelled'
      <3>2. turn[l][1] = l /\ Range(turn[l]) = {l}
        BY <1>8, RangeSingle DEF CallerCancels
      <3>3. ASSUME NEW k \in Msgs, pc[k] = "begin", NEW m \in Range(turn[k])
            PROVE  m \in doomed' <=> turn[k][1] \in cancelled'
        <4>1. k = l
          BY <1>8, <3>3 DEF CallerCancels, OneTurnAtATime, Owners, IInv
        <4> QED BY <1>8, <3>2, <3>3, <4>1 DEF CallerCancels
      <3> QED BY <1>8, <3>3 DEF CallerCancels, DoomedTurnIsCancelled
    <2>7. FateFollowsTurn'
      BY <1>8 DEF CallerCancels, FateFollowsTurn, TypeOK, IInv
    <2>8. NothingLost'
      BY <1>8, <2>a, <2>q DEF CallerCancels, NothingLost, Waiting, IInv
    <2>9. KeptInOrder'
      BY <1>8 DEF CallerCancels, KeptInOrder, IInv
    <2>10. CancelledNeverBegins' /\ OnlyCancelledDropped'
      <3>1. pc[l] = "begin" => fate[l] = "none"
        <4>1. l \in Range(turn[l])
          BY <1>8, RangeSingle DEF CallerCancels
        <4> QED BY <4>1, AboutToBeginElement DEF NothingLost, Waiting, IInv
      <3> QED BY <1>8, <3>1 DEF CallerCancels, CancelledNeverBegins,
                   OnlyCancelledDropped, IInv
    <2> QED BY <2>1, <2>2, <2>3, <2>4, <2>5, <2>6, <2>7, <2>8, <2>9, <2>10
               DEF IInv
  <1>9. ASSUME NEW l \in Msgs, BeginTurn(l) PROVE IInv'
    <2>a. AboutToBegin = Range(turn[l]) /\ AboutToBegin' = {}
      <3>1. \A k \in Msgs : pc[k] = "begin" <=> k = l
        BY <1>9 DEF BeginTurn, OneTurnAtATime, Owners, IInv
      <3>2. \A k \in Msgs : pc'[k] # "begin"
        BY <1>9, <3>1 DEF BeginTurn, TypeOK, IInv
      <3>3. AboutToBegin = Range(turn[l])
        BY <3>1, AboutToBeginElement
      <3> QED BY <3>2, <3>3, <1>a
    <2>q. queue' = queue
      BY <1>9 DEF BeginTurn
    <2>1. TypeOK'
      BY <1>9, <1>b, RunLoopAssumption
         DEF BeginTurn, TypeOK, Places, Msgs, Lives, IInv
    <2>2. OneTurnAtATime' /\ RunningIsOwned' /\ CancelHitsOwner'
      <3>1. Owners' = Owners
        BY <1>9 DEF BeginTurn, Owners, TypeOK, IInv
      <3> QED BY <1>9, <3>1 DEF BeginTurn, OneTurnAtATime, RunningIsOwned,
                   CancelHitsOwner, IInv
    <2>3. UnsentUntouched'
      <3>1. \A m \in Msgs : m > sent => m \notin Range(turn[l]) /\ m # l
        BY <1>9, <1>b DEF BeginTurn, UnsentUntouched, TypeOK, IInv
      <3> QED BY <1>9, <3>1 DEF BeginTurn, UnsentUntouched, TypeOK, IInv
    <2>4. StopEndsLife' /\ StoppedIsQuiet'
      BY <1>9 DEF BeginTurn, StopEndsLife, StoppedIsQuiet, Live, TypeOK,
           Lives, IInv
    <2>5. QueueIsFresh'
      BY <1>9, <2>q DEF BeginTurn, QueueIsFresh, IInv
    <2>6. DoomedTurnIsCancelled'
      BY <1>9 DEF BeginTurn, DoomedTurnIsCancelled, TypeOK, IInv
    <2>7. FateFollowsTurn'
      <3> SUFFICES ASSUME NEW k \in Msgs, pc'[k] \in {"turn", "drain", "release"},
                          NEW m \in Range(turn[k])
                   PROVE  fate'[m] # "none" /\ (pc'[k] = "turn" => fate'[m] = "begun")
        BY <1>9 DEF BeginTurn, FateFollowsTurn
      <3>1. k = l
        BY <1>9 DEF BeginTurn, OneTurnAtATime, Owners, TypeOK, IInv
      <3>2. m \in Msgs /\ pc'[l] = "turn"
        BY <1>9, <3>1, <1>b DEF BeginTurn, TypeOK, IInv
      <3> QED BY <1>9, <3>1, <3>2 DEF BeginTurn
    <2>8. NothingLost'
      BY <1>9, <2>a, <2>q, <1>b DEF BeginTurn, NothingLost, Waiting, IInv
    <2>9. KeptInOrder'
      BY <1>9 DEF BeginTurn, KeptInOrder, IInv
    <2>10. CancelledNeverBegins' /\ OnlyCancelledDropped'
      <3>1. \A m \in Range(turn[l]) : m \in doomed <=> turn[l][1] \in cancelled
        BY <1>9 DEF BeginTurn, DoomedTurnIsCancelled, IInv
      <3>2. doomed \subseteq Msgs
        BY <1>b DEF TypeOK, IInv
      <3> QED BY <1>9, <3>1, <3>2 DEF BeginTurn, CancelledNeverBegins,
                   OnlyCancelledDropped, IInv
    <2> QED BY <2>1, <2>2, <2>3, <2>4, <2>5, <2>6, <2>7, <2>8, <2>9, <2>10
               DEF IInv
  <1>10. ASSUME NEW l \in Msgs, SkipTurn(l) PROVE IInv'
    <2>a. AboutToBegin = Range(turn[l]) /\ AboutToBegin' = {}
      <3>1. \A k \in Msgs : pc[k] = "begin" <=> k = l
        BY <1>10 DEF SkipTurn, OneTurnAtATime, Owners, IInv
      <3>2. \A k \in Msgs : pc'[k] # "begin"
        BY <1>10, <3>1 DEF SkipTurn, TypeOK, IInv
      <3>3. AboutToBegin = Range(turn[l])
        BY <3>1, AboutToBeginElement
      <3> QED BY <3>2, <3>3, <1>a
    <2>q. queue' = queue
      BY <1>10 DEF SkipTurn
    <2>1. TypeOK'
      BY <1>10, <1>b, RunLoopAssumption
         DEF SkipTurn, TypeOK, Places, Msgs, Lives, IInv
    <2>2. OneTurnAtATime' /\ RunningIsOwned' /\ CancelHitsOwner'
      <3>1. Owners' = Owners
        BY <1>10 DEF SkipTurn, Owners, TypeOK, IInv
      <3> QED BY <1>10, <3>1 DEF SkipTurn, OneTurnAtATime, RunningIsOwned,
                   CancelHitsOwner, IInv
    <2>3. UnsentUntouched'
      <3>1. \A m \in Msgs : m > sent => m \notin Range(turn[l]) /\ m # l
        BY <1>10, <1>b DEF SkipTurn, UnsentUntouched, TypeOK, IInv
      <3> QED BY <1>10, <3>1 DEF SkipTurn, UnsentUntouched, TypeOK, IInv
    <2>4. StopEndsLife' /\ StoppedIsQuiet'
      BY <1>10 DEF SkipTurn, StopEndsLife, StoppedIsQuiet, Live, TypeOK,
           Lives, IInv
    <2>5. QueueIsFresh'
      BY <1>10, <2>q DEF SkipTurn, QueueIsFresh, IInv
    <2>6. DoomedTurnIsCancelled'
      BY <1>10 DEF SkipTurn, DoomedTurnIsCancelled, TypeOK, IInv
    <2>7. FateFollowsTurn'
      <3> SUFFICES ASSUME NEW k \in Msgs, pc'[k] \in {"turn", "drain", "release"},
                          NEW m \in Range(turn[k])
                   PROVE  fate'[m] # "none" /\ (pc'[k] = "turn" => fate'[m] = "begun")
        BY <1>10 DEF SkipTurn, FateFollowsTurn
      <3>1. k = l
        BY <1>10 DEF SkipTurn, OneTurnAtATime, Owners, TypeOK, IInv
      <3>2. m \in Msgs /\ pc'[l] = "drain"
        BY <1>10, <3>1, <1>b DEF SkipTurn, TypeOK, IInv
      <3> QED BY <1>10, <3>1, <3>2 DEF SkipTurn
    <2>8. NothingLost'
      BY <1>10, <2>a, <2>q, <1>b DEF SkipTurn, NothingLost, Waiting, IInv
    <2>9. KeptInOrder'
      BY <1>10 DEF SkipTurn, KeptInOrder, IInv
    <2>10. CancelledNeverBegins' /\ OnlyCancelledDropped'
      <3>1. \A m \in Range(turn[l]) : m \in doomed <=> turn[l][1] \in cancelled
        BY <1>10 DEF SkipTurn, DoomedTurnIsCancelled, IInv
      <3>2. doomed \subseteq Msgs
        BY <1>b DEF TypeOK, IInv
      <3> QED BY <1>10, <3>1, <3>2 DEF SkipTurn, CancelledNeverBegins,
                   OnlyCancelledDropped, IInv
    <2> QED BY <2>1, <2>2, <2>3, <2>4, <2>5, <2>6, <2>7, <2>8, <2>9, <2>10
               DEF IInv
  <1>11. ASSUME NEW l \in Msgs, EndTurn(l) PROVE IInv'
    <2>a. AboutToBegin' = AboutToBegin
      BY <1>11, <1>a, AboutToBeginElement DEF EndTurn, TypeOK, IInv
    <2>q. queue' = queue
      BY <1>11 DEF EndTurn
    <2>1. TypeOK'
      BY <1>11, <1>b, RunLoopAssumption
         DEF EndTurn, TypeOK, Places, Msgs, Lives, IInv
    <2>2. OneTurnAtATime' /\ RunningIsOwned' /\ CancelHitsOwner'
      BY <1>11 DEF EndTurn, OneTurnAtATime, RunningIsOwned, CancelHitsOwner,
           Owners, TypeOK, None, IInv
    <2>3. UnsentUntouched'
      BY <1>11, <1>b DEF EndTurn, UnsentUntouched, TypeOK, Msgs, IInv
    <2>4. StopEndsLife' /\ StoppedIsQuiet'
      BY <1>11 DEF EndTurn, StopEndsLife, StoppedIsQuiet, Live, TypeOK,
           Lives, IInv
    <2>5. QueueIsFresh'
      BY <1>11, <2>q DEF EndTurn, QueueIsFresh, IInv
    <2>6. DoomedTurnIsCancelled'
      BY <1>11 DEF EndTurn, DoomedTurnIsCancelled, TypeOK, IInv
    <2>7. FateFollowsTurn'
      BY <1>11 DEF EndTurn, FateFollowsTurn, TypeOK, IInv
    <2>8. NothingLost'
      BY <1>11, <2>a, <2>q DEF EndTurn, NothingLost, Waiting, IInv
    <2>9. KeptInOrder'
      BY <1>11 DEF EndTurn, KeptInOrder, IInv
    <2>10. CancelledNeverBegins' /\ OnlyCancelledDropped'
      BY <1>11 DEF EndTurn, CancelledNeverBegins, OnlyCancelledDropped, IInv
    <2> QED BY <2>1, <2>2, <2>3, <2>4, <2>5, <2>6, <2>7, <2>8, <2>9, <2>10
               DEF IInv
  <1>12. ASSUME NEW l \in Msgs, Drain(l) PROVE IInv'
    <2>a. AboutToBegin = {} /\ AboutToBegin' = Range(queue)
      <3>1. \A k \in Msgs : pc[k] # "begin"
        BY <1>12 DEF Drain, OneTurnAtATime, Owners, IInv
      <3>2. \A k \in Msgs : pc'[k] = "begin" <=> k = l
        BY <1>12, <3>1 DEF Drain, TypeOK, IInv
      <3>3. turn'[l] = queue
        BY <1>12 DEF Drain, TypeOK, IInv
      <3>4. AboutToBegin = {}
        BY <3>1, AboutToBeginElement
      <3> QED BY <3>2, <3>3, <3>4, <1>a
    <2>q. Range(queue') = {}
      BY <1>12, RangeEmpty DEF Drain
    <2>1. TypeOK'
      <3>1. Head(queue) \in 1 .. sent
        BY <1>12 DEF Drain, TypeOK, IInv
      <3>2. /\ queue' \in Seq(1 .. sent) /\ Len(queue') <= MaxQueue
            /\ runCancel' \in 0 .. sent /\ cancelled' \subseteq 1 .. sent
        BY <1>12, <3>1, RunLoopAssumption DEF Drain, TypeOK, RunCancelled, None, IInv
      <3>3. /\ pc' \in [Msgs -> Places]
            /\ turn' \in [Msgs -> Seq(1 .. sent)]
        BY <1>12 DEF Drain, TypeOK, Places, IInv
      <3>4. UNCHANGED <<status, life, sent, running, stop, fate, doomed>>
        BY <1>12 DEF Drain
      <3> QED BY <3>2, <3>3, <3>4 DEF TypeOK, IInv
    <2>2. OneTurnAtATime' /\ RunningIsOwned' /\ CancelHitsOwner'
      <3>1. Owners = {l} /\ Owners' = {l}
        BY <1>12 DEF Drain, OneTurnAtATime, Owners, TypeOK, IInv
      <3>2. turn'[l] = queue /\ queue # <<>> /\ runCancel' = queue[1] /\ running' = running
        BY <1>12 DEF Drain, TypeOK, IInv
      <3> QED BY <3>1, <3>2 DEF OneTurnAtATime, RunningIsOwned,
                   CancelHitsOwner, IInv
    <2>3. UnsentUntouched'
      BY <1>12, <1>b DEF Drain, UnsentUntouched, TypeOK, Msgs, IInv
    <2>4. StopEndsLife' /\ StoppedIsQuiet'
      BY <1>12 DEF Drain, StopEndsLife, StoppedIsQuiet, Live, TypeOK, Lives,
           IInv
    <2>5. QueueIsFresh'
      BY <1>12, <2>q DEF Drain, QueueIsFresh, IInv
    <2>6. DoomedTurnIsCancelled'
      <3>1. \A k \in Msgs : pc'[k] = "begin" => k = l /\ turn'[k] = queue
        BY <1>12 DEF Drain, OneTurnAtATime, Owners, TypeOK, IInv
      <3>2. queue[1] \in Range(queue)
        BY <1>12 DEF Drain, Range, TypeOK, IInv
      <3>3. queue[1] \notin cancelled'
        BY <1>12, <3>2, <1>c DEF Drain, RunCancelled, QueueIsFresh, IInv
      <3> QED BY <1>12, <3>1, <3>3
                 DEF Drain, DoomedTurnIsCancelled, QueueIsFresh, IInv
    <2>7. FateFollowsTurn'
      BY <1>12 DEF Drain, FateFollowsTurn, TypeOK, OneTurnAtATime, Owners, IInv
    <2>8. NothingLost'
      BY <1>12, <2>a, <2>q DEF Drain, NothingLost, Waiting, IInv
    <2>9. KeptInOrder'
      <3>1. \A k \in Msgs : turn'[k] = turn[k] \/ turn'[k] = queue
        BY <1>12 DEF Drain, TypeOK, IInv
      <3>2. Ascending(queue')
        BY <1>12 DEF Drain, Ascending
      <3> QED BY <3>1, <3>2 DEF KeptInOrder, IInv
    <2>10. CancelledNeverBegins' /\ OnlyCancelledDropped'
      BY <1>12 DEF Drain, CancelledNeverBegins, OnlyCancelledDropped, IInv
    <2> QED BY <2>1, <2>2, <2>3, <2>4, <2>5, <2>6, <2>7, <2>8, <2>9, <2>10
               DEF IInv
  <1>13. ASSUME NEW l \in Msgs, LeaveLoop(l) PROVE IInv'
    <2>a. AboutToBegin' = AboutToBegin
      BY <1>13, <1>a, AboutToBeginElement DEF LeaveLoop, TypeOK, IInv
    <2>q. queue' = queue
      BY <1>13 DEF LeaveLoop
    <2>1. TypeOK'
      BY <1>13, <1>b, RunLoopAssumption
         DEF LeaveLoop, TypeOK, Places, Msgs, Lives, IInv
    <2>2. OneTurnAtATime' /\ RunningIsOwned' /\ CancelHitsOwner'
      BY <1>13 DEF LeaveLoop, OneTurnAtATime, RunningIsOwned,
           CancelHitsOwner, Owners, TypeOK, None, IInv
    <2>3. UnsentUntouched'
      BY <1>13, <1>b DEF LeaveLoop, UnsentUntouched, TypeOK, Msgs, IInv
    <2>4. StopEndsLife' /\ StoppedIsQuiet'
      BY <1>13 DEF LeaveLoop, StopEndsLife, StoppedIsQuiet, Live, TypeOK,
           Lives, IInv
    <2>5. QueueIsFresh'
      BY <1>13, <2>q DEF LeaveLoop, QueueIsFresh, IInv
    <2>6. DoomedTurnIsCancelled'
      BY <1>13 DEF LeaveLoop, DoomedTurnIsCancelled, TypeOK, IInv
    <2>7. FateFollowsTurn'
      BY <1>13 DEF LeaveLoop, FateFollowsTurn, TypeOK, IInv
    <2>8. NothingLost'
      BY <1>13, <2>a, <2>q DEF LeaveLoop, NothingLost, Waiting, IInv
    <2>9. KeptInOrder'
      BY <1>13 DEF LeaveLoop, KeptInOrder, IInv
    <2>10. CancelledNeverBegins' /\ OnlyCancelledDropped'
      BY <1>13 DEF LeaveLoop, CancelledNeverBegins, OnlyCancelledDropped, IInv
    <2> QED BY <2>1, <2>2, <2>3, <2>4, <2>5, <2>6, <2>7, <2>8, <2>9, <2>10
               DEF IInv
  <1>14. ASSUME NEW l \in Msgs, Release(l) PROVE IInv'
    <2>a. AboutToBegin' = AboutToBegin
      BY <1>14, <1>a, AboutToBeginElement DEF Release, TypeOK, IInv
    <2>q. queue' = queue
      BY <1>14 DEF Release
    <2>1. TypeOK'
      <3>1. runCancel' \in 0 .. sent
        BY <1>14, <1>b DEF Release, RunCancelled, Waiting, None, TypeOK, IInv
      <3>2. pc' \in [Msgs -> Places]
        BY <1>14, RunLoopAssumption DEF Release, TypeOK, Places, Msgs, IInv
      <3> QED BY <1>14, <3>1, <3>2 DEF Release, TypeOK, IInv
    <2>2. OneTurnAtATime' /\ RunningIsOwned' /\ CancelHitsOwner'
      BY <1>14 DEF Release, OneTurnAtATime, RunningIsOwned, CancelHitsOwner,
           Owners, TypeOK, None, IInv
    <2>3. UnsentUntouched'
      BY <1>14, <1>b DEF Release, UnsentUntouched, TypeOK, Msgs, IInv
    <2>4. StopEndsLife' /\ StoppedIsQuiet'
      BY <1>14 DEF Release, StopEndsLife, StoppedIsQuiet, Live, TypeOK,
           Lives, IInv
    <2>5. QueueIsFresh'
      BY <1>14, <2>q DEF Release, QueueIsFresh, IInv
    <2>6. DoomedTurnIsCancelled'
      BY <1>14 DEF Release, DoomedTurnIsCancelled, TypeOK, IInv
    <2>7. FateFollowsTurn'
      BY <1>14 DEF Release, FateFollowsTurn, TypeOK, IInv
    <2>8. NothingLost'
      BY <1>14, <2>a, <2>q DEF Release, NothingLost, Waiting, IInv
    <2>9. KeptInOrder'
      BY <1>14 DEF Release, KeptInOrder, IInv
    <2>10. CancelledNeverBegins' /\ OnlyCancelledDropped'
      BY <1>14 DEF Release, CancelledNeverBegins, OnlyCancelledDropped, IInv
    <2> QED BY <2>1, <2>2, <2>3, <2>4, <2>5, <2>6, <2>7, <2>8, <2>9, <2>10
               DEF IInv
  <1>15. ASSUME NEW l \in Msgs, WgDone(l) PROVE IInv'
    <2>a. AboutToBegin' = AboutToBegin
      BY <1>15, <1>a, AboutToBeginElement DEF WgDone, TypeOK, IInv
    <2>q. queue' = queue
      BY <1>15 DEF WgDone
    <2>1. TypeOK'
      BY <1>15, <1>b, RunLoopAssumption
         DEF WgDone, TypeOK, Places, Msgs, Lives, IInv
    <2>2. OneTurnAtATime' /\ RunningIsOwned' /\ CancelHitsOwner'
      BY <1>15 DEF WgDone, OneTurnAtATime, RunningIsOwned, CancelHitsOwner,
           Owners, TypeOK, None, IInv
    <2>3. UnsentUntouched'
      BY <1>15, <1>b DEF WgDone, UnsentUntouched, TypeOK, Msgs, IInv
    <2>4. StopEndsLife' /\ StoppedIsQuiet'
      BY <1>15 DEF WgDone, StopEndsLife, StoppedIsQuiet, Live, TypeOK, Lives,
           IInv
    <2>5. QueueIsFresh'
      BY <1>15, <2>q DEF WgDone, QueueIsFresh, IInv
    <2>6. DoomedTurnIsCancelled'
      BY <1>15 DEF WgDone, DoomedTurnIsCancelled, TypeOK, IInv
    <2>7. FateFollowsTurn'
      BY <1>15 DEF WgDone, FateFollowsTurn, TypeOK, IInv
    <2>8. NothingLost'
      BY <1>15, <2>a, <2>q DEF WgDone, NothingLost, Waiting, IInv
    <2>9. KeptInOrder'
      BY <1>15 DEF WgDone, KeptInOrder, IInv
    <2>10. CancelledNeverBegins' /\ OnlyCancelledDropped'
      BY <1>15 DEF WgDone, CancelledNeverBegins, OnlyCancelledDropped, IInv
    <2> QED BY <2>1, <2>2, <2>3, <2>4, <2>5, <2>6, <2>7, <2>8, <2>9, <2>10
               DEF IInv
  <1> QED
    BY <1>1, <1>2, <1>3, <1>4, <1>5, <1>6, <1>7, <1>8, <1>9, <1>10, <1>11,
       <1>12,
       <1>13, <1>14, <1>15 DEF Next, LoopStep

-----------------------------------------------------------------------------
(* The theorems about safety.                                              *)

LEMMA StutterInv == IInv /\ UNCHANGED vars => IInv'
  BY DEF vars, IInv, TypeOK, OneTurnAtATime, RunningIsOwned, CancelHitsOwner,
         Owners, UnsentUntouched, QueueIsFresh, DoomedTurnIsCancelled,
         FateFollowsTurn, NothingLost, Waiting, AboutToBegin, KeptInOrder,
         CancelledNeverBegins, OnlyCancelledDropped, StopEndsLife,
         StoppedIsQuiet, Live

\* The inductive invariant holds in every reachable state.
THEOREM Invariance == Spec => []IInv
  <1>1. IInv /\ [Next]_vars => IInv'
    BY StutterInv, StepInv
  <1> QED BY <1>1, InitInv, PTL DEF Spec

\* Every variable keeps its type, for any MaxSends, MaxQueue and MaxStarts.
THEOREM TypeCorrect == Spec => []TypeOK
  <1>1. IInv => TypeOK
    BY DEF IInv
  <1> QED BY <1>1, Invariance, PTL

\* Turns never overlap, whatever the calls of Send, Cancel, Stop and Start.
THEOREM TurnsNeverOverlap == Spec => []OneTurnAtATime
  <1>1. IInv => OneTurnAtATime
    BY DEF IInv
  <1> QED BY <1>1, Invariance, PTL

\* No accepted message is lost or held twice.
THEOREM MessagesAreKept == Spec => []NothingLost
  <1>1. IInv => NothingLost
    BY DEF IInv
  <1> QED BY <1>1, Invariance, PTL

\* The queue and every turn made of it are in the order of the Send calls.
THEOREM OrderIsKept == Spec => []KeptInOrder
  <1>1. IInv => KeptInOrder
    BY DEF IInv
  <1> QED BY <1>1, Invariance, PTL

\* Cancellation takes exactly the messages it should: none of them begins
\* later, and no other message is dropped.
THEOREM CancellationIsExact == Spec => []CancelledExactly
  <1>1. IInv => CancelledExactly
    BY DEF IInv, CancelledExactly
  <1> QED BY <1>1, Invariance, PTL

\* After Stop returned no run loop is left.
THEOREM StopIsQuiet == Spec => []StoppedIsQuiet
  <1>1. IInv => StoppedIsQuiet
    BY DEF IInv
  <1> QED BY <1>1, Invariance, PTL

-----------------------------------------------------------------------------
(* RunLoop implements TurnServer.                                          *)

Begun    == {m \in Msgs : fate[m] = "begun"}
Dropped  == {m \in Msgs : fate[m] = "dropped"}
Finished == Begun \ Current

LEMMA CurrentElement ==
    \A m : m \in Current <=> \E l \in Msgs : pc[l] = "turn" /\ m \in Range(turn[l])
  BY DEF Current

\* Where the messages of the abstract server are, in terms of their fates.
Standing ==
    /\ Waiting = {m \in Msgs : m <= sent /\ fate[m] = "none"}
    /\ Current \subseteq Begun

LEMMA WhereMessagesAre == IInv => Standing
  <1> SUFFICES ASSUME IInv PROVE Standing
    OBVIOUS
  <1>1. Waiting \subseteq Msgs
    BY HeldWasSent DEF Waiting, IInv
  <1>2. Current \subseteq Begun
    BY CurrentElement, HeldWasSent DEF FateFollowsTurn, Begun, IInv
  <1> QED BY <1>1, <1>2 DEF NothingLost, Standing, IInv

\* A step that moves no goroutine into or out of a turn keeps the current turn.
LEMMA SameCurrent ==
    ASSUME \A l \in Msgs : /\ pc'[l] = "turn" <=> pc[l] = "turn"
                           /\ pc[l] = "turn" => turn'[l] = turn[l]
    PROVE  Current' = Current
  <1>1. \A m : m \in Current' <=> \E l \in Msgs : pc'[l] = "turn" /\ m \in Range(turn'[l])
    BY DEF Current
  <1> QED BY <1>1, CurrentElement

\* A step that changes no message's standing is a stutter of the server.
LEMMA Stutter ==
    ASSUME IInv, IInv', Current' = Current, sent' = sent, fate' = fate
    PROVE  UNCHANGED Server!tsVars
  <1>1. Standing /\ Standing'
    BY WhereMessagesAre, PTL
  <1>2. Waiting' = Waiting
    BY <1>1 DEF Standing
  <1> QED BY <1>2 DEF Server!tsVars

LEMMA StepRefines ==
    ASSUME IInv, IInv', Next
    PROVE  [Server!Next]_(Server!tsVars)
  <1> DEFINE Wait  == {m \in Msgs : m <= sent /\ fate[m] = "none"}
             WaitP == {m \in Msgs : m <= sent' /\ fate'[m] = "none"}
  <1>w. /\ Waiting = Wait /\ Waiting' = WaitP
        /\ Current \subseteq Begun /\ Current' \subseteq Begun'
        /\ sent \in Nat /\ 1 .. sent \subseteq Msgs
    <2>1. Standing /\ Standing'
      BY WhereMessagesAre, PTL
    <2> QED BY <2>1, HeldWasSent DEF Standing, IInv
  <1>1. CASE Start \/ Stop \/ \E k \in Lives : StopWaited(k) \/ StopReturns(k)
    <2>1. pc' = pc /\ turn' = turn /\ sent' = sent /\ fate' = fate
      BY <1>1 DEF Start, Stop, StopWaited, StopReturns, loopVars
    <2>2. Current' = Current
      BY <2>1, SameCurrent
    <2> QED BY <2>1, <2>2, Stutter
  <1>2. CASE \E l \in Msgs : CallerCancels(l) \/ LeaveLoop(l) \/ Release(l) \/ WgDone(l) \/ Drain(l)
    <2>1. PICK l \in Msgs : CallerCancels(l) \/ LeaveLoop(l) \/ Release(l) \/ WgDone(l) \/ Drain(l)
      BY <1>2
    <2>2. Current' = Current
      <3>1. \A k \in Msgs : /\ pc'[k] = "turn" <=> pc[k] = "turn"
                            /\ pc[k] = "turn" => turn'[k] = turn[k]
        <4>1. CASE CallerCancels(l)
          BY <4>1 DEF CallerCancels
        <4>2. CASE LeaveLoop(l) \/ Release(l) \/ WgDone(l)
          BY <4>2 DEF LeaveLoop, Release, WgDone, TypeOK, IInv
        <4>3. CASE Drain(l)
          BY <4>3 DEF Drain, TypeOK, IInv
        <4> QED BY <2>1, <4>1, <4>2, <4>3
      <3> QED BY <3>1, SameCurrent
    <2>3. sent' = sent /\ fate' = fate
      BY <2>1 DEF CallerCancels, LeaveLoop, Release, WgDone, Drain
    <2> QED BY <2>2, <2>3, Stutter
  <1>3. CASE SendRefused
    <2>1. Current' = Current
      BY <1>3, SameCurrent DEF SendRefused, loopVars
    <2>2. sent + 1 \in Msgs /\ sent' = sent + 1 /\ fate[sent + 1] = "none"
          /\ fate' = [fate EXCEPT ![sent + 1] = "refused"]
      BY <1>3, <1>w, RunLoopAssumption
         DEF SendRefused, UnsentUntouched, Msgs, IInv
    <2>3. Waiting' = Waiting
      BY <1>w, <2>2 DEF TypeOK, IInv, Msgs
    <2>4. Begun' = Begun /\ Dropped' = Dropped
      BY <2>2 DEF Begun, Dropped, TypeOK, IInv
    <2> QED BY <2>1, <2>3, <2>4 DEF Server!tsVars, Begun, Dropped
  <1>4. CASE SendQueues \/ SendStarts
    <2>1. /\ sent + 1 \in Msgs /\ sent' = sent + 1 /\ fate' = fate
          /\ fate[sent + 1] = "none"
      BY <1>4, <1>w, RunLoopAssumption
         DEF SendQueues, SendStarts, UnsentUntouched, Msgs, IInv
    <2>2. Current' = Current
      <3>1. \A k \in Msgs : /\ pc'[k] = "turn" <=> pc[k] = "turn"
                            /\ pc[k] = "turn" => turn'[k] = turn[k]
        BY <1>4, <2>1 DEF SendQueues, SendStarts, UnsentUntouched, TypeOK,
             Msgs, IInv
      <3> QED BY <3>1, SameCurrent
    <2>3. Waiting' = Waiting \cup {sent + 1}
      BY <1>w, <2>1 DEF Msgs
    <2>4. Begun' = Begun /\ Dropped' = Dropped
      BY <2>1 DEF Begun, Dropped
    <2>5. sent + 1 \notin Waiting \cup Current \cup Begun \cup Dropped
      BY <1>w, <2>1 DEF Begun, Dropped
    <2>6. Server!Accept(sent + 1)
      BY <2>2, <2>3, <2>4, <2>5 DEF Server!Accept, Server!Seen, Begun, Dropped
    <2> QED BY <2>1, <2>6 DEF Server!Next
  <1>5. CASE Cancel
    <2>1. sent' = sent /\ Range(queue) \subseteq Waiting
      BY <1>5 DEF Cancel, Waiting
    <2>2. Current' = Current
      BY <1>5, SameCurrent DEF Cancel
    <2>3. \A m \in Range(queue) : m \in Msgs /\ fate[m] = "none"
      BY <2>1, <1>w
    <2>4. fate' = [m \in Msgs |-> IF m \in Range(queue) THEN "dropped" ELSE fate[m]]
      BY <1>5 DEF Cancel
    <2>5. Waiting' = Waiting \ Range(queue)
      BY <1>w, <2>1, <2>4
    <2>6. Begun' = Begun /\ Dropped' = Dropped \cup Range(queue)
      BY <2>3, <2>4 DEF Begun, Dropped
    <2>7. Server!Drop(Range(queue))
      BY <2>2, <2>5, <2>6 DEF Server!Drop, Begun, Dropped
    <2>8. Range(queue) \in SUBSET Waiting
      BY <2>1
    <2>9. \E T \in SUBSET Waiting : Server!Drop(T)
      BY <2>7, <2>8 DEF Server!Drop
    <2> QED BY <2>9 DEF Server!Next
  <1>6. ASSUME NEW l \in Msgs, BeginTurn(l) PROVE Server!Next
    <2> DEFINE S == Range(turn[l])
    <2>1. S \subseteq Waiting /\ sent' = sent /\ S # {}
      BY <1>6, AboutToBeginElement
         DEF BeginTurn, Waiting, CancelHitsOwner, Owners, Range, TypeOK, IInv
    <2>2. \A m \in S : m \in Msgs /\ fate[m] = "none"
      BY <2>1, <1>w
    <2>3. Current = {} /\ Current' = S
      <3>1. \A k \in Msgs : pc[k] # "turn"
        BY <1>6 DEF BeginTurn, OneTurnAtATime, Owners, IInv
      <3>2. \A k \in Msgs : pc'[k] = "turn" <=> k = l
        BY <1>6, <3>1 DEF BeginTurn, TypeOK, IInv
      <3>3. \A m : m \in Current' <=> \E k \in Msgs : pc'[k] = "turn" /\ m \in Range(turn[k])
        BY <1>6 DEF BeginTurn, Current
      <3>4. Current = {}
        BY <3>1, CurrentElement
      <3> QED BY <3>2, <3>3, <3>4
    <2>4. fate' = [m \in Msgs |-> IF m \in S THEN "begun" ELSE fate[m]]
      BY <1>6 DEF BeginTurn
    <2>5. Waiting' = Waiting \ S
      BY <1>w, <2>1, <2>4
    <2>6. Begun' = Begun \cup S /\ Dropped' = Dropped /\ Begun \cap S = {}
      BY <2>2, <2>4 DEF Begun, Dropped
    <2>7. Server!Begin(S)
      BY <2>1, <2>3, <2>5, <2>6 DEF Server!Begin, Begun, Dropped
    <2>8. S \in SUBSET Waiting
      BY <2>1
    <2> QED BY <2>7, <2>8 DEF Server!Next
  <1>7. ASSUME NEW l \in Msgs, SkipTurn(l) PROVE Server!Next
    <2> DEFINE S == Range(turn[l])
    <2>1. S \subseteq Waiting /\ sent' = sent
      BY <1>7, AboutToBeginElement DEF SkipTurn, Waiting
    <2>2. \A m \in S : m \in Msgs /\ fate[m] = "none"
      BY <2>1, <1>w
    <2>3. Current' = Current
      <3>1. \A k \in Msgs : /\ pc'[k] = "turn" <=> pc[k] = "turn"
                            /\ pc[k] = "turn" => turn'[k] = turn[k]
        BY <1>7 DEF SkipTurn, TypeOK, IInv
      <3> QED BY <3>1, SameCurrent
    <2>4. fate' = [m \in Msgs |-> IF m \in S THEN "dropped" ELSE fate[m]]
      BY <1>7 DEF SkipTurn
    <2>5. Waiting' = Waiting \ S
      BY <1>w, <2>1, <2>4
    <2>6. Begun' = Begun /\ Dropped' = Dropped \cup S
      BY <2>2, <2>4 DEF Begun, Dropped
    <2>7. Server!Drop(S)
      BY <2>3, <2>5, <2>6 DEF Server!Drop, Begun, Dropped
    <2>8. S \in SUBSET Waiting
      BY <2>1
    <2>9. \E T \in SUBSET Waiting : Server!Drop(T)
      BY <2>7, <2>8 DEF Server!Drop
    <2> QED BY <2>9 DEF Server!Next
  <1>8. ASSUME NEW l \in Msgs, EndTurn(l) PROVE Server!Next
    <2>1. sent' = sent /\ fate' = fate
      BY <1>8 DEF EndTurn
    <2>2. Current # {} /\ Current' = {}
      <3>1. \A k \in Msgs : pc'[k] # "turn"
        BY <1>8 DEF EndTurn, OneTurnAtATime, Owners, TypeOK, IInv
      <3>2. Current' = {}
        BY <3>1 DEF Current
      <3>3. turn[l] # <<>> /\ turn[l] \in Seq(1 .. sent)
        BY <1>8 DEF EndTurn, CancelHitsOwner, Owners, TypeOK, IInv
      <3>4. turn[l][1] \in Range(turn[l])
        BY <3>3 DEF Range
      <3> QED BY <1>8, <3>2, <3>4, CurrentElement DEF EndTurn
    <2>3. Waiting' = Waiting
      BY <1>w, <2>1
    <2>4. Begun' = Begun /\ Dropped' = Dropped
      BY <2>1 DEF Begun, Dropped
    <2>5. Server!Finish
      BY <1>w, <2>2, <2>3, <2>4 DEF Server!Finish, Begun, Dropped
    <2> QED BY <2>5 DEF Server!Next
  <1> QED
    BY <1>1, <1>2, <1>3, <1>4, <1>5, <1>6, <1>7, <1>8 DEF Next, LoopStep

\* Every behaviour of the run loops is one of the abstract turn server.
THEOREM ImplementsServer == Spec => ServerSpec
  <1>1. Init => Server!Init
    <2>1. Init => Waiting = {} /\ Current = {}
      BY RangeEmpty DEF Init, Waiting, AboutToBegin, Current
    <2> QED BY <2>1 DEF Init, Server!Init
  <1>2. IInv /\ IInv' /\ [Next]_vars => [Server!Next]_(Server!tsVars)
    <2>1. UNCHANGED vars => UNCHANGED Server!tsVars
      BY DEF vars, Server!tsVars, Waiting, AboutToBegin, Current
    <2> QED BY <2>1, StepRefines
  <1> QED BY <1>1, <1>2, Invariance, PTL DEF Spec, ServerSpec, Server!Spec
=============================================================================
