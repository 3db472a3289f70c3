-------------------------- MODULE EventRelayProofs --------------------------
(***************************************************************************)
(* Theorems about EventRelay, for any producers, any number of events and  *)
(* any channel capacities: types, no loss on the way, a complete flush at  *)
(* shutdown, and that the relay implements EventStream.                    *)
(* Every buffer holds a run of consecutive event numbers, and each run     *)
(* starts where the one before it, downstream, ends: that is RInv.         *)
(***************************************************************************)
EXTENDS EventRelay, TLAPS

-----------------------------------------------------------------------------
(* Runs of consecutive numbers.                                            *)

\* s holds the numbers that follow a, in order.
Run(s, a) == \A i \in DOMAIN s : s[i] = a + i

\* The next number extends a run ...
LEMMA RunAppend ==
    ASSUME NEW s \in Seq(Nat), NEW a \in Nat, Run(s, a)
    PROVE  /\ Append(s, a + Len(s) + 1) \in Seq(Nat)
           /\ Len(Append(s, a + Len(s) + 1)) = Len(s) + 1
           /\ Run(Append(s, a + Len(s) + 1), a)
  <1> DEFINE x == a + Len(s) + 1
  <1>1. Len(s) \in Nat /\ x \in Nat
    OBVIOUS
  <1>2. Append(s, x) \in Seq(Nat) /\ Len(Append(s, x)) = Len(s) + 1
    BY <1>1
  <1>3. ASSUME NEW i \in DOMAIN Append(s, x) PROVE Append(s, x)[i] = a + i
    <2>1. CASE i \in 1 .. Len(s)
      BY <2>1 DEF Run
    <2>2. CASE i = Len(s) + 1
      BY <2>2, <1>1
    <2> QED BY <1>2, <2>1, <2>2
  <1> QED BY <1>2, <1>3 DEF Run

\* ... and its first number leaves a run behind.
LEMMA RunTail ==
    ASSUME NEW s \in Seq(Nat), NEW a \in Nat, Run(s, a), s # <<>>
    PROVE  /\ Head(s) = a + 1
           /\ Tail(s) \in Seq(Nat)
           /\ Len(Tail(s)) = Len(s) - 1
           /\ Len(s) \in Nat \ {0}
           /\ Run(Tail(s), a + 1)
  <1>1. Len(s) \in Nat \ {0} /\ Tail(s) \in Seq(Nat) /\ Len(Tail(s)) = Len(s) - 1
    OBVIOUS
  <1>2. Head(s) = a + 1
    BY <1>1 DEF Run
  <1>3. ASSUME NEW i \in DOMAIN Tail(s) PROVE Tail(s)[i] = a + 1 + i
    <2>1. i + 1 \in DOMAIN s /\ Tail(s)[i] = s[i + 1] /\ i \in Nat
      BY <1>1
    <2>2. s[i + 1] = a + (i + 1)
      BY <2>1 DEF Run
    <2> QED BY <2>1, <2>2
  <1> QED BY <1>1, <1>2, <1>3 DEF Run

\* Two runs, one behind the other, are one run.
LEMMA RunConcat ==
    ASSUME NEW s \in Seq(Nat), NEW t \in Seq(Nat), NEW a \in Nat,
           Run(s, a), Run(t, a + Len(s))
    PROVE  /\ s \o t \in Seq(Nat)
           /\ Len(s \o t) = Len(s) + Len(t)
           /\ Run(s \o t, a)
  <1>1. s \o t \in Seq(Nat) /\ Len(s \o t) = Len(s) + Len(t)
    OBVIOUS
  <1>2. ASSUME NEW i \in DOMAIN (s \o t) PROVE (s \o t)[i] = a + i
    <2>1. CASE i <= Len(s)
      BY <1>1, <2>1 DEF Run
    <2>2. CASE i > Len(s)
      BY <1>1, <2>2 DEF Run
    <2> QED BY <1>1, <2>1, <2>2
  <1> QED BY <1>1, <1>2 DEF Run

\* A run from 1 on is the sequence of all numbers up to its length.
LEMMA RunIsUnderway ==
    ASSUME NEW s \in Seq(Nat), Run(s, 0)
    PROVE  s = Underway(Len(s))
  BY DEF Run, Underway

-----------------------------------------------------------------------------
(* The inductive invariant.                                                *)

\* How many events left the relay for the consumer.
Out == Len(received) + Len(events)

Alive == relay \in {"loop", "flush", "drain"}

\* The runs, and the one number that says where each event is.
Aligned ==
    /\ Run(received, 0)
    /\ Run(events, Len(received))
    /\ Out <= accepted
    /\ Alive => /\ Run(buf, Out)
                /\ Run(internal, Out + Len(buf))
                /\ accepted = Out + Len(buf) + Len(internal)

\* What the stages of the shutdown know of each other.
Stages ==
    /\ closed => relay = "exited"
    /\ relay = "flush" => buf # <<>>
    /\ relay = "drain" => buf = <<>>
    /\ relay # "loop" => done
    /\ done => stop # "none"
    /\ atStop <= accepted
    /\ relay \in {"close", "exited"} /\ ~dropped => Out >= atStop
    /\ ended => relay = "exited" /\ events = <<>>

RInv == TypeOK /\ Aligned /\ Stages

LEMMA RInvInit == Init => RInv
  <1> SUFFICES ASSUME Init PROVE RInv
    OBVIOUS
  <1>1. TypeOK
    <2>1. /\ internal \in Seq(Nat) /\ Len(internal) <= InCap
          /\ events \in Seq(Nat) /\ Len(events) <= OutCap
          /\ buf \in Seq(Nat) /\ received \in Seq(Nat)
      BY RelayAssumption DEF Init
    <2>2. emit \in [Producers -> {"idle", "checked", "exited"}]
      BY DEF Init
    <2> QED BY <2>1, <2>2 DEF Init, TypeOK
  <1>2. Aligned /\ Stages
    BY DEF Init, Aligned, Stages, Run, Out, Alive
  <1> QED BY <1>1, <1>2 DEF RInv

LEMMA RInvStep == ASSUME RInv, Next PROVE RInv'
  <1> USE RelayAssumption DEF RInv
  <1>t. /\ Len(received) \in Nat /\ Len(events) \in Nat /\ Out \in Nat
        /\ Len(buf) \in Nat /\ Len(internal) \in Nat /\ accepted \in Nat
    BY DEF TypeOK, Out
  <1>1. ASSUME NEW p \in Producers, EmitCheck(p) \/ EmitGivesUp(p) \/ ProducerExits(p)
        PROVE  RInv'
    <2>0. UNCHANGED <<done, closed, dropped, ended, accepted, atStop, internal,
                      events, buf, received, relay, stop>>
      BY <1>1 DEF EmitCheck, EmitGivesUp, ProducerExits, relayVars
    <2>e. emit' \in [Producers -> {"idle", "checked", "exited"}]
      BY <1>1 DEF EmitCheck, EmitGivesUp, ProducerExits, TypeOK
    <2>1. TypeOK'
      BY <2>0, <2>e DEF TypeOK
    <2>2. Aligned' /\ Stages'
      BY <2>0 DEF Aligned, Stages, Alive, Out, Run
    <2> QED BY <2>1, <2>2
  <1>2. ASSUME NEW p \in Producers, EmitSend(p) PROVE RInv'
    <2>1. TypeOK'
      BY <1>2 DEF EmitSend, TypeOK
    <2>2. Len(internal') = Len(internal) + 1
      BY <1>2 DEF EmitSend, TypeOK
    <2>3. Alive => Run(internal', Out + Len(buf))
      BY <1>2, <1>t, RunAppend DEF EmitSend, Aligned, TypeOK
    <2>4. Aligned'
      BY <1>2, <1>t, <2>2, <2>3 DEF EmitSend, Aligned, Alive, Out
    <2>5. Stages'
      BY <1>2, <1>t DEF EmitSend, Stages, Out, TypeOK
    <2> QED BY <2>1, <2>4, <2>5
  <1>3. CASE RelayTakes
    <2>1. /\ Head(internal) = Out + Len(buf) + 1
          /\ internal' \in Seq(Nat) /\ Len(internal') = Len(internal) - 1
          /\ Run(internal', Out + Len(buf) + 1)
      BY <1>3, <1>t, RunTail DEF RelayTakes, Aligned, Alive, TypeOK
    <2>2. /\ buf' \in Seq(Nat) /\ Len(buf') = Len(buf) + 1
          /\ Run(buf', Out)
      <3>1. buf \in Seq(Nat) /\ Run(buf, Out)
        BY <1>3 DEF RelayTakes, Aligned, Alive, TypeOK
      <3>2. buf' = Append(buf, Out + Len(buf) + 1)
        BY <1>3, <2>1 DEF RelayTakes
      <3> QED BY <1>t, <3>1, <3>2, RunAppend
    <2>3. TypeOK'
      BY <1>3, <1>t, <2>1, <2>2 DEF RelayTakes, TypeOK
    <2>4. Aligned'
      BY <1>3, <1>t, <2>1, <2>2 DEF RelayTakes, Aligned, Alive, Out
    <2>5. Stages'
      BY <1>3 DEF RelayTakes, Stages, Out
    <2> QED BY <2>3, <2>4, <2>5
  <1>4. CASE RelayForwards \/ FlushForwards
    <2>0. /\ Alive /\ buf # <<>>
          /\ events' = Append(events, Head(buf)) /\ buf' = Tail(buf)
          /\ UNCHANGED <<received, internal, accepted>>
      BY <1>4 DEF RelayForwards, FlushForwards, Alive, Stages
    <2>1. /\ Head(buf) = Out + 1
          /\ buf' \in Seq(Nat) /\ Len(buf') = Len(buf) - 1 /\ Len(buf) # 0
          /\ Run(buf', Out + 1)
      BY <2>0, <1>t, RunTail DEF Aligned, TypeOK
    <2>2. /\ events' \in Seq(Nat) /\ Len(events') = Len(events) + 1
          /\ Run(events', Len(received))
      <3>1. events \in Seq(Nat) /\ Len(received) \in Nat
        BY <1>t DEF TypeOK
      <3>2. Run(events, Len(received))
        BY <1>t DEF Aligned
      <3>3. Head(buf) = Len(received) + Len(events) + 1
        BY <2>1 DEF Out
      <3>4. events' = Append(events, Len(received) + Len(events) + 1)
        BY <2>0, <3>3
      <3> QED BY <3>1, <3>2, <3>4, RunAppend
    <2>3. TypeOK'
      <3>1. Len(events') <= OutCap
        BY <1>4, <1>t, <2>2 DEF RelayForwards, FlushForwards
      <3>2. relay' \in {"loop", "flush", "drain"}
        BY <1>4 DEF RelayForwards, FlushForwards
      <3>3. UNCHANGED <<done, closed, dropped, ended, accepted, atStop, internal,
                        received, emit, stop>>
        BY <1>4 DEF RelayForwards, FlushForwards
      <3> QED BY <2>1, <2>2, <3>1, <3>2, <3>3 DEF TypeOK
    <2>4. Aligned'
      <3>1. Out' = Out + 1 /\ Out' + Len(buf') = Out + Len(buf)
        BY <2>0, <1>t, <2>1, <2>2 DEF Out
      <3> QED BY <2>0, <1>t, <2>1, <2>2, <3>1 DEF Aligned
    <2>5. Stages'
      <3>1. relay' = "flush" => buf' # <<>>
        BY <1>4, <2>1 DEF RelayForwards, FlushForwards
      <3>2. relay' = "drain" => buf' = <<>>
        BY <1>4, <2>1 DEF RelayForwards, FlushForwards
      <3> QED BY <1>4, <3>1, <3>2 DEF RelayForwards, FlushForwards, Stages, Out
    <2> QED BY <2>3, <2>4, <2>5
  <1>5. CASE RelaySeesDone \/ FlushDeadline
    <2>1. TypeOK'
      BY <1>5 DEF RelaySeesDone, FlushDeadline, TypeOK
    <2>2. Aligned'
      BY <1>5 DEF RelaySeesDone, FlushDeadline, Aligned, Alive, Out
    <2>3. Stages'
      BY <1>5 DEF RelaySeesDone, FlushDeadline, Stages, Out
    <2> QED BY <2>1, <2>2, <2>3
  <1>6. CASE DrainForwards
    <2>1. /\ Head(internal) = Out + 1
          /\ internal' \in Seq(Nat) /\ Len(internal') = Len(internal) - 1
          /\ Run(internal', Out + 1) /\ Len(buf) = 0
      BY <1>6, <1>t, RunTail DEF DrainForwards, Aligned, Alive, Stages, TypeOK
    <2>2. /\ events' \in Seq(Nat) /\ Len(events') = Len(events) + 1
          /\ Run(events', Len(received))
      BY <1>6, <1>t, <2>1, RunAppend DEF DrainForwards, Aligned, Out, TypeOK
    <2>3. TypeOK'
      BY <1>6, <1>t, <2>1, <2>2 DEF DrainForwards, TypeOK
    <2>4. Run(buf', Out + 1)
      BY <1>6 DEF DrainForwards, Stages, Run
    <2>5. Aligned'
      BY <1>6, <1>t, <2>1, <2>2, <2>4 DEF DrainForwards, Aligned, Alive, Out
    <2>6. Stages'
      BY <1>6 DEF DrainForwards, Stages, Out
    <2> QED BY <2>3, <2>5, <2>6
  <1>7. CASE DrainGivesUp
    <2>1. internal' \in Seq(Nat) /\ Len(internal') = Len(internal) - 1
      BY <1>7, <1>t DEF DrainGivesUp, TypeOK
    <2>2. TypeOK'
      BY <1>7, <1>t, <2>1 DEF DrainGivesUp, TypeOK
    <2>3. Aligned' /\ Stages'
      BY <1>7 DEF DrainGivesUp, Aligned, Stages, Alive, Out
    <2> QED BY <2>2, <2>3
  <1>8. CASE DrainEnds
    <2>1. TypeOK'
      BY <1>8 DEF DrainEnds, TypeOK
    <2>2. Out = accepted
      BY <1>8, <1>t DEF DrainEnds, Aligned, Alive, Stages
    <2>3. Aligned' /\ Stages'
      BY <1>8, <1>t, <2>2 DEF DrainEnds, Aligned, Stages, Alive, Out, TypeOK
    <2> QED BY <2>1, <2>3
  <1>9. CASE RelayExits
    <2>1. TypeOK'
      BY <1>9 DEF RelayExits, TypeOK
    <2>2. Aligned' /\ Stages'
      BY <1>9 DEF RelayExits, Aligned, Stages, Alive, Out
    <2> QED BY <2>1, <2>2
  <1>10. CASE StopCloses
    <2>1. TypeOK'
      BY <1>10 DEF StopCloses, relayVars, TypeOK
    <2>2. Aligned'
      BY <1>10 DEF StopCloses, relayVars, Aligned, Alive, Out
    <2>3. Stages'
      BY <1>10, <1>t DEF StopCloses, relayVars, Stages, Out, TypeOK
    <2> QED BY <2>1, <2>2, <2>3
  <1>11. CASE StopWaited \/ StopReturns
    <2>1. TypeOK'
      BY <1>11 DEF StopWaited, StopReturns, relayVars, TypeOK
    <2>2. Aligned'
      BY <1>11 DEF StopWaited, StopReturns, relayVars, Aligned, Alive, Out
    <2>3. Stages'
      BY <1>11 DEF StopWaited, StopReturns, relayVars, Stages, Out
    <2> QED BY <2>1, <2>2, <2>3
  <1>12. CASE Receives
    <2>1. /\ Head(events) = Len(received) + 1
          /\ events' \in Seq(Nat) /\ Len(events') = Len(events) - 1
          /\ Run(events', Len(received) + 1)
      BY <1>12, <1>t, RunTail DEF Receives, Aligned, TypeOK
    <2>2. /\ received' \in Seq(Nat) /\ Len(received') = Len(received) + 1
          /\ Run(received', 0)
      BY <1>12, <1>t, <2>1, RunAppend DEF Receives, Aligned, TypeOK
    <2>3. TypeOK'
      BY <1>12, <1>t, <2>1, <2>2 DEF Receives, TypeOK
    <2>4. Out' = Out
      BY <1>t, <2>1, <2>2 DEF Out
    <2>5. Aligned'
      BY <1>12, <1>t, <2>1, <2>2, <2>4 DEF Receives, Aligned, Alive
    <2>6. Stages'
      BY <1>12, <2>4 DEF Receives, Stages
    <2> QED BY <2>3, <2>5, <2>6
  <1>13. CASE SeesClose
    <2>1. TypeOK'
      BY <1>13 DEF SeesClose, relayVars, TypeOK
    <2>2. Aligned' /\ Stages'
      BY <1>13 DEF SeesClose, relayVars, Aligned, Stages, Alive, Out
    <2> QED BY <2>1, <2>2
  <1> QED
    BY <1>1, <1>2, <1>3, <1>4, <1>5, <1>6, <1>7, <1>8, <1>9, <1>10, <1>11,
       <1>12, <1>13 DEF Next, EmitStep, RelayStep

-----------------------------------------------------------------------------
(* The theorems.                                                           *)

\* The inductive invariant holds in every reachable state.
THEOREM RelayInvariance == Spec => []RInv
  <1>1. RInv /\ UNCHANGED vars => RInv'
    BY DEF vars, RInv, TypeOK, Aligned, Stages, Alive, Out
  <1>2. RInv /\ [Next]_vars => RInv'
    BY <1>1, RInvStep
  <1> QED BY <1>2, RInvInit, PTL DEF Spec

\* Types, and the capacities of both channels, hold for any constants.
THEOREM RelayTypeCorrect == Spec => []TypeOK
  <1>1. RInv => TypeOK
    BY DEF RInv
  <1> QED BY <1>1, RelayInvariance, PTL

\* While the relay runs, no accepted event is lost, doubled or overtaken.
THEOREM NoLossOnTheWay == Spec => []NothingLostOnTheWay
  <1>1. RInv => NothingLostOnTheWay
    <2> SUFFICES ASSUME RInv, Alive PROVE Pipeline = Underway(accepted)
      BY DEF NothingLostOnTheWay, Alive
    <2>1. /\ received \in Seq(Nat) /\ events \in Seq(Nat)
          /\ buf \in Seq(Nat) /\ internal \in Seq(Nat)
          /\ Len(received) \in Nat /\ Len(events) \in Nat /\ Len(buf) \in Nat
      BY DEF RInv, TypeOK
    <2>a. Out \in Nat /\ Run(buf, 0 + Out) /\ Run(internal, 0 + (Out + Len(buf)))
      BY <2>1 DEF RInv, Aligned, Out
    <2>2. /\ received \o events \in Seq(Nat)
          /\ Len(received \o events) = Out
          /\ Run(received \o events, 0)
      BY <2>1, RunConcat DEF RInv, Aligned, Out
    <2>3. /\ received \o events \o buf \in Seq(Nat)
          /\ Len(received \o events \o buf) = Out + Len(buf)
          /\ Run(received \o events \o buf, 0)
      BY <2>1, <2>a, <2>2, RunConcat
    <2>b. accepted = Out + Len(buf) + Len(internal)
      BY DEF RInv, Aligned
    <2>4. /\ Pipeline \in Seq(Nat)
          /\ Len(Pipeline) = Out + Len(buf) + Len(internal)
          /\ Run(Pipeline, 0)
      <3> DEFINE front == received \o events \o buf
      <3>1. front \in Seq(Nat) /\ Len(front) \in Nat /\ Run(front, 0)
        BY <2>3
      <3>2. Len(front) = Out + Len(buf)
        BY <2>3
      <3>3. internal \in Seq(Nat) /\ Run(internal, 0 + Len(front))
        BY <2>1, <2>a, <3>2
      <3>4. Pipeline = front \o internal
        BY DEF Pipeline
      <3> HIDE DEF front
      <3> QED BY <3>1, <3>2, <3>3, <3>4, RunConcat
    <2> QED BY <2>b, <2>4, RunIsUnderway
  <1> QED BY <1>1, RelayInvariance, PTL

\* The flush at shutdown is complete unless the consumer left it no room.
THEOREM ShutdownIsComplete == Spec => []ShutdownFlushes
  <1>1. RInv => ShutdownFlushes
    BY DEF RInv, Stages, ShutdownFlushes, Out
  <1> QED BY <1>1, RelayInvariance, PTL

\* Every behaviour of the relay is one of the stream the consumer is promised.
THEOREM ImplementsStream == Spec => StreamSpec
  <1>1. Init => Stream!Init
    BY DEF Init, Stream!Init, Underway
  <1>2. RInv /\ [Next]_vars => [Stream!Next]_(Stream!esVars)
    <2> SUFFICES ASSUME RInv, [Next]_vars PROVE [Stream!Next]_(Stream!esVars)
      OBVIOUS
    <2>n. accepted \in Nat
      BY DEF RInv, TypeOK
    <2>1. CASE UNCHANGED <<accepted, received, ended>>
      BY <2>1 DEF Stream!esVars, Underway
    <2>2. ASSUME NEW p \in Producers, EmitSend(p) PROVE Stream!Accept
      BY <2>2, <2>n DEF EmitSend, Stream!Accept, Underway
    <2>3. ASSUME Receives PROVE Stream!Deliver
      <3>1. ~ended
        BY <2>3 DEF Receives, RInv, Stages
      <3>2. /\ Head(events) = Len(received) + 1
            /\ Len(events) \in Nat \ {0} /\ Len(received) \in Nat
        BY <2>3, RunTail DEF Receives, RInv, Aligned, TypeOK
      <3>3. Len(received) < accepted /\ Len(received) + 1 \in 1 .. accepted
        BY <3>2, <2>n DEF RInv, Aligned, Out
      <3>4. /\ Len(Underway(accepted)) = accepted
            /\ Underway(accepted)[Len(received) + 1] = Len(received) + 1
        BY <3>3, <2>n DEF Underway
      <3> QED BY <2>3, <3>1, <3>2, <3>3, <3>4 DEF Receives, Stream!Deliver
    <2>4. ASSUME SeesClose PROVE Stream!End
      BY <2>4 DEF SeesClose, Stream!End
    <2> QED
      BY <2>1, <2>2, <2>3, <2>4
         DEF Next, vars, EmitStep, EmitCheck, EmitGivesUp, ProducerExits,
             RelayStep, RelayTakes, RelayForwards, RelaySeesDone,
             FlushForwards, FlushDeadline, DrainForwards, DrainGivesUp,
             DrainEnds, RelayExits, StopCloses, StopWaited, StopReturns,
             Stream!Next
  <1> QED BY <1>1, <1>2, RelayInvariance, PTL DEF Spec, StreamSpec, Stream!Spec
=============================================================================
