--------------------------- MODULE LifecycleProofs ----------------------------
(***************************************************************************)
(* Theorems about Lifecycle: Stop closes the stream it should, and no      *)
(* stream is closed twice, for every number of generations and of Starts   *)
(* that fail.                                                              *)
(*                                                                         *)
(* Both need that no Start overlaps a Stop that still waits, which is the  *)
(* caller's part: Overlap is a premise of them, and no assumption on the   *)
(* constants.                                                              *)
(***************************************************************************)
EXTENDS Lifecycle, TLAPS

-----------------------------------------------------------------------------
(* The inductive invariant.                                                *)

\* A relay that has begun to run.
Begun(g) == relay[g] \in {"awake", "select", "leaving", "gone"}

\* Every generation has had its relay, and no other.
RelayPerGeneration == \A g \in Gens : relay[g] = "none" <=> g > gen

\* A relay binds the events channel of its own generation or of a later one,
\* and of no generation before the Start that spawned it.
ClosesNoEarlier == \A g \in Gens : Begun(g) => g <= closes[g]

\* A relay selects on channels that were made.
WaitsOnSome == \A g \in Gens : relay[g] \in {"select", "leaving", "gone"} => waitsOn[g] >= 1

\* A relay that is gone has closed what it had bound.
GoneHasClosed == \A g \in Gens : relay[g] = "gone" => closings[closes[g]] >= 1

\* An adapter runs from a Start on.
RunsAfterStart == status = "running" => gen \in Gens

\* Only the last generation can run, and it runs until its Stop.
StopEndsGeneration ==
    /\ \A g \in Gens : stop[g] # "none" => g <= gen /\ (g = gen => status = "stopped")
    /\ doneClosed = {g \in Gens : stop[g] # "none"}

\* A Stop that has not returned is that of the last generation.
NoOverlap ==
    \A g \in Gens : /\ stop[g] \in {"notifying", "waiting"} => g = gen
                    /\ stop[g] = "notifying" => held

\* As long as every Start connected, relays follow one another: each closes the
\* channel of its own generation, once, before the next is spawned.
RelaysTakeTurns ==
    fails = 0 =>
        /\ gen # 0 => status = "running" \/ stop[gen] # "none"
        /\ \A g \in Gens : /\ g < gen => relay[g] = "gone"
                           /\ Begun(g) => closes[g] = g
                           /\ closings[g] = IF relay[g] = "gone" THEN 1 ELSE 0

LInv ==
    /\ TypeOK
    /\ RelayPerGeneration
    /\ ClosesNoEarlier
    /\ WaitsOnSome
    /\ GoneHasClosed
    /\ RunsAfterStart
    /\ StopEndsGeneration
    /\ NoOverlap
    /\ StopClosesStream
    /\ RelaysTakeTurns

-----------------------------------------------------------------------------
(* Every step keeps it.                                                    *)

\* The initial states satisfy the invariant.
LEMMA InitInv == Init => LInv
  <1> SUFFICES ASSUME Init PROVE LInv
    OBVIOUS
  <1>1. TypeOK
    <2>1. gen \in 0 .. MaxGens /\ fails \in 0 .. MaxFails /\ doneClosed \subseteq 1 .. gen
      BY LifecycleAssumption DEF Init
    <2>2. /\ waitsOn \in [Gens -> 0 .. gen] /\ closes \in [Gens -> 0 .. gen]
          /\ closings \in [Gens -> Nat]
      BY DEF Init
    <2> QED BY <2>1, <2>2 DEF Init, TypeOK
  <1>2. RelayPerGeneration /\ RunsAfterStart /\ StopEndsGeneration
    BY DEF Init, RelayPerGeneration, RunsAfterStart, StopEndsGeneration, Gens
  <1>3. ClosesNoEarlier /\ WaitsOnSome /\ GoneHasClosed
    BY DEF Init, ClosesNoEarlier, WaitsOnSome, GoneHasClosed, Begun
  <1>4. NoOverlap /\ StopClosesStream /\ RelaysTakeTurns
    BY DEF Init, NoOverlap, StopClosesStream, RelaysTakeTurns, Begun, Gens
  <1> QED BY <1>1, <1>2, <1>3, <1>4 DEF LInv

\* Every step keeps the types, whether Starts overlap Stops or not.
LEMMA StepType == ASSUME TypeOK, RunsAfterStart, Next PROVE TypeOK' /\ RunsAfterStart'
  <1> USE LifecycleAssumption DEF TypeOK, RunsAfterStart
  <1>1. ASSUME OnStatusChange PROVE TypeOK' /\ RunsAfterStart'
    BY <1>1 DEF OnStatusChange, Gens
  <1>2. ASSUME StartConnects PROVE TypeOK' /\ RunsAfterStart'
    BY <1>2, SMTT(20) DEF StartConnects, MakeStream, SetStatus, Gens
  <1>3. ASSUME StartFails PROVE TypeOK' /\ RunsAfterStart'
    BY <1>3, SMTT(20) DEF StartFails, MakeStream, lockVars, Gens
  <1>4. ASSUME StopCloses PROVE TypeOK' /\ RunsAfterStart'
    BY <1>4 DEF StopCloses, SetStatus, Gens
  <1>5. ASSUME NEW g \in Gens, StopReturns(g) PROVE TypeOK' /\ RunsAfterStart'
    BY <1>5 DEF StopReturns, lockVars, Gens
  <1>6. ASSUME NEW g \in Gens, RelayBegins(g) PROVE TypeOK' /\ RunsAfterStart'
    BY <1>6, SMTT(20) DEF RelayBegins, lockVars, Gens
  <1>7. ASSUME NEW g \in Gens, RelayWaits(g) PROVE TypeOK' /\ RunsAfterStart'
    BY <1>7 DEF RelayWaits, lockVars, Gens
  <1>8. ASSUME NEW g \in Gens, RelayWakes(g) PROVE TypeOK' /\ RunsAfterStart'
    BY <1>8 DEF RelayWakes, lockVars, Gens
  <1>9. ASSUME NEW g \in Gens, RelaySeesDone(g) PROVE TypeOK' /\ RunsAfterStart'
    BY <1>9 DEF RelaySeesDone, lockVars, Gens
  <1>10. ASSUME NEW g \in Gens, RelayCloses(g) PROVE TypeOK' /\ RunsAfterStart'
    <2>1. closings' = [h \in Gens |-> IF h = closes[g] THEN closings[h] + 1 ELSE closings[h]]
      BY <1>10 DEF RelayCloses
    <2>2. closings' \in [Gens -> Nat]
      BY <2>1
    <2> QED BY <1>10, <2>2 DEF RelayCloses, lockVars
  <1> QED BY <1>1, <1>2, <1>3, <1>4, <1>5,
       <1>6, <1>7, <1>8, <1>9, <1>10 DEF Next, RelayStep

\* Every step keeps it, if no Start overlaps a Stop.
LEMMA StepInv == ASSUME LInv, Next, ~Overlap PROVE LInv'
  <1>t. TypeOK' /\ RunsAfterStart'
    BY StepType DEF LInv
  <1>1. ASSUME OnStatusChange PROVE LInv'
    <2>2. RelayPerGeneration'
      BY <1>1, LifecycleAssumption DEF OnStatusChange, LInv,
         RelayPerGeneration, TypeOK, Gens
    <2>3. ClosesNoEarlier' /\ WaitsOnSome' /\ GoneHasClosed'
      BY <1>1, LifecycleAssumption DEF OnStatusChange, LInv, ClosesNoEarlier,
         WaitsOnSome, GoneHasClosed, TypeOK, Begun, StopEndsGeneration,
         RelayPerGeneration, Gens
    <2>4. StopEndsGeneration' /\ NoOverlap'
      BY <1>1, LifecycleAssumption DEF OnStatusChange, LInv,
         StopEndsGeneration, RunsAfterStart, NoOverlap, TypeOK, Gens
    <2>5. StopClosesStream'
      BY <1>1, LifecycleAssumption DEF OnStatusChange, LInv, StopClosesStream,
         TypeOK, NoOverlap, RelayPerGeneration, ClosesNoEarlier, GoneHasClosed,
         Begun, Gens
    <2>6. RelaysTakeTurns'
      BY <1>1, LifecycleAssumption DEF OnStatusChange, LInv, RelaysTakeTurns,
         TypeOK, NoOverlap, RelayPerGeneration, StopEndsGeneration, RunsAfterStart, Begun, Gens
    <2> QED BY <1>t, <2>2, <2>3, <2>4, <2>5, <2>6 DEF LInv
  <1>2. ASSUME StartConnects PROVE LInv'
    <2>2. RelayPerGeneration'
      BY <1>2, LifecycleAssumption, SMTT(20) DEF StartConnects, MakeStream, SetStatus,
         LInv, RelayPerGeneration, TypeOK, Gens
    <2>3. ClosesNoEarlier' /\ WaitsOnSome' /\ GoneHasClosed'
      BY <1>2, LifecycleAssumption DEF StartConnects, MakeStream, SetStatus,
         LInv, ClosesNoEarlier, WaitsOnSome, GoneHasClosed, TypeOK, Begun,
         StopEndsGeneration, RunsAfterStart, RelayPerGeneration, Gens
    <2>4. StopEndsGeneration' /\ NoOverlap'
      BY <1>2, LifecycleAssumption DEF StartConnects, MakeStream, SetStatus,
         LInv, StopEndsGeneration, RunsAfterStart, NoOverlap, TypeOK, Gens
    <2>5. StopClosesStream'
      BY <1>2, LifecycleAssumption DEF StartConnects, MakeStream, SetStatus,
         LInv, StopClosesStream, TypeOK, NoOverlap, RelayPerGeneration,
         ClosesNoEarlier, GoneHasClosed, Begun, Gens
    <2>6. RelaysTakeTurns'
      <3> SUFFICES ASSUME fails = 0 PROVE RelaysTakeTurns'
        BY <1>2 DEF StartConnects, RelaysTakeTurns
      <3>1. gen # 0 => stop[gen] = "returned"
        BY <1>2, ~Overlap, LifecycleAssumption
           DEF StartConnects, MakeStream, LInv, TypeOK, RelaysTakeTurns,
               NoOverlap, Gens
      <3>2. \A h \in Gens : h <= gen => relay[h] = "gone"
        BY <3>1, LifecycleAssumption
           DEF LInv, TypeOK, StopClosesStream, RelaysTakeTurns, Gens
      <3>3. /\ gen + 1 \in Gens /\ relay[gen + 1] = "none"
            /\ \A h \in Gens : h > gen => relay[h] = "none"
        BY <1>2, LifecycleAssumption
           DEF StartConnects, MakeStream, LInv, TypeOK, RelayPerGeneration, Gens
      <3> QED
        BY <1>2, <3>2, <3>3
           DEF StartConnects, MakeStream, SetStatus, LInv, TypeOK, RelaysTakeTurns,
               Begun, Gens
    <2> QED BY <1>t, <2>2, <2>3, <2>4, <2>5, <2>6 DEF LInv
  <1>3. ASSUME StartFails PROVE LInv'
    <2>2. RelayPerGeneration'
      BY <1>3, LifecycleAssumption, SMTT(20) DEF StartFails, MakeStream, lockVars, LInv,
         RelayPerGeneration, TypeOK, Gens
    <2>3. ClosesNoEarlier' /\ WaitsOnSome' /\ GoneHasClosed'
      BY <1>3, LifecycleAssumption DEF StartFails, MakeStream, lockVars, LInv,
         ClosesNoEarlier, WaitsOnSome, GoneHasClosed, TypeOK, Begun,
         StopEndsGeneration, RunsAfterStart, RelayPerGeneration, Gens
    <2>4. StopEndsGeneration' /\ NoOverlap'
      BY <1>3, LifecycleAssumption DEF StartFails, MakeStream, lockVars, LInv,
         StopEndsGeneration, RunsAfterStart, NoOverlap, TypeOK, Gens
    <2>5. StopClosesStream'
      BY <1>3, LifecycleAssumption DEF StartFails, MakeStream, lockVars, LInv,
         StopClosesStream, TypeOK, NoOverlap, RelayPerGeneration,
         ClosesNoEarlier, GoneHasClosed, Begun, Gens
    <2>6. RelaysTakeTurns'
      BY <1>3, LifecycleAssumption DEF StartFails, MakeStream, lockVars, LInv,
         RelaysTakeTurns, TypeOK, NoOverlap, RelayPerGeneration,
         StopEndsGeneration, RunsAfterStart, Begun, Gens
    <2> QED BY <1>t, <2>2, <2>3, <2>4, <2>5, <2>6 DEF LInv
  <1>4. ASSUME StopCloses PROVE LInv'
    <2>2. RelayPerGeneration'
      BY <1>4, LifecycleAssumption DEF StopCloses, SetStatus, LInv,
         RelayPerGeneration, TypeOK, Gens
    <2>3. ClosesNoEarlier' /\ WaitsOnSome' /\ GoneHasClosed'
      BY <1>4, LifecycleAssumption DEF StopCloses, SetStatus, LInv,
         ClosesNoEarlier, WaitsOnSome, GoneHasClosed, TypeOK, Begun,
         StopEndsGeneration, RunsAfterStart, RelayPerGeneration, Gens
    <2>4. StopEndsGeneration' /\ NoOverlap'
      BY <1>4, LifecycleAssumption DEF StopCloses, SetStatus, LInv,
         StopEndsGeneration, RunsAfterStart, NoOverlap, TypeOK, Gens
    <2>5. StopClosesStream'
      BY <1>4, LifecycleAssumption DEF StopCloses, SetStatus, LInv,
         StopClosesStream, TypeOK, NoOverlap, RelayPerGeneration,
         ClosesNoEarlier, GoneHasClosed, Begun, Gens
    <2>6. RelaysTakeTurns'
      BY <1>4, LifecycleAssumption DEF StopCloses, SetStatus, LInv,
         RelaysTakeTurns, TypeOK, NoOverlap, RelayPerGeneration,
         StopEndsGeneration, RunsAfterStart, Begun, Gens
    <2> QED BY <1>t, <2>2, <2>3, <2>4, <2>5, <2>6 DEF LInv
  <1>5. ASSUME NEW g \in Gens, StopReturns(g) PROVE LInv'
    <2>2. RelayPerGeneration'
      BY <1>5, LifecycleAssumption DEF StopReturns, lockVars, LInv,
         RelayPerGeneration, TypeOK, Gens
    <2>3. ClosesNoEarlier' /\ WaitsOnSome' /\ GoneHasClosed'
      BY <1>5, LifecycleAssumption DEF StopReturns, lockVars, LInv,
         ClosesNoEarlier, WaitsOnSome, GoneHasClosed, TypeOK, Begun,
         StopEndsGeneration, RunsAfterStart, RelayPerGeneration, Gens
    <2>4. StopEndsGeneration' /\ NoOverlap'
      BY <1>5, LifecycleAssumption DEF StopReturns, lockVars, LInv,
         StopEndsGeneration, RunsAfterStart, NoOverlap, TypeOK, Gens
    <2>5. StopClosesStream'
      BY <1>5, LifecycleAssumption DEF StopReturns, lockVars, LInv,
         StopClosesStream, TypeOK, NoOverlap, RelayPerGeneration,
         ClosesNoEarlier, GoneHasClosed, Begun, Gens
    <2>6. RelaysTakeTurns'
      BY <1>5, LifecycleAssumption DEF StopReturns, lockVars, LInv,
         RelaysTakeTurns, TypeOK, NoOverlap, RelayPerGeneration,
         StopEndsGeneration, RunsAfterStart, Begun, Gens
    <2> QED BY <1>t, <2>2, <2>3, <2>4, <2>5, <2>6 DEF LInv
  <1>6. ASSUME NEW g \in Gens, RelayBegins(g) PROVE LInv'
    <2>2. RelayPerGeneration'
      BY <1>6, LifecycleAssumption DEF RelayBegins, lockVars, LInv,
         RelayPerGeneration, TypeOK, Gens
    <2>3. ClosesNoEarlier' /\ WaitsOnSome' /\ GoneHasClosed'
      <3>1. g <= gen /\ relay[g] = "spawned"
        BY <1>6, LifecycleAssumption
           DEF RelayBegins, LInv, TypeOK, RelayPerGeneration, Gens
      <3>2. ClosesNoEarlier' /\ WaitsOnSome'
        BY <1>6, <3>1
           DEF RelayBegins, LInv, TypeOK, ClosesNoEarlier, WaitsOnSome, Begun
      <3>3. GoneHasClosed'
        BY <1>6 DEF RelayBegins, LInv, TypeOK, GoneHasClosed
      <3> QED BY <3>2, <3>3
    <2>4. StopEndsGeneration' /\ NoOverlap'
      BY <1>6, LifecycleAssumption DEF RelayBegins, lockVars, LInv,
         StopEndsGeneration, RunsAfterStart, NoOverlap, TypeOK, Gens
    <2>5. StopClosesStream'
      BY <1>6, LifecycleAssumption DEF RelayBegins, lockVars, LInv,
         StopClosesStream, TypeOK, NoOverlap, RelayPerGeneration,
         ClosesNoEarlier, GoneHasClosed, Begun, Gens
    <2>6. RelaysTakeTurns'
      BY <1>6, LifecycleAssumption DEF RelayBegins, lockVars, LInv,
         RelaysTakeTurns, TypeOK, NoOverlap, RelayPerGeneration,
         StopEndsGeneration, RunsAfterStart, Begun, Gens
    <2> QED BY <1>t, <2>2, <2>3, <2>4, <2>5, <2>6 DEF LInv
  <1>7. ASSUME NEW g \in Gens, RelayWaits(g) PROVE LInv'
    <2>2. RelayPerGeneration'
      BY <1>7, LifecycleAssumption DEF RelayWaits, lockVars, LInv,
         RelayPerGeneration, TypeOK, Gens
    <2>3. ClosesNoEarlier' /\ WaitsOnSome' /\ GoneHasClosed'
      BY <1>7, LifecycleAssumption, SMTT(20) DEF RelayWaits, lockVars, LInv,
         ClosesNoEarlier, WaitsOnSome, GoneHasClosed, TypeOK, Begun,
         StopEndsGeneration, RunsAfterStart, RelayPerGeneration, Gens
    <2>4. StopEndsGeneration' /\ NoOverlap'
      BY <1>7, LifecycleAssumption DEF RelayWaits, lockVars, LInv,
         StopEndsGeneration, RunsAfterStart, NoOverlap, TypeOK, Gens
    <2>5. StopClosesStream'
      BY <1>7, LifecycleAssumption DEF RelayWaits, lockVars, LInv,
         StopClosesStream, TypeOK, NoOverlap, RelayPerGeneration,
         ClosesNoEarlier, GoneHasClosed, Begun, Gens
    <2>6. RelaysTakeTurns'
      BY <1>7, LifecycleAssumption DEF RelayWaits, lockVars, LInv,
         RelaysTakeTurns, TypeOK, NoOverlap, RelayPerGeneration,
         StopEndsGeneration, RunsAfterStart, Begun, Gens
    <2> QED BY <1>t, <2>2, <2>3, <2>4, <2>5, <2>6 DEF LInv
  <1>8. ASSUME NEW g \in Gens, RelayWakes(g) PROVE LInv'
    <2>2. RelayPerGeneration'
      BY <1>8, LifecycleAssumption DEF RelayWakes, lockVars, LInv,
         RelayPerGeneration, TypeOK, Gens
    <2>3. ClosesNoEarlier' /\ WaitsOnSome' /\ GoneHasClosed'
      BY <1>8, LifecycleAssumption DEF RelayWakes, lockVars, LInv,
         ClosesNoEarlier, WaitsOnSome, GoneHasClosed, TypeOK, Begun,
         StopEndsGeneration, RunsAfterStart, RelayPerGeneration, Gens
    <2>4. StopEndsGeneration' /\ NoOverlap'
      BY <1>8, LifecycleAssumption DEF RelayWakes, lockVars, LInv,
         StopEndsGeneration, RunsAfterStart, NoOverlap, TypeOK, Gens
    <2>5. StopClosesStream'
      BY <1>8, LifecycleAssumption DEF RelayWakes, lockVars, LInv,
         StopClosesStream, TypeOK, NoOverlap, RelayPerGeneration,
         ClosesNoEarlier, GoneHasClosed, Begun, Gens
    <2>6. RelaysTakeTurns'
      BY <1>8, LifecycleAssumption, SMTT(20) DEF RelayWakes, lockVars, LInv,
         RelaysTakeTurns, TypeOK, NoOverlap, RelayPerGeneration,
         StopEndsGeneration, RunsAfterStart, Begun, Gens
    <2> QED BY <1>t, <2>2, <2>3, <2>4, <2>5, <2>6 DEF LInv
  <1>9. ASSUME NEW g \in Gens, RelaySeesDone(g) PROVE LInv'
    <2>2. RelayPerGeneration'
      BY <1>9, LifecycleAssumption DEF RelaySeesDone, lockVars, LInv,
         RelayPerGeneration, TypeOK, Gens
    <2>3. ClosesNoEarlier' /\ WaitsOnSome' /\ GoneHasClosed'
      BY <1>9, LifecycleAssumption DEF RelaySeesDone, lockVars, LInv,
         ClosesNoEarlier, WaitsOnSome, GoneHasClosed, TypeOK, Begun,
         StopEndsGeneration, RunsAfterStart, RelayPerGeneration, Gens
    <2>4. StopEndsGeneration' /\ NoOverlap'
      BY <1>9, LifecycleAssumption DEF RelaySeesDone, lockVars, LInv,
         StopEndsGeneration, RunsAfterStart, NoOverlap, TypeOK, Gens
    <2>5. StopClosesStream'
      BY <1>9, LifecycleAssumption DEF RelaySeesDone, lockVars, LInv,
         StopClosesStream, TypeOK, NoOverlap, RelayPerGeneration,
         ClosesNoEarlier, GoneHasClosed, Begun, Gens
    <2>6. RelaysTakeTurns'
      BY <1>9, LifecycleAssumption DEF RelaySeesDone, lockVars, LInv,
         RelaysTakeTurns, TypeOK, NoOverlap, RelayPerGeneration,
         StopEndsGeneration, RunsAfterStart, Begun, Gens
    <2> QED BY <1>t, <2>2, <2>3, <2>4, <2>5, <2>6 DEF LInv
  <1>10. ASSUME NEW g \in Gens, RelayCloses(g) PROVE LInv'
    <2>a. closes[g] \in Gens /\ relay[g] = "leaving"
      BY <1>10, LifecycleAssumption, SMTT(20)
         DEF RelayCloses, LInv, TypeOK, ClosesNoEarlier, Begun, Gens
    <2>b. /\ relay' = [relay EXCEPT ![g] = "gone"]
          /\ closings' = [closings EXCEPT ![closes[g]] = @ + 1]
          /\ UNCHANGED <<status, gen, fails, waitsOn, closes, doneClosed, stop,
                         reenters, held>>
      BY <1>10 DEF RelayCloses, lockVars
    <2>2. RelayPerGeneration' /\ StopEndsGeneration' /\ NoOverlap'
      BY <2>a, <2>b
         DEF LInv, TypeOK, RelayPerGeneration, StopEndsGeneration, RunsAfterStart, NoOverlap
    <2>3. ClosesNoEarlier' /\ WaitsOnSome'
      BY <2>a, <2>b DEF LInv, TypeOK, ClosesNoEarlier, WaitsOnSome, Begun
    <2>4. GoneHasClosed'
      <3>1. \A h \in Gens : closings'[h] \in Nat /\ closings'[h] >= closings[h]
        BY <2>a, <2>b DEF LInv, TypeOK
      <3>2. \A h \in Gens : relay'[h] = "gone" => h = g \/ relay[h] = "gone"
        BY <2>a, <2>b DEF LInv, TypeOK
      <3>4. \A h \in Gens : relay[h] = "gone" => closes[h] \in Gens
        BY LifecycleAssumption DEF LInv, TypeOK, ClosesNoEarlier, Begun, Gens
      <3>3. closings'[closes[g]] >= 1
        BY <2>a, <2>b DEF LInv, TypeOK
      <3> QED BY <2>b, <3>1, <3>2, <3>3, <3>4 DEF LInv, TypeOK, GoneHasClosed
    <2>5. StopClosesStream'
      BY <2>a, <2>b DEF LInv, TypeOK, StopClosesStream
    <2>6. RelaysTakeTurns'
      BY <2>a, <2>b DEF LInv, TypeOK, RelaysTakeTurns, Begun
    <2> QED BY <1>t, <2>2, <2>3, <2>4, <2>5, <2>6 DEF LInv
  <1> QED BY <1>1, <1>2, <1>3, <1>4, <1>5, <1>6, <1>7, <1>8, <1>9, <1>10 DEF
     Next, RelayStep

-----------------------------------------------------------------------------
(* The theorems.                                                           *)

\* The inductive invariant holds in every reachable state.
THEOREM Invariance == ASSUME ~Overlap PROVE Spec => []LInv
  <1>1. LInv /\ UNCHANGED vars => LInv'
    BY DEF vars, lockVars, LInv, TypeOK, RelayPerGeneration, ClosesNoEarlier,
           WaitsOnSome, GoneHasClosed, StopEndsGeneration, RunsAfterStart, NoOverlap,
           StopClosesStream, RelaysTakeTurns, Begun
  <1>2. LInv /\ [Next]_vars => LInv'
    BY <1>1, StepInv
  <1> QED BY <1>2, InitInv, PTL DEF Spec

\* Every variable keeps its type, though a Start may overlap a Stop.
THEOREM LifecycleTypeCorrect == Spec => []TypeOK
  <1>1. Init => TypeOK /\ RunsAfterStart
    BY InitInv DEF LInv
  <1>2. TypeOK /\ RunsAfterStart /\ UNCHANGED vars => TypeOK' /\ RunsAfterStart'
    BY DEF vars, lockVars, TypeOK, RunsAfterStart
  <1>3. TypeOK /\ RunsAfterStart /\ [Next]_vars => TypeOK' /\ RunsAfterStart'
    BY <1>2, StepType
  <1> QED BY <1>1, <1>3, PTL DEF Spec

\* Stop returns only after the channel of its own life was closed, however many
\* Starts have failed and left a relay behind.
THEOREM StreamClosedByStop == ASSUME ~Overlap PROVE Spec => []StopClosesStream
  <1>1. LInv => StopClosesStream
    BY DEF LInv
  <1> QED BY <1>1, Invariance, PTL

\* While every Start connects, no channel is closed twice.
THEOREM NoDoubleClose == ASSUME ~Overlap PROVE Spec => []ClosedOnceIfConnected
  <1>1. LInv => ClosedOnceIfConnected
    BY DEF LInv, RelaysTakeTurns, ClosedOnceIfConnected, ClosedOnce
  <1> QED BY <1>1, Invariance, PTL
=============================================================================
