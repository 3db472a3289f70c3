--------------------------- MODULE BookkeepingProofs ---------------------------
(***************************************************************************)
(* What an adapter keeps beside its history.  The estimate of tokens is    *)
(* that of the history, over turns, compactions and clears; the session id *)
(* is the latest one wherever it is used, in the prompt of a turn and in   *)
(* the process a reconnect launches.  For any number of calls, clients,    *)
(* crashes and failures, any window and any configuration.                 *)
(***************************************************************************)
EXTENDS CompactionProofs, FiniteSetTheorems, WellFoundedInduction

-----------------------------------------------------------------------------
(* Sums over a history.                                                    *)

\* The sums over the parts of a history, as TokensOf forms them: it takes entries
\* out in the order in which CHOOSE names them.
Taken(s) == CHOOSE i \in s : TRUE
SumAt(g, h, s) == IF s = {} THEN 0 ELSE Size(h[Taken(s)]) + g[s \ {Taken(s)}]
Sums(g, h) == g = [s \in SUBSET DOMAIN h |-> SumAt(g, h, s)]

\* TokensOf is a fold, and this is what it folds.
LEMMA TokensAreSums ==
    ASSUME NEW h
    PROVE  TokensOf(h) = (CHOOSE g : Sums(g, h))[DOMAIN h]
  BY DEF TokensOf, FoldFunction, FoldFunctionOnSet, MapThenFoldSet, Sums, SumAt, Taken

\* Among parts of a finite set there is one that contains no other, and among
\* naturals a least.
LEMMA SmallestSet ==
    ASSUME NEW D, IsFiniteSet(D), NEW T \in SUBSET SUBSET D, T # {}
    PROVE  \E s \in T : \A u \in SUBSET s : u # s => u \notin T
  <1>1. T \subseteq FiniteSubsetsOf(D)
    BY FS_Subset DEF FiniteSubsetsOf
  <1>2. PICK s \in T : \A u \in T : ~(<<u, s>> \in StrictSubsetOrdering(D))
    BY <1>1, FS_StrictSubsetOrderingWellFounded, WFMin
  <1> QED BY <1>2 DEF StrictSubsetOrdering

LEMMA LeastNatural ==
    ASSUME NEW T \in SUBSET Nat, T # {}
    PROVE  \E m \in T : \A k \in T : m <= k
  <1>1. PICK n \in T : TRUE
    OBVIOUS
  <1> DEFINE D == 0 .. n
             F == {0 .. k : k \in {j \in T : j <= n}}
  <1>2. IsFiniteSet(D) /\ F \in SUBSET SUBSET D /\ F # {}
    <2>1. IsFiniteSet(D)
      BY <1>1, FS_Interval
    <2>2. D \in F
      BY <1>1
    <2>3. \A s \in F : s \subseteq D
      BY <1>1
    <2> HIDE DEF F, D
    <2> QED BY <2>1, <2>2, <2>3
  <1>3. PICK s \in F : \A u \in SUBSET s : u # s => u \notin F
    <2> HIDE DEF F, D
    <2> QED BY <1>2, SmallestSet
  <1>4. PICK m \in T : m <= n /\ s = 0 .. m
    BY <1>3
  <1>5. ASSUME NEW k \in T, k < m PROVE FALSE
    <2>1. 0 .. k \in SUBSET s /\ 0 .. k # s
      BY <1>4, <1>5
    <2>2. 0 .. k \in F
      BY <1>4, <1>5
    <2> QED BY <1>3, <2>1, <2>2
  <1> QED BY <1>4, <1>5

\* A choice from a set that has members.
LEMMA TakenIsThere == ASSUME NEW s, s # {} PROVE Taken(s) \in s
  BY DEF Taken

\* The sums exist, for the parts of at most n entries and so for all.
LEMMA SumsExist ==
    ASSUME NEW h, IsFiniteSet(DOMAIN h)
    PROVE  \E g : Sums(g, h)
  <1> DEFINE Parts(n) == {s \in SUBSET DOMAIN h : Cardinality(s) <= n}
             SumsTo(g, n) == g = [s \in Parts(n) |-> SumAt(g, h, s)]
             T == {n \in Nat : ~\E g : SumsTo(g, n)}
  <1>c. \A s \in SUBSET DOMAIN h : IsFiniteSet(s) /\ Cardinality(s) \in Nat
    BY FS_Subset, FS_CardinalityType
  <1>1. ASSUME T # {} PROVE FALSE
    <2>1. PICK m \in T : \A k \in T : m <= k
      <3> T \in SUBSET Nat
        OBVIOUS
      <3> HIDE DEF T
      <3> QED BY <1>1, LeastNatural
    <2>2. m # 0
      <3> DEFINE g == [s \in Parts(0) |-> 0]
      <3>1. \A s \in Parts(0) : s = {}
        BY <1>c, FS_EmptySet
      <3>2. SumsTo(g, 0)
        BY <3>1 DEF SumAt
      <3> HIDE DEF SumsTo
      <3> QED BY <2>1, <3>2
    <2>3. m \in Nat /\ m - 1 \in Nat /\ m - 1 \notin T
      <3>1. m \in Nat
        BY <2>1
      <3> HIDE DEF T
      <3> QED BY <2>1, <2>2, <3>1
    <2>4. PICK g : SumsTo(g, m - 1)
      BY <2>3
    <2> DEFINE f == [s \in Parts(m) |-> SumAt(g, h, s)]
    <2>5. \A s \in Parts(m) : s # {} =>
              s \ {Taken(s)} \in Parts(m - 1) /\ s \ {Taken(s)} \in Parts(m)
      <3> SUFFICES ASSUME NEW s \in Parts(m), s # {}
                   PROVE  s \ {Taken(s)} \in Parts(m - 1) /\ s \ {Taken(s)} \in Parts(m)
        OBVIOUS
      <3>1. Cardinality(s \ {Taken(s)}) = Cardinality(s) - 1
        BY <1>c, TakenIsThere, FS_RemoveElement
      <3>2. Cardinality(s) \in Nat /\ Cardinality(s) <= m
        BY <1>c
      <3> QED BY <2>3, <3>1, <3>2
    <2>6. \A s \in Parts(m - 1) : f[s] = g[s]
      BY <2>3, <2>4, <1>c
    <2>7. \A s \in Parts(m) : SumAt(g, h, s) = SumAt(f, h, s)
      BY <2>5, <2>6 DEF SumAt
    <2>8. SumsTo(f, m)
      BY <2>7
    <2> QED BY <2>1, <2>8
  <1> DEFINE n == Cardinality(DOMAIN h)
  <1>2. n \in Nat /\ Parts(n) = SUBSET DOMAIN h
    BY <1>c, FS_Subset
  <1>3. PICK g : SumsTo(g, n)
    BY <1>1, <1>2
  <1> QED BY <1>2, <1>3 DEF Sums

\* What SumsExist says of the sums that TokensOf takes.
TheSums(h) == CHOOSE g : Sums(g, h)
LEMMA SumsAre ==
    ASSUME NEW h \in Seq(Entry)
    PROVE  /\ IsFiniteSet(DOMAIN h)
           /\ TokensOf(h) = TheSums(h)[DOMAIN h]
           /\ \A s \in SUBSET DOMAIN h : TheSums(h)[s] = SumAt(TheSums(h), h, s)
  <1>1. IsFiniteSet(DOMAIN h)
    <2>1. DOMAIN h = 1 .. Len(h) /\ Len(h) \in Nat
      OBVIOUS
    <2> QED BY <2>1, FS_Interval
  <1>2. Sums(TheSums(h), h)
    BY <1>1, SumsExist DEF TheSums
  <1>3. \A s \in SUBSET DOMAIN h : TheSums(h)[s] = SumAt(TheSums(h), h, s)
    BY <1>2 DEF Sums
  <1> QED BY <1>1, <1>3, TokensAreSums DEF TheSums

\* They are naturals, and the order in which entries are taken out does not
\* matter.
LEMMA SumsInAnyOrder ==
    ASSUME NEW h \in Seq(Entry), NEW s \in SUBSET DOMAIN h
    PROVE  /\ TheSums(h)[s] \in Nat
           /\ \A i \in s : TheSums(h)[s] = Size(h[i]) + TheSums(h)[s \ {i}]
  <1> DEFINE g == TheSums(h)
             Good(u) == /\ g[u] \in Nat
                        /\ \A i \in u : g[u] = Size(h[i]) + g[u \ {i}]
             T == {u \in SUBSET DOMAIN h : ~Good(u)}
  <1>s. \A i \in DOMAIN h : Size(h[i]) \in Nat
    BY SizeIsNat
  <1>g. \A u \in SUBSET DOMAIN h : g[u] = SumAt(g, h, u)
    BY SumsAre
  <1>1. ASSUME T # {} PROVE FALSE
    <2>1. PICK u \in T : \A v \in SUBSET u : v # u => v \notin T
      <3>1. T \in SUBSET SUBSET DOMAIN h /\ IsFiniteSet(DOMAIN h)
        BY SumsAre
      <3> HIDE DEF T
      <3> QED BY <1>1, <3>1, SmallestSet
    <2>2. u \in SUBSET DOMAIN h /\ ~Good(u)
      BY <2>1
    <2>3. \A v \in SUBSET u : v # u => Good(v)
      BY <2>1, <2>2
    <2> DEFINE c == Taken(u)
    <2>4. u # {}
      <3>1. ASSUME u = {} PROVE Good(u)
        <4>1. g[u] = SumAt(g, h, u)
          BY <1>g, <2>2
        <4>2. g[u] = 0
          BY <3>1, <4>1 DEF SumAt
        <4> QED BY <3>1, <4>2
      <3> QED BY <2>2, <3>1
    <2>5. c \in u /\ g[u] = Size(h[c]) + g[u \ {c}]
      BY <1>g, <2>2, <2>4, TakenIsThere DEF SumAt
    <2> HIDE DEF T, c, g
    <2>6. Good(u \ {c})
      BY <2>3, <2>5
    <2>7. g[u] \in Nat
      BY <1>s, <2>2, <2>5, <2>6
    <2>8. ASSUME NEW i \in u PROVE g[u] = Size(h[i]) + g[u \ {i}]
      <3>1. CASE i = c
        BY <2>5, <3>1
      <3>2. CASE i # c
        <4> DEFINE w == u \ {c, i}
        <4>1. /\ (u \ {c}) \ {i} = w /\ (u \ {i}) \ {c} = w
              /\ i \in u \ {c} /\ c \in u \ {i}
          BY <2>5, <3>2
        <4>2. Good(u \ {i}) /\ Good(w)
          BY <2>3, <2>5
        <4>3. g[u \ {c}] = Size(h[i]) + g[w] /\ g[u \ {i}] = Size(h[c]) + g[w]
          BY <2>6, <4>1, <4>2
        <4> HIDE DEF w
        <4> QED BY <1>s, <2>2, <2>5, <4>2, <4>3
      <3> QED BY <3>1, <3>2
    <2> QED BY <2>2, <2>7, <2>8
  <1> QED BY <1>1

\* An entry at the end leaves the sums over the others as they were.
LEMMA SumsOfBoth ==
    ASSUME NEW h \in Seq(Entry), NEW e \in Entry, NEW s \in SUBSET DOMAIN h
    PROVE  TheSums(Append(h, e))[s] = TheSums(h)[s]
  <1> DEFINE k == Append(h, e)
             T == {u \in SUBSET DOMAIN h : TheSums(k)[u] # TheSums(h)[u]}
  <1>k. /\ k \in Seq(Entry) /\ DOMAIN h \subseteq DOMAIN k
        /\ \A i \in DOMAIN h : k[i] = h[i]
    OBVIOUS
  <1> HIDE DEF k
  <1>1. ASSUME T # {} PROVE FALSE
    <2>1. PICK u \in T : \A v \in SUBSET u : v # u => v \notin T
      <3>1. T \in SUBSET SUBSET DOMAIN h /\ IsFiniteSet(DOMAIN h)
        BY SumsAre
      <3> HIDE DEF T
      <3> QED BY <1>1, <3>1, SmallestSet
    <2>2. /\ u \in SUBSET DOMAIN h /\ TheSums(k)[u] # TheSums(h)[u]
          /\ \A v \in SUBSET u : v # u => TheSums(k)[v] = TheSums(h)[v]
      BY <2>1
    <2>3. /\ TheSums(k)[u] = SumAt(TheSums(k), k, u)
          /\ TheSums(h)[u] = SumAt(TheSums(h), h, u)
      BY <1>k, <2>2, SumsAre
    <2> HIDE DEF T
    <2>4. CASE u = {}
      BY <2>2, <2>3, <2>4 DEF SumAt
    <2>5. CASE u # {}
      <3>1. Taken(u) \in u
        BY <2>5, TakenIsThere
      <3>2. /\ k[Taken(u)] = h[Taken(u)]
            /\ TheSums(k)[u \ {Taken(u)}] = TheSums(h)[u \ {Taken(u)}]
        BY <1>k, <2>2, <3>1
      <3> QED BY <2>2, <2>3, <2>5, <3>2 DEF SumAt
    <2> QED BY <2>4, <2>5
  <1> QED BY <1>1 DEF k

\* Tokens of a history: those of its entries.
LEMMA TokensOfNone == TokensOf(<<>>) = 0
  <1>1. <<>> \in Seq(Entry) /\ DOMAIN <<>> = {}
    OBVIOUS
  <1>2. /\ TokensOf(<<>>) = TheSums(<<>>)[{}]
        /\ TheSums(<<>>)[{}] = SumAt(TheSums(<<>>), <<>>, {})
    BY <1>1, SumsAre
  <1> QED BY <1>2 DEF SumAt

LEMMA TokensAppended ==
    ASSUME NEW h \in Seq(Entry), NEW e \in Entry
    PROVE  /\ TokensOf(h) \in Nat
           /\ TokensOf(Append(h, e)) = TokensOf(h) + Size(e)
  <1> DEFINE k == Append(h, e)
             last == Len(h) + 1
  <1>1. /\ k \in Seq(Entry) /\ last \in DOMAIN k /\ k[last] = e
        /\ DOMAIN k \ {last} = DOMAIN h
    <2>1. /\ k \in Seq(Entry) /\ Len(h) \in Nat
          /\ DOMAIN h = 1 .. Len(h) /\ DOMAIN k = 1 .. last
      OBVIOUS
    <2>2. k[last] = e
      OBVIOUS
    <2>3. 1 .. last \ {last} = 1 .. Len(h) /\ last \in 1 .. last
      BY <2>1
    <2> HIDE DEF k, last
    <2> QED BY <2>1, <2>2, <2>3
  <1> HIDE DEF k, last
  <1>2. TheSums(k)[DOMAIN k] = Size(e) + TheSums(k)[DOMAIN h]
    <2>1. TheSums(k)[DOMAIN k] = Size(k[last]) + TheSums(k)[DOMAIN k \ {last}]
      <3>1. \A i \in DOMAIN k :
                TheSums(k)[DOMAIN k] = Size(k[i]) + TheSums(k)[DOMAIN k \ {i}]
        <4>1. DOMAIN k \in SUBSET DOMAIN k
          OBVIOUS
        <4> QED BY <1>1, <4>1, SumsInAnyOrder
      <3> QED BY <1>1, <3>1
    <2> QED BY <1>1, <2>1
  <1>3. TheSums(k)[DOMAIN h] = TheSums(h)[DOMAIN h]
    BY SumsOfBoth DEF k
  <1>4. TokensOf(h) = TheSums(h)[DOMAIN h] /\ TokensOf(k) = TheSums(k)[DOMAIN k]
    BY <1>1, SumsAre
  <1>5. TokensOf(h) \in Nat
    BY <1>4, SumsInAnyOrder
  <1> QED BY <1>2, <1>3, <1>4, <1>5, SizeIsNat DEF k

LEMMA TokensOfOne == ASSUME NEW e \in Entry PROVE TokensOf(<<e>>) = Size(e)
  <1>1. <<e>> = Append(<<>>, e) /\ <<>> \in Seq(Entry)
    OBVIOUS
  <1>2. TokensOf(Append(<<>>, e)) = TokensOf(<<>>) + Size(e)
    BY <1>1, TokensAppended
  <1> QED BY <1>1, <1>2, TokensOfNone, SizeIsNat

LEMMA TokensAreNat == ASSUME NEW h \in Seq(Entry) PROVE TokensOf(h) \in Nat
  <1>1. DOMAIN h \in SUBSET DOMAIN h
    OBVIOUS
  <1> QED BY <1>1, SumsAre, SumsInAnyOrder

-----------------------------------------------------------------------------
(* The estimate: the inductive invariant.                                  *)

\* How far a compaction is that may still be given up.
MayBackOff == phase \in {"begun", "query", "backOff"}

\* The estimate that began a compaction was above the limit, and so above what a
\* back-off sets.
EstimateInv ==
    /\ raced \in BOOLEAN /\ backedOff \in BOOLEAN
    /\ EstimateFitsHistory
    /\ MayBackOff => raced \/ estimate >= BackOff

-----------------------------------------------------------------------------
(* The estimate: the inductive step, and the theorem.                      *)

\* 70% of the window are not above 80% of it, though both are rounded down.
LEMMA BackOffBelowLimit == BackOff \in Nat /\ Limit \in Nat /\ BackOff <= Limit
  BY CompactionAssumption DEF BackOff, Limit

\* The entry tracked by a turn: the history and the estimate grow by the same.
LEMMA EstimateTracks ==
    ASSUME CompTypes, EstimateFitsHistory, NEW e \in Entry,
           history' = Append(history, e), estimate' = estimate + Size(e),
           UNCHANGED <<backedOff, raced>>
    PROVE  EstimateFitsHistory'
  <1>1. /\ history \in Seq(Entry) /\ estimate \in Nat /\ Size(e) \in Nat
    BY SizeIsNat DEF CompTypes, CompTypeOK, Entry
  <1>2. TokensOf(history) \in Nat /\ TokensOf(history') = TokensOf(history) + Size(e)
    BY <1>1, TokensAppended
  <1>3. EstimateFitsHistory' <=>
            IF backedOff' THEN raced' \/ estimate' <= TokensOf(history')
                          ELSE estimate' = TokensOf(history')
    BY DEF EstimateFitsHistory
  <1> QED BY <1>1, <1>2, <1>3 DEF EstimateFitsHistory

\* The history begins empty.
LEMMA InitEstimate == CompInit => EstimateInv
  BY TokensOfNone DEF CompInit, EstimateInv, EstimateFitsHistory, MayBackOff

\* Only turns, compactions and ClearHistory touch history and estimate.
LEMMA StepEstimate == ASSUME CBefore, EstimateInv PROVE EstimateInv'
  <1>t. /\ history \in Seq(Entry) /\ estimate \in Nat /\ raced \in BOOLEAN
        /\ backedOff \in BOOLEAN
    BY DEF CBefore, CompTypes, CompTypeOK, Entry, EstimateInv
  <1>f. raced' \in BOOLEAN /\ backedOff' \in BOOLEAN
    <2>1. CASE ClearHistory
      BY <1>t, <2>1 DEF ClearHistory
    <2>2. ASSUME NEW l \in Msgs,
                 \/ CTakesClient(l) \/ CReceiveResult(l) \/ SummaryQuery(l)
                 \/ SummaryMessage(l) \/ AckMessage(l) \/ Inward(l)
          PROVE  raced' \in BOOLEAN /\ backedOff' \in BOOLEAN
      BY <1>t, <2>2 DEF CTakesClient, CReceiveResult, SummaryQuery, SummaryMessage,
         AckMessage, Inward, CompactCopies, SummaryQueryFails, BacksOff, CompactListens,
         SummaryEnds, Resets, ContextQuery, AckEnds, CompactReturns, userVars, historyVars
    <2>3. CASE UNCHANGED <<raced, backedOff>>
      BY <1>t, <2>3
    <2> QED BY <2>1, <2>2, <2>3, StepsApart DEF CBefore, CStart, CCalls, CQueries, CLoop,
               CReceivePart, CReconnectBegins, CReconnectConnects, CReconnectEnds,
               CStreamWrites, CProcess, CProcessDies, compVars, userVars, historyVars
  <1>e. EstimateFitsHistory' <=>
            IF backedOff' THEN raced' \/ estimate' <= TokensOf(history')
                          ELSE estimate' = TokensOf(history')
    BY DEF EstimateFitsHistory
  <1>m. MayBackOff' <=> phase' \in {"begun", "query", "backOff"}
    BY DEF MayBackOff
  <1>b. BackOff \in Nat /\ Limit \in Nat /\ BackOff <= Limit /\ (BackOff' = BackOff)
    BY BackOffBelowLimit DEF BackOff
  <1> SUFFICES /\ EstimateFitsHistory'
               /\ MayBackOff' => raced' \/ estimate' >= BackOff
    BY <1>b, <1>f DEF EstimateInv
  <1>1. ASSUME UNCHANGED <<historyVars, raced>>, MayBackOff' => MayBackOff
        PROVE  EstimateFitsHistory' /\ (MayBackOff' => raced' \/ estimate' >= BackOff)
    BY <1>1, <1>e DEF EstimateInv, EstimateFitsHistory, historyVars
  <1>2. CASE ClearHistory
    <2>1. MayBackOff' => raced'
      BY <1>2, <1>m DEF ClearHistory, phaseVars
    <2> QED BY <1>2, <1>e, <2>1, TokensOfNone DEF ClearHistory
  <1>3. ASSUME NEW l \in Msgs, CTakesClient(l)
        PROVE  EstimateFitsHistory' /\ (MayBackOff' => raced' \/ estimate' >= BackOff)
    <2> DEFINE e == [kind |-> "message", of |-> Range(turn[l])]
    <2>1. e \in Entry /\ Size(e) \in Nat
      <3>1. Range(turn[l]) \subseteq Prompts
        BY HeldWasSent, PromptsDiffer DEF CBefore, IInv
      <3> QED BY <3>1, SizeIsNat DEF Entry, Kinds
    <2>2. /\ history' = Append(history, e) /\ estimate' = estimate + Size(e)
          /\ UNCHANGED <<backedOff, raced>>
          /\ phase' = IF estimate' > Limit THEN "begun" ELSE "none"
      BY <1>3 DEF CTakesClient, userVars
    <2> HIDE DEF e
    <2>3. EstimateFitsHistory'
      BY <2>1, <2>2, EstimateTracks DEF CBefore, EstimateInv
    <2> QED BY <1>t, <1>b, <1>m, <2>1, <2>2, <2>3
  <1>4. ASSUME NEW l \in Msgs, CReceiveResult(l)
        PROVE  EstimateFitsHistory' /\ (MayBackOff' => raced' \/ estimate' >= BackOff)
    <2> DEFINE e == [kind |-> "answer", of |-> text]
    <2>1. e \in Entry
      <3>1. text \subseteq Prompts
        BY <1>4, CompactingStays DEF CBefore, CompTypes, CompTypeOK
      <3> QED BY <3>1 DEF Entry, Kinds
    <2>2. \/ UNCHANGED <<history, estimate>>
          \/ history' = Append(history, e) /\ estimate' = estimate + Size(e)
      BY <1>4 DEF CReceiveResult
    <2>3. UNCHANGED <<backedOff, raced, phase>> /\ phase = "none"
      BY <1>4, CompactingStays DEF CReceiveResult, userVars, phaseVars, CBefore
    <2> HIDE DEF e
    <2>4. EstimateFitsHistory'
      BY <1>1, <2>1, <2>2, <2>3, EstimateTracks DEF CBefore, EstimateInv, historyVars, MayBackOff
    <2> QED BY <1>m, <2>3, <2>4
  <1>5. ASSUME NEW l \in Msgs, BacksOff(l)
        PROVE  EstimateFitsHistory' /\ (MayBackOff' => raced' \/ estimate' >= BackOff)
    <2>1. /\ estimate' = BackOff /\ backedOff' = TRUE /\ phase' = "done"
          /\ UNCHANGED <<history, raced>> /\ MayBackOff
      BY <1>5 DEF BacksOff, In, MayBackOff, userVars
    <2>2. TokensOf(history) \in Nat
      BY <1>t, <2>1, TokensAreNat
    <2>3. raced \/ BackOff <= TokensOf(history)
      BY <1>t, <1>b, <2>1, <2>2 DEF EstimateInv, EstimateFitsHistory
    <2> QED BY <1>e, <1>m, <2>1, <2>3
  <1>6. ASSUME NEW l \in Msgs, Resets(l)
        PROVE  EstimateFitsHistory' /\ (MayBackOff' => raced' \/ estimate' >= BackOff)
    <2>1. Summary(l) \in Entry
      BY PromptsDiffer DEF CBefore, CompTypes, CompTypeOK, Summary, Entry, Kinds
    <2>2. /\ history' = <<Summary(l)>> /\ estimate' = Size(Summary(l))
          /\ backedOff' = FALSE /\ phase' = "context"
      BY <1>6 DEF Resets
    <2> QED BY <1>e, <1>m, <2>1, <2>2, TokensOfOne
  <1>7. ASSUME NEW l \in Msgs,
               \/ CompactCopies(l) \/ SummaryQuery(l) \/ SummaryQueryFails(l)
               \/ CompactListens(l) \/ SummaryEnds(l) \/ ContextQuery(l)
               \/ AckEnds(l) \/ CompactReturns(l) \/ SummaryMessage(l) \/ AckMessage(l)
        PROVE  UNCHANGED <<historyVars, raced>> /\ (MayBackOff' => MayBackOff)
    BY <1>7, <1>m DEF CompactCopies, SummaryQuery, SummaryQueryFails, CompactListens,
       SummaryEnds, ContextQuery, AckEnds, CompactReturns, SummaryMessage, AckMessage,
       In, MayBackOff, userVars, phaseVars
  <1>8. CASE \/ CStart \/ CCalls
             \/ \E l \in Msgs : \/ CQueries(l) \/ CLoop(l) \/ CReceivePart(l)
                                \/ CReconnectBegins(l) \/ CReconnectConnects(l)
                                \/ CReconnectEnds(l)
             \/ \E s \in sending \cup telling : CStreamWrites(s)
             \/ \E k \in DOMAIN clients : CProcess(k) \/ CProcessDies(k)
    <2>1. UNCHANGED <<historyVars, raced, phase>>
      BY <1>8 DEF CStart, CCalls, CQueries, CLoop, CReceivePart, CReconnectBegins,
         CReconnectConnects, CReconnectEnds, CStreamWrites, CProcess, CProcessDies,
         compVars, userVars, phaseVars
    <2> QED BY <1>1, <2>1 DEF MayBackOff
  <1> QED BY <1>1, <1>2, <1>3, <1>4, <1>5, <1>6, <1>7, <1>8, StepsApart DEF CBefore, Inward

\* A step that changes nothing keeps it.
LEMMA EstimateStutters == EstimateInv /\ UNCHANGED allVars => EstimateInv'
  BY DEF allVars, compVars, historyVars, userVars, phaseVars, EstimateInv,
         EstimateFitsHistory, MayBackOff

\* The inductive invariant holds in every run of an adapter that compacts.
THEOREM EstimateInvariance == CompSpec => []EstimateInv
  <1>1. CompInv /\ CompInv' /\ EstimateInv /\ [CompNext]_allVars => EstimateInv'
    BY StepEstimate, EstimateStutters DEF CompInv, CInv, CBefore
  <1> QED BY <1>1, InitEstimate, CompactionInvariance, PTL DEF CompSpec

\* estimatedTokens is what the entries of c.history add up to, and no more than
\* that after a back-off, unless ClearHistory was called during the compaction.
THEOREM EstimateIsThatOfHistory == CompSpec => []EstimateFitsHistory
  <1>1. EstimateInv => EstimateFitsHistory
    BY DEF EstimateInv
  <1> QED BY <1>1, EstimateInvariance, PTL

-----------------------------------------------------------------------------
(* The session: the inductive invariant.                                   *)

\* Nothing more comes from the process of a client.
Drained(k) == clients[k].proc = "dead" /\ clients[k].chan = <<>>

\* A turn that is about to query has read the session id.
TurnKnowsSession == stage = "query" /\ phase = "none" => turnSession = session

\* A process that waits for its swap was launched with the session that its
\* reconnect had read.
SwapKnowsLaunch ==
    \A t \in Msgs : rc[t].at = "swap" =>
        /\ rc[t].new \in 1 .. Len(resumed)
        /\ resumed[rc[t].new] = Launched(rcSession[t])

\* How far a compaction is that hears of no session: it has not reached its
\* client yet and cannot, or it gave up.
CalmPhases == {"none", "begun", "query", "backOff", "done"}
CalmPhase == phase \in CalmPhases /\ (phase = "query" => clients[compacts].proc = "dead")

\* While a reconnect is under way the session stays the one it read: the client
\* of a turn or a compaction is dead and drained.
CalmFor(t) ==
    /\ rc[t].at # "spawned" => rcSession[t] = session
    /\ Drained(client)
    /\ stage \in {"query", "asked", "receive"} => Drained(with)
    /\ CalmPhase
Calm == \A t \in Msgs : Active(t) => CalmFor(t)

\* The client that answers a turn is connected, so that its channel ends when it
\* is drained.
UsedIsConnected ==
    \A l \in Msgs : Uses(l, with) /\ ~HasImages(l) => clients[with].connected

\* In the first life, and while no turn with images has spawned a reconnect.
QuietLife == life <= 1 /\ status = "running" /\ ImagesQuiet

SessionInv ==
    /\ TurnKnowsSession
    /\ SwapKnowsLaunch
    /\ QuietLife => Calm /\ UsedIsConnected

-----------------------------------------------------------------------------
(* What a step does to clients, turns and reconnects.                      *)

\* What is drained stays so, and the connection is not touched.
Steady(k) ==
    /\ Drained(k) => clients'[k].chan = <<>>
    /\ clients'[k].connected = clients[k].connected

LEMMA ClientsStay ==
    ASSUME CBefore, NEW k \in DOMAIN clients
    PROVE  /\ Drained(k) => Drained(k)'
           /\ clients[k].connected =>
                  clients'[k].connected \/ AStop \/ \E t \in Msgs : Active(t)
  <1>t. /\ \A j \in DOMAIN clients : clients[j] \in Client
        /\ client # None => client \in DOMAIN clients
        /\ clients \in Seq(Client)
        /\ clients[k].proc = "dead" => clients'[k].proc = "dead"
    BY ClientIsThere, StepOlder DEF Older, CBefore, ClientsInv
  <1> SUFFICES \/ Steady(k)
               \/ Keeps(k) /\ (AStop \/ \E t \in Msgs : Active(t))
    BY <1>t DEF Steady, Keeps, Drained
  <1>1. ASSUME clients' = clients PROVE Steady(k)
    BY <1>1 DEF Steady, Drained
  <1>2. ASSUME clients' = Append(clients, Fresh) PROVE Steady(k)
    BY <1>t, <1>2, FreshIsClient DEF Steady, Drained
  <1>3. ASSUME NEW j \in DOMAIN clients, NEW q, clients' = [clients EXCEPT ![j].asked = q]
        PROVE  Steady(k)
    BY <1>t, <1>3 DEF Steady, Drained, Client
  <1>4. ASSUME NEW j \in DOMAIN clients, clients[j].chan # <<>>,
               clients' = [clients EXCEPT ![j].chan = Tail(@)]
        PROVE  Steady(k)
    BY <1>t, <1>4 DEF Steady, Drained, Client
  <1>5. ASSUME NEW j \in DOMAIN clients, NEW p, clients' = [clients EXCEPT ![j].proc = p]
        PROVE  Steady(k)
    BY <1>t, <1>5 DEF Steady, Drained, Client
  <1>6. CASE CStart \/ CCalls \/ ClearHistory
    <2>1. CASE AStart
      BY <1>2, <2>1 DEF AStart
    <2>2. CASE AStop
      <3>1. Before
        BY <2>2 DEF CBefore, Before, AdapterMove, AdapterNext
      <3> QED BY <2>2, <3>1, OthersKeep DEF AllKeep
    <2>3. CASE ACancel
      BY <1>t, <1>1, <1>5, <2>3 DEF ACancel
    <2>4. CASE \/ ASend \/ ClearHistory \/ \E j \in Lives : AStopReturns(j)
               \/ \E l \in Msgs : ACallerCancels(l)
      BY <1>1, <2>4 DEF ASend, ClearHistory, AStopReturns, ACallerCancels, adapterVars,
                        clientVars
    <2> QED BY <1>6, <2>1, <2>2, <2>3, <2>4 DEF CStart, CCalls
  <1>7. ASSUME NEW l \in Msgs,
               \/ CTakesClient(l) \/ CQueries(l) \/ CLoop(l)
               \/ CReceivePart(l) \/ CReceiveResult(l)
        PROVE  Steady(k)
    <2>1. stage \in {"query", "receive"} => with \in DOMAIN clients
      BY ClientIsThere DEF CBefore, ClientsInv, AdapterTypeOK
    <2>2. CASE \/ TakesClient(l) \/ QueryTextFails(l) \/ QueryStream(l)
               \/ QueryStreamFails(l) \/ ABeginTurn(l) \/ ASkipTurn(l) \/ ALoop(l)
               \/ Listens(l) \/ ReceiveClosed(l)
      <3>1. clients' = clients
        BY <2>2 DEF TakesClient, QueryTextFails, QueryStream, QueryStreamFails,
           ABeginTurn, ASkipTurn, ALoop, Listens, ReceiveClosed, clientVars
      <3> QED BY <1>1, <3>1
    <2>3. CASE QueryText(l)
      BY <1>3, <2>1, <2>3 DEF QueryText
    <2>4. CASE ReceiveCancelled(l) \/ ReceivePart(l) \/ ReceiveResult(l)
      BY <1>4, <2>1, <2>4 DEF ReceiveCancelled, ReceivePart, ReceiveResult, Receiving,
                              Incoming
    <2> QED BY <1>7, <2>2, <2>3, <2>4 DEF CTakesClient, CQueries, CLoop, CReceivePart,
               CReceiveResult
  <1>8. ASSUME NEW l \in Msgs, SummaryQuery(l) \/ SummaryMessage(l) \/ AckMessage(l) \/ Inward(l)
        PROVE  Steady(k)
    <2>1. CASE Inward(l)
      <3>1. clients' = clients
        BY <2>1, InwardLeaves DEF adapterVars, clientVars
      <3> QED BY <1>1, <3>1
    <2>2. CASE SummaryQuery(l)
      BY <1>3, <2>2, CompactsIsThere DEF SummaryQuery, In, CBefore
    <2>3. CASE SummaryMessage(l) \/ AckMessage(l)
      BY <1>4, <2>3, CompactsIsThere DEF SummaryMessage, AckMessage, CompactTakes, In, CBefore
    <2> QED BY <1>8, <2>1, <2>2, <2>3
  <1>9. ASSUME NEW t \in Msgs,
               CReconnectBegins(t) \/ CReconnectConnects(t) \/ CReconnectEnds(t)
        PROVE  Keeps(k) /\ Active(t)
    <2>1. ReconnectStep(t)
      BY <1>9 DEF CReconnectBegins, CReconnectConnects, CReconnectEnds, ReconnectStep
    <2>2. Before
      BY <2>1 DEF CBefore, Before, AdapterMove, AdapterNext
    <2> QED BY <2>1, <2>2, OthersKeep, ReconnectSteps DEF AllKeep, Active
  <1>10. ASSUME NEW s, StreamWrites(s) \/ ContextWrites(s) PROVE Steady(k)
    <2>1. s.to \in DOMAIN clients
      BY <1>10, ClientIsThere, CompactsIsThere DEF StreamWrites, ContextWrites, CBefore,
                                                  ClientsInv
    <2>2. \/ clients' = clients
          \/ \E q : clients' = [clients EXCEPT ![s.to].asked = q]
      BY <1>10 DEF StreamWrites, ContextWrites
    <2> QED BY <1>1, <1>3, <2>1, <2>2
  <1>11. ASSUME NEW j \in DOMAIN clients, CProcess(j) \/ CProcessDies(j)
         PROVE  Steady(k)
    <2>1. CASE CliAnswers(j)
      <3>1. clients[j].proc # "dead"
        BY <2>1 DEF CliAnswers
      <3>2. \E c, p, q : clients' = [clients EXCEPT ![j].chan = c, ![j].parted = p,
                                                   ![j].asked = q]
        BY <2>1 DEF CliAnswers
      <3> QED BY <1>t, <3>1, <3>2 DEF Steady, Drained, Client
    <2>2. CASE CliInterrupted(j) \/ CliDies(j)
      BY <1>5, <2>2 DEF CliInterrupted, CliDies
    <2> QED BY <1>11, <2>1, <2>2 DEF CProcess, CProcessDies
  <1> QED BY <1>6, <1>7, <1>8, <1>9, <1>10, <1>11, StepsApart DEF CBefore

\* A turn keeps its client, from its look at c.client on.
LEMMA WithStays ==
    ASSUME CBefore, stage' \in {"query", "asked", "receive"}
    PROVE  \/ \E l \in Msgs : CTakesClient(l)
           \/ /\ with' = with
              /\ \/ stage = "query" /\ stage' = "query"
                 \/ stage = "query" /\ \E l \in Msgs : QueryText(l) \/ QueryStream(l)
                 \/ stage \in {"asked", "receive"} /\ stage' # "query"
  <1>1. CASE UNCHANGED <<stage, with>>
    BY <1>1
  <1>2. CASE CStart \/ CCalls \/ ClearHistory
    BY <1>1, <1>2 DEF CStart, AStart, CCalls, ASend, ACancel, AStop, AStopReturns,
       ACallerCancels, ClearHistory, adapterVars, clientVars
  <1>3. ASSUME NEW l \in Msgs, CQueries(l)
        PROVE  with' = with /\ stage = "query" /\ (QueryText(l) \/ QueryStream(l))
    BY <1>3 DEF CQueries, QueryText, QueryTextFails, QueryStream, QueryStreamFails, Ends
  <1>4. ASSUME NEW l \in Msgs, CLoop(l) \/ CReceivePart(l) \/ CReceiveResult(l)
        PROVE  \/ UNCHANGED <<stage, with>>
               \/ with' = with /\ stage = "asked" /\ stage' = "receive"
    <2>1. CASE ASkipTurn(l) \/ ALoop(l) \/ Listens(l) \/ ReceivePart(l)
      BY <2>1 DEF ASkipTurn, ALoop, Listens, ReceivePart, clientVars
    <2>2. ~ABeginTurn(l) /\ ~ReceiveCancelled(l) /\ ~ReceiveClosed(l) /\ ~ReceiveResult(l)
      BY DEF ABeginTurn, ReceiveCancelled, ReceiveClosed, ReceiveResult, Ends
    <2> QED BY <1>4, <2>1, <2>2 DEF CLoop, CReceivePart, CReceiveResult
  <1>5. ASSUME NEW l \in Msgs,
               SummaryQuery(l) \/ SummaryMessage(l) \/ AckMessage(l) \/ Inward(l)
        PROVE  UNCHANGED <<stage, with>>
    BY <1>5, InwardLeaves DEF SummaryQuery, SummaryMessage, AckMessage, CompactTakes,
       adapterVars, clientVars
  <1>6. ASSUME NEW t \in Msgs,
               CReconnectBegins(t) \/ CReconnectConnects(t) \/ CReconnectEnds(t)
        PROVE  UNCHANGED <<stage, with>>
    BY <1>6 DEF CReconnectBegins, CReconnectConnects, CReconnectEnds, ReconnectBegins,
       ReconnectDisconnects, ReconnectConnects, ReconnectFails, ReconnectSwaps
  <1>7. CASE \/ \E s \in sending : StreamWrites(s)
             \/ \E s \in telling : ContextWrites(s)
             \/ \E k \in DOMAIN clients : CProcess(k) \/ CProcessDies(k)
    BY <1>1, <1>7 DEF StreamWrites, ContextWrites, CProcess, CliAnswers, CliInterrupted,
       CProcessDies, CliDies
  <1> QED BY <1>1, <1>2, <1>3, <1>4, <1>5, <1>6, <1>7, StepsApart DEF CBefore

\* A turn is the same as long as some turn goes on.
LEMMA TurnGoesOn ==
    ASSUME CBefore, stage # "idle", NEW l \in Msgs, pc'[l] = "turn"
    PROVE  pc[l] = "turn" /\ turn'[l] = turn[l]
  <1>1. BeginTurn(l) \/ (pc[l] = "turn" /\ turn'[l] = turn[l])
    <2>1. [Next]_vars
      BY StepMoves, StepSchedules DEF CBefore, adapterVars
    <2> QED BY <2>1, TurnLasts DEF CBefore
  <1>2. ~BeginTurn(l)
    <2>1. PICK m \in Msgs : pc[m] = "turn"
      BY DEF CBefore, CompTypes, StageOfTurn
    <2> QED BY <2>1, TurnHasContext DEF CBefore, BeginTurn
  <1> QED BY <1>1, <1>2

\* Who names a session, or none: a result, a reset and an acknowledgement.
LEMMA SessionChanges ==
    ASSUME CBefore, session' # session
    PROVE  (\E l \in Msgs : CReceiveResult(l)) \/ phase \in {"reset", "ack"}
  BY StepsApart
     DEF CBefore, CStart, CCalls, ClearHistory, CTakesClient, CQueries, CLoop, CReceivePart,
         SummaryQuery, SummaryMessage, AckMessage, Inward, CompactCopies, SummaryQueryFails,
         BacksOff, CompactListens, SummaryEnds, Resets, ContextQuery, AckEnds, CompactReturns,
         CReconnectBegins, CReconnectConnects, CReconnectEnds, CStreamWrites, CProcess,
         CProcessDies, In, compVars, sessionVars

\* What a reconnect has read it keeps, and it reads as it leaves its first stage.
LEMMA ReadsOnce ==
    ASSUME CBefore, NEW t \in Msgs
    PROVE  \/ CReconnectBegins(t)
           \/ /\ rcSession'[t] = rcSession[t]
              /\ rc[t].at = "spawned" => rc'[t].at = "spawned"
  <1>t. /\ rcSession \in [Msgs -> Sessions]
        /\ rc \in [Msgs -> RcSet(Len(clients))]
    BY TypesData DEF CBefore, Data, ClientsInv, AdapterTypeOK, RcSet
  <1>1. ASSUME NEW u \in Msgs, CReconnectBegins(u), u # t
        PROVE  rcSession'[t] = rcSession[t] /\ rc'[t] = rc[t]
    BY <1>t, <1>1 DEF CReconnectBegins, ReconnectBegins
  <1>2. ASSUME NEW u \in Msgs, CReconnectConnects(u) \/ CReconnectEnds(u)
        PROVE  /\ rcSession' = rcSession
               /\ rc[t].at = "spawned" => rc'[t].at = "spawned"
    <2>1. rcSession' = rcSession
      BY <1>2 DEF CReconnectConnects, CReconnectEnds, compVars, launchVars
    <2>2. \E r : rc[u].at # "spawned" /\ rc' = [rc EXCEPT ![u] = r]
      BY <1>2, <1>t DEF CReconnectConnects, CReconnectEnds, ReconnectConnects,
                        ReconnectDisconnects, ReconnectFails, ReconnectSwaps
    <2> QED BY <1>t, <2>1, <2>2
  <1>3. ASSUME NEW l \in Msgs, CLoop(l)
        PROVE  /\ rcSession' = rcSession
               /\ rc[t].at = "spawned" => rc'[t].at = "spawned"
    <2>1. rcSession' = rcSession
      BY <1>3 DEF CLoop, compVars, launchVars
    <2>2. rc' = rc \/ rc' = [rc EXCEPT ![Ctx(l)].at = "spawned"]
      BY <1>3 DEF CLoop, ABeginTurn, ASkipTurn, ALoop, Listens, ReceiveCancelled,
                  ReceiveClosed, clientVars
    <2> QED BY <1>t, <2>1, <2>2 DEF RcSet
  <1>4. ASSUME \/ CStart \/ CCalls \/ ClearHistory
               \/ \E l \in Msgs : \/ CTakesClient(l) \/ CQueries(l)
                                  \/ CReceivePart(l) \/ CReceiveResult(l)
                                  \/ SummaryQuery(l) \/ SummaryMessage(l)
                                  \/ AckMessage(l) \/ Inward(l)
               \/ \E s \in sending : StreamWrites(s) /\ CStreamWrites(s)
               \/ \E s \in telling : ContextWrites(s) /\ CStreamWrites(s)
               \/ \E k \in DOMAIN clients : CProcess(k) \/ CProcessDies(k)
        PROVE  UNCHANGED <<rcSession, rc>>
    <2>1. CASE CStart \/ CCalls \/ ClearHistory
      BY <2>1 DEF CStart, AStart, CCalls, ASend, ACancel, AStop, AStopReturns,
         ACallerCancels, ClearHistory, adapterVars, clientVars, compVars, launchVars
    <2>2. ASSUME NEW l \in Msgs,
                 CTakesClient(l) \/ CQueries(l) \/ CReceivePart(l) \/ CReceiveResult(l)
          PROVE  UNCHANGED <<rcSession, rc>>
      BY <2>2 DEF CTakesClient, CQueries, CReceivePart, CReceiveResult, TakesClient,
         QueryText, QueryTextFails, QueryStream, QueryStreamFails, ReceivePart,
         ReceiveResult, compVars, launchVars
    <2>3. ASSUME NEW l \in Msgs,
                 SummaryQuery(l) \/ SummaryMessage(l) \/ AckMessage(l) \/ Inward(l)
          PROVE  UNCHANGED <<rcSession, rc>>
      <3>1. rc' = rc
        BY <2>3, InwardLeaves DEF SummaryQuery, SummaryMessage, AckMessage, CompactTakes,
           adapterVars, clientVars
      <3> QED BY <2>3, <3>1 DEF SummaryQuery, SummaryMessage, AckMessage, Inward,
         CompactCopies, SummaryQueryFails, BacksOff, CompactListens, SummaryEnds, Resets,
         ContextQuery, AckEnds, CompactReturns, launchVars
    <2>4. CASE \/ \E s \in sending : StreamWrites(s) /\ CStreamWrites(s)
               \/ \E s \in telling : ContextWrites(s) /\ CStreamWrites(s)
               \/ \E k \in DOMAIN clients : CProcess(k) \/ CProcessDies(k)
      BY <2>4 DEF CStreamWrites, StreamWrites, ContextWrites, CProcess, CliAnswers,
         CliInterrupted, CProcessDies, CliDies, compVars, launchVars
    <2> QED BY <1>4, <2>1, <2>2, <2>3, <2>4
  <1> QED BY <1>1, <1>2, <1>3, <1>4, StepsApart DEF CBefore

-----------------------------------------------------------------------------
(* The session of a turn, and of a process that waits for its swap.        *)

LEMMA StepTurnKnows == ASSUME CBefore, TurnKnowsSession PROVE TurnKnowsSession'
  <1> SUFFICES ASSUME stage' = "query", phase' = "none"
               PROVE  turnSession' = session'
    BY DEF TurnKnowsSession
  <1>1. CASE \E l \in Msgs : CTakesClient(l) \/ CompactReturns(l)
    BY <1>1 DEF CTakesClient, CompactReturns
  <1>2. CASE \A l \in Msgs : ~CTakesClient(l) /\ ~CompactReturns(l)
    <2>1. stage = "query" /\ stage' = "query"
      BY <1>2, WithStays DEF QueryText, QueryStream
    <2>2. \A l \in Msgs : ~CReceiveResult(l)
      BY <2>1 DEF CReceiveResult, ReceiveResult, Receiving
    <2>3. phase = "none" /\ turnSession' = turnSession
      BY <1>2, <2>2, StepsApart
         DEF CBefore, CStart, CCalls, ClearHistory, CQueries, CLoop, CReceivePart,
             SummaryQuery, SummaryMessage, AckMessage, Inward, CompactCopies,
             SummaryQueryFails, BacksOff, CompactListens, SummaryEnds, Resets,
             ContextQuery, AckEnds, CReconnectBegins, CReconnectConnects, CReconnectEnds,
             CStreamWrites, CProcess, CProcessDies, In, compVars, sessionVars, phaseVars
    <2>4. session' = session
      BY <2>2, <2>3, SessionChanges
    <2> QED BY <2>1, <2>3, <2>4 DEF TurnKnowsSession
  <1> QED BY <1>1, <1>2

\* Only these steps launch a process.
LEMMA LaunchChanges ==
    ASSUME CBefore
    PROVE  \/ resumed' = resumed
           \/ CStart
           \/ \E t \in Msgs : CReconnectConnects(t)
  BY StepsApart
     DEF CBefore, CCalls, ClearHistory, CTakesClient, CQueries, CLoop, CReceivePart,
         CReceiveResult, SummaryQuery, SummaryMessage, AckMessage, Inward, CompactCopies,
         SummaryQueryFails, BacksOff, CompactListens, SummaryEnds, Resets, ContextQuery,
         AckEnds, CompactReturns, CReconnectBegins, CReconnectEnds, CStreamWrites, CProcess,
         CProcessDies, compVars, launchVars

LEMMA StepSwapKnows == ASSUME CBefore, SwapKnowsLaunch PROVE SwapKnowsLaunch'
  <1> SUFFICES ASSUME NEW t \in Msgs, rc'[t].at = "swap"
               PROVE  /\ rc'[t].new \in 1 .. Len(resumed')
                      /\ resumed'[rc'[t].new] = Launched(rcSession'[t])
    BY DEF SwapKnowsLaunch, Launched
  <1> DEFINE S == {Launched(s) : s \in Sessions}
  <1>t. /\ Len(resumed) = Len(clients) /\ Len(resumed) \in Nat
        /\ rcSession \in [Msgs -> Sessions]
        /\ rc \in [Msgs -> RcSet(Len(clients))]
    <2>1. Len(resumed) = Len(clients) /\ Len(clients) \in Nat
      BY ClientIsThere DEF CBefore, CompTypes, CompTypeOK, ClientsInv
    <2>2. rcSession \in [Msgs -> Sessions] /\ rc \in [Msgs -> RcSet(Len(clients))]
      BY TypesData DEF CBefore, Data, ClientsInv, AdapterTypeOK, RcSet
    <2> QED BY <2>1, <2>2
  <1>s. ASSUME NEW s \in S, resumed' = Append(resumed, s)
        PROVE  /\ Len(resumed') = Len(resumed) + 1 /\ resumed'[Len(resumed) + 1] = s
               /\ \A k \in 1 .. Len(resumed) : resumed'[k] = resumed[k]
    <2>1. resumed \in Seq(S)
      BY DEF CBefore, CompTypes
    <2> HIDE DEF S
    <2> QED BY <1>s, <2>1
  <1>1. CASE CReconnectConnects(t)
    <2>1. /\ rc'[t].new = Len(clients) + 1 /\ rcSession' = rcSession
          /\ resumed' = Append(resumed, Launched(rcSession[t]))
          /\ Launched(rcSession[t]) \in S
      BY <1>1, <1>t DEF CReconnectConnects, ReconnectConnects, RcSet
    <2> QED BY <1>s, <1>t, <2>1
  <1>2. CASE ~CReconnectConnects(t)
    <2>1. ~CReconnectBegins(t)
      BY <1>t DEF CReconnectBegins, ReconnectBegins, RcSet
    <2>2. rcSession'[t] = rcSession[t]
      BY <2>1, ReadsOnce
    <2>3. rc'[t] = rc[t]
      <3>1. CASE UNCHANGED adapterVars
        BY <3>1 DEF adapterVars, clientVars
      <3>2. CASE Before
        <4>1. ASSUME NEW u \in Msgs, ReconnectStep(u)
              PROVE  rc'[t] = rc[t]
          <5>1. CASE u # t
            BY <1>t, <4>1, <5>1, <3>2, ReconnectSteps
          <5>2. CASE u = t
            <6>1. ReconnectConnects(t)
              BY <1>t, <4>1, <5>2 DEF ReconnectStep, ReconnectBegins,
                 ReconnectDisconnects, ReconnectFails, ReconnectSwaps, RcSet
            <6>2. clients' = Append(clients, Fresh) /\ rc[t].at = "connect"
              BY <6>1 DEF ReconnectConnects
            <6>3. DOMAIN clients' # DOMAIN clients
              <7>1. Len(clients) + 1 \in DOMAIN clients' /\ Len(clients) + 1 \notin DOMAIN clients
                BY <1>t, <6>2, ClientIsThere DEF CBefore, ClientsInv
              <7> QED BY <7>1
            <6>4. PICK w \in Msgs : CReconnectConnects(w)
              <7>1. ~CStart
                BY <6>2 DEF CStart, AStart
              <7> QED BY <6>3, <7>1, StepCounts
            <6>5. w # t => rc'[t] = rc[t]
              BY <1>t, <6>4 DEF CReconnectConnects, ReconnectConnects
            <6> QED BY <1>2, <6>2, <6>4, <6>5
          <5> QED BY <5>1, <5>2
        <4>2. ASSUME NEW l \in Msgs, TurnStep(l)
              PROVE  rc'[t] = rc[t]
          <5>1. rc' = rc \/ rc' = [rc EXCEPT ![Ctx(l)].at = "spawned"]
            BY <4>2, TurnSteps DEF GoesOn, EndsTurn
          <5> QED BY <1>t, <5>1 DEF RcSet
        <4> QED BY <3>2, <4>1, <4>2, StepKinds
                DEF Before, AStart, AStop, Aside, ABeginTurn, StreamWrites
      <3> QED BY <3>1, <3>2, StepMoves DEF CBefore, Before
    <2>4. /\ rc[t].new \in 1 .. Len(resumed)
          /\ resumed[rc[t].new] = Launched(rcSession[t])
      BY <2>3 DEF SwapKnowsLaunch
    <2>5. CASE resumed' = resumed
      BY <2>2, <2>3, <2>4, <2>5
    <2>6. CASE \E s \in S : resumed' = Append(resumed, s)
      BY <1>s, <1>t, <2>2, <2>3, <2>4, <2>6
    <2>7. resumed' = resumed \/ \E s \in S : resumed' = Append(resumed, s)
      BY <1>t, LaunchChanges DEF CStart, CReconnectConnects, Sessions
    <2> QED BY <2>5, <2>6, <2>7
  <1> QED BY <1>1, <1>2

-----------------------------------------------------------------------------
(* While a reconnect is under way.                                         *)

LEMMA PhaseStaysCalm ==
    ASSUME CBefore, CalmPhase, Drained(client)
    PROVE  CalmPhase'
  <1>o. /\ \A k \in DOMAIN clients :
               clients[k].proc = "dead" => clients'[k].proc = "dead"
        /\ phase \notin {"none", "begun"} => compacts \in DOMAIN clients
    BY StepOlder DEF Older, CBefore, CompTypes, CompTypeOK
  <1>1. CASE UNCHANGED <<phase, compacts>>
    BY <1>o, <1>1 DEF CalmPhase
  <1>2. ASSUME NEW l \in Msgs, CTakesClient(l) PROVE CalmPhase'
    BY <1>2 DEF CTakesClient, CalmPhase, CalmPhases
  <1>3. ASSUME NEW l \in Msgs, CompactCopies(l) PROVE CalmPhase'
    <2>1. phase' = "query" /\ compacts' = client /\ clients' = clients
      BY <1>3 DEF CompactCopies, adapterVars, clientVars
    <2> QED BY <2>1 DEF CalmPhase, CalmPhases, Drained
  <1>4. ASSUME NEW l \in Msgs, SummaryQueryFails(l) \/ BacksOff(l) \/ CompactReturns(l)
        PROVE  CalmPhase'
    BY <1>4 DEF SummaryQueryFails, BacksOff, CompactReturns, CalmPhase, CalmPhases
  <1>5. ASSUME NEW l \in Msgs
        PROVE  /\ ~SummaryQuery(l) /\ ~SummaryMessage(l) /\ ~AckMessage(l)
               /\ ~CompactListens(l) /\ ~SummaryEnds(l) /\ ~Resets(l)
               /\ ~ContextQuery(l) /\ ~AckEnds(l)
    BY DEF CalmPhase, CalmPhases, SummaryQuery, Broken, SummaryMessage, AckMessage,
           CompactListens, SummaryEnds, Resets, ContextQuery, AckEnds, In
  <1> QED BY <1>1, <1>2, <1>3, <1>4, <1>5, StepsApart
          DEF CBefore, Inward, CStart, CCalls, ClearHistory, CQueries, CLoop, CReceivePart,
              CReceiveResult, CReconnectBegins, CReconnectConnects, CReconnectEnds,
              CStreamWrites, CProcess, CProcessDies, compVars, phaseVars

\* The first life is running because it was, or begins with no reconnect.
LEMMA QuietStays ==
    ASSUME CBefore, QuietLife'
    PROVE  \/ QuietLife /\ UNCHANGED <<life, status>>
           \/ AStart /\ \A t \in Msgs : ~Active(t)'
  <1>1. CASE UNCHANGED adapterVars
    BY <1>1 DEF QuietLife, ImagesQuiet, adapterVars, vars, clientVars
  <1>2. CASE Before
    <2>1. life <= 1 /\ ImagesQuiet
      BY <1>2, QuietBefore DEF QuietLife, ImagesQuiet
    <2>2. CASE AStart
      <3>1. life = 0 /\ rc' = rc
        BY <2>1, <2>2, RunLoopAssumption DEF QuietLife, AStart, Start, Before, IInv, TypeOK,
                                             CBefore
      <3> QED BY <2>2, <3>1 DEF CBefore, ClientsInv, ClientsBeginWithStart, Active
    <2>3. CASE ~AStart
      <3>1. UNCHANGED <<life, status>>
        <4>1. CASE AStop
          BY <4>1 DEF AStop, Stop, QuietLife
        <4>2. CASE Aside /\ status' = status /\ TurnsLast
          <5>1. [Next]_vars /\ ~Start
            <6>1. ~Start
              BY <4>2 DEF Start
            <6> QED BY <1>2, <6>1, BeforeFacts
          <5> QED BY <4>2, <5>1, NothingFromNothing DEF CBefore
        <4>3. ASSUME NEW l \in Msgs, ABeginTurn(l) \/ TurnStep(l)
              PROVE  UNCHANGED <<life, status>>
          BY <4>3, TurnSteps DEF GoesOn, EndsTurn, ABeginTurn, BeginTurn
        <4>4. CASE (\E t \in Msgs : ReconnectStep(t)) \/ (\E s \in sending : StreamWrites(s))
          BY <1>2, <4>4, ReconnectSteps DEF StreamWrites, vars
        <4> QED BY <1>2, <2>3, <4>1, <4>2, <4>3, <4>4, StepKinds DEF Before
      <3> QED BY <2>1, <3>1 DEF QuietLife
    <2> QED BY <2>2, <2>3
  <1> QED BY <1>1, <1>2, StepMoves DEF CBefore, Before

\* A reconnect was under way, or a turn that found its channel closed spawns it.
LEMMA ActiveBefore ==
    ASSUME Before, NEW t \in Msgs, Active(t)'
    PROVE  \/ Active(t) /\ (client' = client \/ AStart \/
                  \E u \in Msgs : u # t /\ Active(u))
           \/ \E l \in Msgs : /\ SeesClosed(l) /\ t = Ctx(l) /\ stage' = "idle"
                              /\ rc'[t].at = "spawned" /\ UNCHANGED <<client, with>>
  <1>t. rc \in [Msgs -> RcSet(Len(clients))]
    BY BeforeFacts
  <1>1. ASSUME NEW u \in Msgs, ReconnectStep(u)
        PROVE  /\ Active(t) /\ (client' = client \/ (u # t /\ Active(u)))
    <2>1. PICK r : /\ rc' = [rc EXCEPT ![u] = r] /\ Active(u)
                   /\ client' = client \/ r.at = "gone"
      BY <1>1, ReconnectSteps DEF Active
    <2> QED BY <1>t, <2>1 DEF Active
  <1>2. ASSUME NEW l \in Msgs, TurnStep(l)
        PROVE  \/ Active(t) /\ client' = client
               \/ /\ SeesClosed(l) /\ t = Ctx(l) /\ stage' = "idle"
                  /\ rc'[t].at = "spawned" /\ UNCHANGED <<client, with>>
    <2>1. CASE rc' = rc
      BY <1>2, <2>1, TurnSteps DEF GoesOn, EndsTurn, Active
    <2>2. CASE SeesClosed(l) /\ rc' = [rc EXCEPT ![Ctx(l)].at = "spawned"] /\ EndsTurn(l)
      <3>1. Ctx(l) \in Msgs
        BY <1>2, TurnSteps, TurnHasContext DEF Before
      <3> QED BY <1>t, <2>2, <3>1 DEF EndsTurn, Active, RcSet
    <2> QED BY <1>2, <2>1, <2>2, TurnSteps DEF GoesOn, EndsTurn
  <1>3. CASE \/ AStart \/ AStop \/ Aside \/ (\E l \in Msgs : ABeginTurn(l))
             \/ (\E s \in sending : StreamWrites(s))
    BY <1>3 DEF AStart, AStop, Aside, ABeginTurn, StreamWrites, Active
  <1> QED BY <1>1, <1>2, <1>3, StepKinds DEF Before

LEMMA StepCalm ==
    ASSUME CBefore, ReconnectInv, QuietLife, status' = "running", life' = life,
           Calm, UsedIsConnected, ImagesQuiet', NEW t \in Msgs, Active(t)'
    PROVE  CalmFor(t)'
  <1>t. /\ client \in DOMAIN clients
        /\ stage \in {"query", "asked", "receive"} => with \in DOMAIN clients
        /\ None \notin DOMAIN clients
    <2>1. AdapterTypeOK
      BY DEF CBefore, ClientsInv
    <2>2. client # None /\ (stage \in {"query", "asked", "receive"} => with # None)
      BY <2>1 DEF QuietLife, AdapterTypeOK
    <2>3. DOMAIN clients = 1 .. Len(clients)
      BY <2>1, ClientIsThere
    <2> QED BY <2>1, <2>2, <2>3, ClientIsThere DEF None
  <1>i. OneActive /\ ActiveForDead /\ UsedIsCurrent
    BY DEF ReconnectInv, OneReconnect, QuietLife
  <1>0. ~AStart
    BY DEF QuietLife, AStart, Start
  <1>1. ASSUME Active(t), client' = client PROVE CalmFor(t)'
    <2>c. CalmFor(t)
      BY <1>1 DEF Calm
    <2>1. session' = session
      <3>1. \A l \in Msgs : ~CReceiveResult(l)
        BY <2>c DEF CalmFor, CReceiveResult, ReceiveResult, Receiving, Incoming, Drained
      <3> QED BY <2>c, <3>1, SessionChanges DEF CalmFor, CalmPhase, CalmPhases
    <2>2. rc'[t].at # "spawned" => rcSession'[t] = session'
      <3>1. rcSession \in [Msgs -> Sessions]
        BY TypesData DEF CBefore, Data
      <3> QED BY <2>c, <2>1, <3>1, ReadsOnce DEF CReconnectBegins, CalmFor
    <2>3. Drained(client)'
      <3>1. Drained(client)
        BY <2>c DEF CalmFor
      <3> QED BY <1>t, <1>1, <3>1, ClientsStay DEF Drained
    <2>4. ASSUME stage' \in {"query", "asked", "receive"} PROVE Drained(with)'
      <3>1. CASE \E l \in Msgs : CTakesClient(l)
        BY <2>3, <1>1, <3>1 DEF CTakesClient, TakesClient, Drained
      <3>2. CASE with' = with /\ stage \in {"query", "asked", "receive"}
        <4>1. Drained(with) /\ with \in DOMAIN clients
          BY <1>t, <2>c, <3>2 DEF CalmFor
        <4> QED BY <3>2, <4>1, ClientsStay DEF Drained
      <3> QED BY <2>4, <3>1, <3>2, WithStays
    <2>5. CalmPhase'
      BY <2>c, PhaseStaysCalm DEF CalmFor
    <2> QED BY <2>2, <2>3, <2>4, <2>5 DEF CalmFor
  <1>2. ASSUME NEW l \in Msgs, Before, SeesClosed(l), t = Ctx(l), stage' = "idle",
               rc'[t].at = "spawned", UNCHANGED <<client, with>>
        PROVE  CalmFor(t)'
    <2>1. Uses(l, with) /\ clients[with].proc = "dead"
      BY <1>2, ClosedIsDead DEF Before
    <2>2. ~HasImages(l)
      BY <1>2 DEF HasImages, ImagesQuiet
    <2>3. clients[with].connected /\ client = with
      BY <1>i, <2>1, <2>2 DEF UsedIsConnected, UsedIsCurrent
    <2>4. Drained(with)
      BY <1>2, <2>1, <2>3 DEF SeesClosed, Receiving, Incoming, Drained
    <2>5. Drained(client)'
      <3>1. with \in DOMAIN clients
        BY <1>t, <2>3
      <3> QED BY <1>2, <2>3, <2>4, <3>1, ClientsStay DEF Drained
    <2>6. CalmPhase'
      <3>1. Control'
        BY StepControl
      <3> QED BY <1>2, <3>1 DEF Control, CalmPhase, CalmPhases
    <2> QED BY <1>2, <2>5, <2>6 DEF CalmFor
  <1>3. CASE UNCHANGED adapterVars
    BY <1>1, <1>3 DEF adapterVars, clientVars, Active
  <1>4. CASE Before
    <2>1. \A u \in Msgs : Active(u) /\ Active(t) => u = t
      BY <1>i DEF OneActive
    <2> QED BY <1>0, <1>1, <1>2, <1>4, <2>1, ActiveBefore
  <1> QED BY <1>3, <1>4, StepMoves DEF CBefore, Before

LEMMA StepUsed ==
    ASSUME CBefore, ReconnectInv, QuietLife, status' = "running", UsedIsConnected
    PROVE  UsedIsConnected'
  <1> SUFFICES ASSUME NEW l \in Msgs, Uses(l, with)', ~HasImages(l)'
               PROVE  clients'[with'].connected
    BY DEF UsedIsConnected
  <1>t. stage \in {"query", "asked", "receive"} => with \in DOMAIN clients
    BY ClientIsThere DEF CBefore, ClientsInv, AdapterTypeOK
  <1>1. with' = with /\ stage \in {"query", "asked", "receive"}
    BY WithStays DEF CTakesClient, TakesClient, Uses
  <1>2. pc[l] = "turn" /\ ~HasImages(l)
    BY <1>1, TurnGoesOn DEF Uses, HasImages, Ctx
  <1>3. CASE stage \in {"asked", "receive"}
    <2>1. clients[with].connected /\ \A t \in Msgs : ~Active(t)
      BY <1>2, <1>3 DEF Uses, UsedIsConnected, UsedIsCurrent, ReconnectInv, OneReconnect,
                        QuietLife
    <2>2. ~AStop
      BY DEF AStop, Stop
    <2> QED BY <1>1, <1>t, <2>1, <2>2, ClientsStay
  <1>4. ASSUME NEW m \in Msgs, QueryText(m) \/ QueryStream(m)
        PROVE  clients'[with'].connected
    <2>1. m = l
      BY <1>2, <1>4, TurnHasContext DEF CBefore, QueryText, QueryStream
    <2>2. QueryText(l)
      BY <1>2, <1>4, <2>1 DEF QueryStream
    <2>3. with \in DOMAIN clients /\ clients[with] \in Client
      BY <1>1, <1>t, ClientIsThere DEF CBefore, ClientsInv
    <2> QED BY <1>1, <2>2, <2>3 DEF QueryText, Broken, Client
  <1> QED BY <1>1, <1>3, <1>4, WithStays DEF Uses, CTakesClient, TakesClient

LEMMA StepSession ==
    ASSUME CBefore, ReconnectInv, SessionInv
    PROVE  SessionInv'
  <1>1. TurnKnowsSession' /\ SwapKnowsLaunch'
    BY StepTurnKnows, StepSwapKnows DEF SessionInv
  <1>2. ASSUME QuietLife' PROVE Calm' /\ UsedIsConnected'
    <2>1. CASE QuietLife /\ UNCHANGED <<life, status>>
      <3>1. Calm /\ UsedIsConnected /\ status' = "running" /\ ImagesQuiet'
        BY <1>2, <2>1 DEF SessionInv, QuietLife, ImagesQuiet
      <3>2. \A t \in Msgs : Active(t)' => CalmFor(t)'
        BY <2>1, <3>1, StepCalm
      <3>3. Calm'
        BY <3>2 DEF Calm
      <3> QED BY <2>1, <3>1, <3>3, StepUsed
    <2>2. CASE AStart /\ \A t \in Msgs : ~Active(t)'
      <3>1. Calm'
        BY <2>2 DEF Calm, Active
      <3>2. UsedIsConnected'
        <4>1. UNCHANGED <<pc, stage, with>> /\ \A l \in Msgs : pc[l] = "none"
          <5>1. life = 0
            BY <1>2, <2>2, RunLoopAssumption DEF QuietLife, AStart, Start, CBefore, IInv,
                                                 TypeOK
          <5> QED BY <2>2, <5>1 DEF AStart, Start, loopVars, CBefore, ClientsInv,
                                    ClientsBeginWithStart
        <4> QED BY <4>1 DEF UsedIsConnected, Uses
      <3> QED BY <3>1, <3>2
    <2> QED BY <1>2, <2>1, <2>2, QuietStays
  <1> QED BY <1>1, <1>2 DEF SessionInv

LEMMA SessionStutters == SessionInv /\ UNCHANGED allVars => SessionInv'
  BY SMTT(20) DEF allVars, adapterVars, vars, clientVars, compVars, historyVars, userVars,
     phaseVars, sessionVars, launchVars, streamVars, SessionInv, TurnKnowsSession,
     SwapKnowsLaunch, QuietLife, ImagesQuiet, Calm, CalmFor, CalmPhase, UsedIsConnected,
     Drained, Active, Uses, HasImages, Ctx

LEMMA InitSession == CompInit => SessionInv
  BY DEF CompInit, AdapterInit, Init, SessionInv, TurnKnowsSession, SwapKnowsLaunch, QuietLife

LEMMA StepSessionInv ==
    CompInv /\ CompInv' /\ SessionInv /\ [CompNext]_allVars => SessionInv'
  BY StepSession, SessionStutters DEF CompInv, CInv, CBefore

\* The inductive invariant holds in every run of an adapter that compacts.
THEOREM SessionInvariance == CompSpec => []SessionInv
  BY InitSession, StepSessionInv, CompactionInvariance, PTL DEF CompSpec

-----------------------------------------------------------------------------
(* The session a process is launched with.                                 *)

CLIProofs == INSTANCE CommandLineProofs

\* LaunchResumes, for the instance that Compaction has of CommandLine.
LEMMA CommandLineResumes ==
    ASSUME NEW cfg
    PROVE  CLI!ResumedSession(CLI!Launch(cfg)) = cfg.SessionID
  <1>1. \A n, v : CLI!Flag(n, v) = CLIProofs!Flag(n, v)
    BY DEF CLI!Flag, CLIProofs!Flag, CLI!Unset, CLIProofs!Unset
  <1>2. CLI!ClientOptions(cfg) = CLIProofs!ClientOptions(cfg)
    BY DEF CLI!ClientOptions, CLIProofs!ClientOptions, CLI!PermissionMode,
           CLIProofs!PermissionMode, CLI!Plan, CLIProofs!Plan, CLI!AcceptAll,
           CLIProofs!AcceptAll, CLI!Unset, CLIProofs!Unset, CLI!DefaultThinkingTokens,
           CLIProofs!DefaultThinkingTokens
  <1>3. \A o : CLI!PrepareMcpConfig(o) = CLIProofs!PrepareMcpConfig(o)
    BY <1>1 DEF CLI!PrepareMcpConfig, CLIProofs!PrepareMcpConfig, CLI!Unset,
                CLIProofs!Unset
  <1>4. \A o : CLI!BuildCommand(o, FALSE) = CLIProofs!BuildCommand(o, FALSE)
    <2>1. \A o : CLI!OptionFlags(o) = CLIProofs!OptionFlags(o)
      BY <1>1 DEF CLI!OptionFlags, CLIProofs!OptionFlags
    <2>2. CLI!ProtocolFlags(FALSE) = CLIProofs!ProtocolFlags(FALSE)
      BY DEF CLI!ProtocolFlags, CLIProofs!ProtocolFlags
    <2> QED BY <2>1, <2>2 DEF CLI!BuildCommand, CLIProofs!BuildCommand,
               CLI!AllowedExtraArgs, CLIProofs!AllowedExtraArgs
  <1>5. CLI!Launch(cfg) = CLIProofs!Launch(cfg)
    BY <1>2, <1>3, <1>4 DEF CLI!Launch, CLIProofs!Launch
  <1>6. \A p : CLI!ResumedSession(p) = CLIProofs!ResumedSession(p)
    BY DEF CLI!ResumedSession, CLIProofs!ResumedSession, CLI!Unset, CLIProofs!Unset
  <1> QED BY <1>5, <1>6, CLIProofs!LaunchResumes

LEMMA LaunchedSession ==
    ASSUME NEW s
    PROVE  Launched(s) = IF s # None THEN s ELSE Config.SessionID
  <1>1. CASE s = None
    BY <1>1, CommandLineResumes DEF Launched
  <1>2. CASE s # None
    <2> DEFINE cfg == [Config EXCEPT !["SessionID"] = s, !["ContinueSession"] = 1]
    <2>1. cfg.SessionID = s
      BY CompactionAssumption DEF CLI!Fields
    <2> HIDE DEF cfg
    <2>2. CLI!ResumedSession(CLI!Launch(cfg)) = s
      BY <2>1, CommandLineResumes
    <2> QED BY <1>2, <2>2 DEF Launched, cfg
  <1> QED BY <1>1, <1>2

-----------------------------------------------------------------------------
(* The theorem.                                                            *)

LEMMA SwapsLatest ==
    ASSUME CBefore, ReconnectInv, SessionInv, client' # client, life' = life, life = 1,
           ImagesQuiet
    PROVE  resumed[client'] = IF session # None THEN session ELSE Config.SessionID
  <1>0. ~AStart
    BY DEF AStart, Start, CBefore, IInv, TypeOK
  <1>1. PICK t \in Msgs : ReconnectSwaps(t) /\ status = "running" /\ client' = rc[t].new
    <2>1. ASSUME NEW t \in Msgs, ReconnectStep(t)
          PROVE  ReconnectSwaps(t) /\ status = "running" /\ client' = rc[t].new
      BY <2>1 DEF ReconnectStep, ReconnectBegins, ReconnectDisconnects, ReconnectConnects,
                  ReconnectFails, ReconnectSwaps
    <2>2. ~UNCHANGED adapterVars
      BY DEF adapterVars, clientVars
    <2>3. Before
      BY <2>2, StepMoves DEF CBefore, Before
    <2> QED BY <1>0, <2>1, <2>3, StepKinds, TurnSteps
            DEF Before, AStop, Aside, ABeginTurn, GoesOn, EndsTurn, StreamWrites
  <1>2. QuietLife /\ rc[t].at = "swap"
    BY <1>1 DEF QuietLife, ReconnectSwaps
  <1>3. resumed[client'] = Launched(rcSession[t]) /\ rcSession[t] = session
    BY <1>1, <1>2 DEF SessionInv, SwapKnowsLaunch, Calm, CalmFor, Active
  <1> QED BY <1>3, LaunchedSession

LEMMA QueriesLatest ==
    ASSUME CBefore, SessionInv, stage = "query", stage' # "query"
    PROVE  turnSession = session
  BY StepStays DEF SessionInv, TurnKnowsSession

\* runClaude sends its prompt to the session that c.sessionID names, though a
\* compaction has changed it, and the process that reconnectClient swaps in was
\* launched for that session, though turns went on while it connected: in the
\* first life, and when no turn with images has asked for a reconnect.
THEOREM SessionNeverStale == CompSpec => SessionIsLatest
  <1>1. CompInv /\ CompInv' /\ SessionInv /\ [CompNext]_allVars =>
            [/\ stage = "query" /\ stage' # "query" => turnSession = session
             /\ QuietSwap => resumed[client'] = IF session # None THEN session
                                                ELSE Config.SessionID]_allVars
    BY QueriesLatest, SwapsLatest DEF CompInv, CInv, CBefore, ImagesQuiet, QuietSwap
  <1> QED BY <1>1, CompactionInvariance, SessionInvariance, PTL DEF CompSpec, SessionIsLatest

=============================================================================
