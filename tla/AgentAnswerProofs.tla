--------------------------- MODULE AgentAnswerProofs ---------------------------
(***************************************************************************)
(* The evidence of the agent, for every corpus, overlay and question: the  *)
(* version rules of its readers, the order of its facts, what search       *)
(* returns, what judgments and answers make of it, and the tools of a      *)
(* language model.                                                         *)
(***************************************************************************)
EXTENDS AgentAnswer, AnalysisRetrieval, DisclosureTools, FiniteSetTheorems, FunctionTheorems, SequenceTheorems, TLAPS

-----------------------------------------------------------------------------
(* The version rules                                                        *)

\* A version in force on a date began by then.
LEMMA InForceStarted ==
    ASSUME NEW v, NEW asOf, Safe(v), InForceIf(v, asOf)
    PROVE  StartedBy(v, asOf)
  BY DEF InForceIf, InForce, StartedBy

\* A reader that takes what is in force takes nothing hydration refuses.
LEMMA EffectiveHydrates ==
    ASSUME NEW v, NEW c, NEW policy \in Policies, NEW asOf, policy # "original",
           CurrentOnly(v, c, policy, asOf)
    PROVE  HydrateAdmits(v, c, policy, asOf)
<1>1. Safe(v) /\ InForceIf(v, asOf)
  BY DEF CurrentOnly, Effective, InForceIf
<1>2. CASE policy = "both"
  BY <1>1, <1>2, InForceStarted DEF HydrateAdmits
<1>3. CASE policy # "both"
  BY <1>3 DEF HydrateAdmits
<1>4. QED
  BY <1>2, <1>3

\* The pilot filters metadata in Python instead of SQL; it is as strict.
LEMMA MetadataHydrates ==
    ASSUME NEW v, NEW c, NEW policy \in Policies, NEW asOf,
           MetadataAdmits(v, c, policy, asOf)
    PROVE  HydrateAdmits(v, c, policy, asOf)
<1>1. CASE policy = "original"
  BY <1>1 DEF MetadataAdmits, HydrateAdmits, OriginalOnly, InForceIf
<1>2. CASE policy = "both"
  BY <1>2 DEF MetadataAdmits, HydrateAdmits, StartedBy
<1>3. CASE policy \in {"current", "corrected"}
  BY <1>3 DEF MetadataAdmits, HydrateAdmits, CurrentOnly, Effective
<1>4. QED
  BY <1>1, <1>2, <1>3 DEF Policies

\* Of any set of versions, corrections and dates, none of the six readers (the
\* sparse index, the dense filings, the dense pilot, query_database, and the two
\* fact tables of the overlay) delivers evidence that _hydrate_ids would refuse.
THEOREM ReadersNeverExceedHydration ==
    ASSUME NEW versions, NEW corrections, NEW dates
    PROVE  ReadersAgree(versions, corrections, dates)
<1> SUFFICES ASSUME NEW v \in versions, NEW policy \in Policies,
                    NEW asOf \in dates \cup {NoDate}
             PROVE  LET c == v.filing \in corrections
                        admits == HydrateAdmits(v, c, policy, asOf)
                    IN  /\ IndexAdmits(v, c, policy, asOf) => admits
                        /\ DenseAdmits(v, c, policy, asOf) => admits
                        /\ MetadataAdmits(v, c, policy, asOf) => admits
                        /\ ServingAdmits(v, c, policy, asOf) => admits
                        /\ OverlayAdmits(v, c, policy, asOf) => admits
                        /\ EventAdmits(v, c, policy, asOf) => admits
  BY DEF ReadersAgree
<1> DEFINE c == v.filing \in corrections
<1> HIDE DEF c
<1>1. policy = "original" /\ OriginalOnly(v, asOf) => HydrateAdmits(v, c, policy, asOf)
  BY DEF HydrateAdmits
<1>2. policy # "original" /\ CurrentOnly(v, c, policy, asOf) => HydrateAdmits(v, c, policy, asOf)
  BY EffectiveHydrates
<1>3. policy = "both" /\ StartedBy(v, asOf) => HydrateAdmits(v, c, policy, asOf)
  BY DEF HydrateAdmits
<1>4. IndexAdmits(v, c, policy, asOf) => HydrateAdmits(v, c, policy, asOf)
  BY <1>1, <1>2, <1>3, InForceStarted DEF IndexAdmits
<1>5. DenseAdmits(v, c, policy, asOf) => HydrateAdmits(v, c, policy, asOf)
  BY <1>1, <1>2, <1>3 DEF DenseAdmits
<1>6. EventAdmits(v, c, policy, asOf) => HydrateAdmits(v, c, policy, asOf)
  BY <1>1, <1>2, <1>3 DEF EventAdmits
<1>7. /\ ServingAdmits(v, c, policy, asOf) => HydrateAdmits(v, c, policy, asOf)
      /\ OverlayAdmits(v, c, policy, asOf) => HydrateAdmits(v, c, policy, asOf)
  BY <1>1, <1>2 DEF ServingAdmits, OverlayAdmits
<1>8. MetadataAdmits(v, c, policy, asOf) => HydrateAdmits(v, c, policy, asOf)
  BY MetadataHydrates
<1>9. QED
  BY <1>4, <1>5, <1>6, <1>7, <1>8 DEF c

\* The same of the readers of search, by name.
LEMMA ReaderHydrates ==
    ASSUME NEW reader \in {"index", "dense", "serving", "overlay", "event"}, NEW v, NEW c \in BOOLEAN,
           NEW policy \in Policies, NEW asOf, AdmittedBy(reader, v, c, policy, asOf)
    PROVE  AdmittedBy("hydrate", v, c, policy, asOf)
<1> DEFINE corrections == IF c THEN {v.filing} ELSE {}
<1>1. ReadersAgree({v}, corrections, {asOf})
  BY ReadersNeverExceedHydration
<1>2. c = (v.filing \in corrections)
  OBVIOUS
<1> HIDE DEF corrections
<1>3. LET admits == HydrateAdmits(v, v.filing \in corrections, policy, asOf)
      IN  /\ IndexAdmits(v, v.filing \in corrections, policy, asOf) => admits
          /\ DenseAdmits(v, v.filing \in corrections, policy, asOf) => admits
          /\ ServingAdmits(v, v.filing \in corrections, policy, asOf) => admits
          /\ OverlayAdmits(v, v.filing \in corrections, policy, asOf) => admits
          /\ EventAdmits(v, v.filing \in corrections, policy, asOf) => admits
  BY <1>1 DEF ReadersAgree
<1>4. \/ IndexAdmits(v, c, policy, asOf) \/ DenseAdmits(v, c, policy, asOf)
      \/ ServingAdmits(v, c, policy, asOf) \/ OverlayAdmits(v, c, policy, asOf)
      \/ EventAdmits(v, c, policy, asOf)
  BY DEF AdmittedBy
<1>5. HydrateAdmits(v, c, policy, asOf)
  BY <1>2, <1>3, <1>4
<1>6. QED
  BY <1>5 DEF AdmittedBy

-----------------------------------------------------------------------------
(* What a sort makes of a set, its order given as the set of its pairs      *)

TotalOrder(R, S) ==
    /\ \A x \in S : <<x, x>> \notin R
    /\ \A x, y \in S : x = y \/ <<x, y>> \in R \/ <<y, x>> \in R
    /\ \A x, y, z \in S : <<x, y>> \in R /\ <<y, z>> \in R => <<x, z>> \in R

Rank(S, R, x) == Cardinality({z \in S : <<z, x>> \in R})

\* What comes before has fewer before it.
LEMMA CountsGrow ==
    ASSUME NEW S, IsFiniteSet(S), NEW R, TotalOrder(R, S),
           NEW x \in S, NEW y \in S, <<x, y>> \in R
    PROVE  /\ Rank(S, R, x) \in Nat /\ Rank(S, R, y) \in Nat
           /\ Rank(S, R, x) < Rank(S, R, y)
<1> DEFINE before(u) == {z \in S : <<z, u>> \in R}
<1>1. IsFiniteSet(before(x)) /\ IsFiniteSet(before(y))
  BY FS_Subset
<1>2. before(x) \in SUBSET before(y) /\ x \in before(y) /\ x \notin before(x)
  BY DEF TotalOrder
<1>3. Rank(S, R, x) = Cardinality(before(x)) /\ Rank(S, R, y) = Cardinality(before(y))
  BY DEF Rank
<1> HIDE DEF before
<1>4. Cardinality(before(x)) \in Nat /\ Cardinality(before(y)) \in Nat
  BY <1>1, FS_CardinalityType
<1>5. Cardinality(before(x)) <= Cardinality(before(y)) /\ Cardinality(before(x)) # Cardinality(before(y))
  BY <1>1, <1>2, FS_Subset
<1>6. QED
  BY <1>3, <1>4, <1>5

\* A member does not come before itself, so fewer than all come before it.
LEMMA RankType ==
    ASSUME NEW S, IsFiniteSet(S), NEW R, TotalOrder(R, S), NEW x \in S
    PROVE  /\ Cardinality(S) \in Nat
           /\ Rank(S, R, x) \in Nat /\ Rank(S, R, x) < Cardinality(S)
<1> DEFINE before == {z \in S : <<z, x>> \in R}
<1>1. before \in SUBSET S /\ before # S
  BY DEF TotalOrder
<1>2. Rank(S, R, x) = Cardinality(before)
  BY DEF Rank
<1> HIDE DEF before
<1>3. /\ IsFiniteSet(before) /\ Cardinality(before) <= Cardinality(S)
      /\ Cardinality(before) # Cardinality(S)
  BY <1>1, FS_Subset
<1>4. Cardinality(before) \in Nat /\ Cardinality(S) \in Nat
  BY <1>3, FS_CardinalityType
<1>5. QED
  BY <1>2, <1>3, <1>4

LEMMA RanksDiffer ==
    ASSUME NEW S, IsFiniteSet(S), NEW R, TotalOrder(R, S), NEW x \in S, NEW y \in S, x # y
    PROVE  Rank(S, R, x) # Rank(S, R, y)
<1>1. <<x, y>> \in R \/ <<y, x>> \in R
  BY DEF TotalOrder
<1>2. Rank(S, R, x) < Rank(S, R, y) \/ Rank(S, R, y) < Rank(S, R, x)
  BY <1>1, CountsGrow
<1>3. Rank(S, R, x) \in Nat /\ Rank(S, R, y) \in Nat
  BY RankType
<1>4. QED
  BY <1>2, <1>3

\* Every place is taken.
LEMMA PlacesTaken ==
    ASSUME NEW S, IsFiniteSet(S), NEW R, TotalOrder(R, S), NEW k \in 1 .. Cardinality(S)
    PROVE  \E x \in S : Rank(S, R, x) = k - 1
<1> DEFINE n == Cardinality(S)
           places == [u \in S |-> Rank(S, R, u)]
<1>1. n \in Nat
  BY FS_CardinalityType
<1>2. places \in [S -> 0 .. n - 1]
  BY <1>1, RankType
<1>3. \A u, w \in S : places[u] = places[w] => u = w
  BY RanksDiffer
<1>4. IsFiniteSet(0 .. n - 1) /\ Cardinality(0 .. n - 1) = n
  <2>1. 0 \in Int /\ n - 1 \in Int
    BY <1>1
  <2>2. /\ IsFiniteSet(0 .. n - 1)
        /\ Cardinality(0 .. n - 1) = IF 0 > n - 1 THEN 0 ELSE (n - 1) - 0 + 1
    BY <2>1, FS_Interval
  <2>3. QED
    BY <1>1, <2>2
<1> HIDE DEF places
<1>5. places \in Surjection(S, 0 .. n - 1)
  BY <1>2, <1>3, <1>4, Fun_IsInj, FS_Injection
<1>6. k - 1 \in 0 .. n - 1
  BY <1>1
<1>7. \E x \in S : places[x] = k - 1
  BY <1>5, <1>6 DEF Surjection
<1>8. QED
  BY <1>7 DEF places

\* Sorted lists the members of a set, each once, in the order.
LEMMA SortedLists ==
    ASSUME NEW S, IsFiniteSet(S), NEW R, TotalOrder(R, S)
    PROVE  LET n == Cardinality(S)
               list == Sorted(S, R)
           IN  /\ n \in Nat /\ list \in [1 .. n -> S]
               /\ \A j, k \in 1 .. n : j < k => <<list[j], list[k]>> \in R
               /\ \A x \in S : \E k \in 1 .. n : list[k] = x
<1> DEFINE n == Cardinality(S)
           list == Sorted(S, R)
           taker(k) == CHOOSE x \in S : Rank(S, R, x) = k - 1
<1>1. n \in Nat
  BY FS_CardinalityType
<1>2. ASSUME NEW k \in 1 .. n PROVE taker(k) \in S /\ Rank(S, R, taker(k)) = k - 1
  BY PlacesTaken
<1>3. list = [k \in 1 .. n |-> taker(k)]
  BY DEF Sorted, Rank
<1> HIDE DEF list, taker
<1>4. list \in [1 .. n -> S] /\ \A k \in 1 .. n : Rank(S, R, list[k]) = k - 1
  BY <1>2, <1>3
<1>5. ASSUME NEW j \in 1 .. n, NEW k \in 1 .. n, j < k
      PROVE  <<list[j], list[k]>> \in R
  <2>1. list[j] \in S /\ list[k] \in S
    BY <1>4
  <2>2. Rank(S, R, list[j]) < Rank(S, R, list[k])
    <3>1. j - 1 < k - 1
      BY <1>1, <1>5
    <3>2. QED
      BY <1>4, <3>1
  <2>3. list[j] # list[k] /\ ~(Rank(S, R, list[k]) < Rank(S, R, list[j]))
    BY <2>1, <2>2, RankType
  <2>4. <<list[k], list[j]>> \notin R
    BY <2>1, <2>3, CountsGrow
  <2>5. QED
    BY <2>1, <2>3, <2>4 DEF TotalOrder
<1>6. ASSUME NEW x \in S PROVE \E k \in 1 .. n : list[k] = x
  <2> DEFINE m == Rank(S, R, x)
  <2>1. m \in Nat /\ m < n
    BY RankType
  <2> HIDE DEF m
  <2>2. m + 1 \in 1 .. n /\ (m + 1) - 1 = m
    BY <1>1, <2>1
  <2>3. list[m + 1] \in S /\ Rank(S, R, list[m + 1]) = m
    BY <1>4, <2>2
  <2>4. list[m + 1] = x
    BY <2>3, RanksDiffer DEF m
  <2>5. QED
    BY <2>2, <2>4
<1>7. QED
  BY <1>1, <1>4, <1>5, <1>6 DEF list

-----------------------------------------------------------------------------
(* The lists of facts                                                       *)

Ascending(P) == {p \in P \X P : p[1] < p[2]}

\* The places of a list in their order.
LEMMA PlacesOrdered ==
    ASSUME NEW P \in SUBSET Nat, IsFiniteSet(P)
    PROVE  LET n == Cardinality(P)
               list == Sorted(P, Ascending(P))
           IN  /\ n \in Nat /\ list \in [1 .. n -> P]
               /\ \A j, k \in 1 .. n : j < k => list[j] < list[k]
               /\ \A i \in P : \E k \in 1 .. n : list[k] = i
<1>1. TotalOrder(Ascending(P), P)
  BY DEF TotalOrder, Ascending
<1>2. \A i, j : <<i, j>> \in Ascending(P) => i < j
  BY DEF Ascending
<1> DEFINE n == Cardinality(P)
           list == Sorted(P, Ascending(P))
<1>3. /\ n \in Nat /\ list \in [1 .. n -> P]
      /\ \A j, k \in 1 .. n : j < k => <<list[j], list[k]>> \in Ascending(P)
      /\ \A i \in P : \E k \in 1 .. n : list[k] = i
  BY <1>1, SortedLists
<1> HIDE DEF list, n
<1>4. \A j, k \in 1 .. n : j < k => list[j] < list[k]
  BY <1>2, <1>3
<1>5. QED
  BY <1>3, <1>4 DEF list, n

LEMMA IndicesFinite ==
    ASSUME NEW T, NEW listed \in Seq(T), NEW P \in SUBSET DOMAIN listed
    PROVE  P \in SUBSET Nat /\ IsFiniteSet(P)
<1>1. Len(listed) \in Nat /\ DOMAIN listed = 1 .. Len(listed)
  OBVIOUS
<1>2. IsFiniteSet(1 .. Len(listed))
  BY <1>1, FS_Interval
<1>3. QED
  BY <1>1, <1>2, FS_Subset

\* A fact with other evidence is a fact.
LEMMA EvidenceReplaced ==
    ASSUME NEW f \in FactRows, NEW ids \in SUBSET DOMAIN Evidence
    PROVE  /\ [f EXCEPT !.evidence = ids] \in FactRows
           /\ [f EXCEPT !.evidence = ids].evidence = ids
  BY DEF FactRows

\* Of a list of facts whose evidence is replaced, those stay that have some.
WithEvidence(all) ==
    LET P == {i \in DOMAIN all : all[i].evidence # {}}
        places == Sorted(P, Ascending(P))
    IN  [k \in DOMAIN places |-> all[places[k]]]

LEMMA RowsKept ==
    ASSUME NEW listed \in Seq(FactRows), NEW all \in [DOMAIN listed -> FactRows]
    PROVE  LET out == WithEvidence(all)
           IN  /\ out \in Seq(FactRows)
               /\ \A k \in DOMAIN out : out[k].evidence # {} /\ \E i \in DOMAIN listed : out[k] = all[i]
<1> DEFINE P == {i \in DOMAIN all : all[i].evidence # {}}
           places == Sorted(P, Ascending(P))
           out == [k \in DOMAIN places |-> all[places[k]]]
<1>1. P \in SUBSET DOMAIN listed /\ \A i \in P : all[i] \in FactRows /\ all[i].evidence # {}
  OBVIOUS
<1> HIDE DEF P
<1>2. P \in SUBSET Nat /\ IsFiniteSet(P)
  BY <1>1, IndicesFinite
<1>3. Cardinality(P) \in Nat /\ places \in [1 .. Cardinality(P) -> P]
  BY <1>2, PlacesOrdered
<1> HIDE DEF places
<1>4. out \in [1 .. Cardinality(P) -> FactRows]
  BY <1>1, <1>3
<1>5. out \in Seq(FactRows)
  BY <1>3, <1>4, SMTT(30)
<1>6. ASSUME NEW k \in DOMAIN out
      PROVE  out[k].evidence # {} /\ \E i \in DOMAIN listed : out[k] = all[i]
  BY <1>1, <1>3
<1>7. QED
  BY <1>5, <1>6 DEF places, P, WithEvidence

\* _hydrate_facts leaves listed of the list with the evidence that hydrates, and some.
LEMMA HydratedRows ==
    ASSUME NEW listed \in Seq(FactRows), NEW policy, NEW asOf
    PROVE  LET out == HydrateFacts(listed, policy, asOf)
           IN  /\ out \in Seq(FactRows)
               /\ \A k \in DOMAIN out :
                    /\ out[k].evidence # {}
                    /\ \E i \in DOMAIN listed :
                          out[k] = [listed[i] EXCEPT !.evidence = HydrateAs(@, policy, asOf)]
<1> DEFINE all == [i \in DOMAIN listed |-> [listed[i] EXCEPT !.evidence = HydrateAs(@, policy, asOf)]]
<1>1. \A ids : HydrateAs(ids, policy, asOf) \in SUBSET DOMAIN Evidence
  BY DEF HydrateAs
<1>2. \A i \in DOMAIN listed : listed[i] \in FactRows
  OBVIOUS
<1>3. \A i \in DOMAIN listed : [listed[i] EXCEPT !.evidence = HydrateAs(@, policy, asOf)] \in FactRows
  BY <1>1, <1>2, EvidenceReplaced
<1>4. all \in [DOMAIN listed -> FactRows]
  BY <1>3
<1>5. HydrateFacts(listed, policy, asOf) = WithEvidence(all)
  BY DEF HydrateFacts, Kept, Ordered, Ascending, WithEvidence
<1>6. \A i \in DOMAIN listed : all[i] = [listed[i] EXCEPT !.evidence = HydrateAs(@, policy, asOf)]
  OBVIOUS
<1> HIDE DEF all
<1>7. QED
  BY <1>4, <1>5, <1>6, RowsKept

\* _facts_with_final_evidence leaves listed with evidence that is left, and some.
LEMMA FinalRows ==
    ASSUME NEW listed \in Seq(FactRows), NEW ids
    PROVE  LET out == WithFinalEvidence(listed, ids)
           IN  /\ out \in Seq(FactRows)
               /\ \A k \in DOMAIN out :
                    /\ out[k].evidence # {}
                    /\ \E i \in DOMAIN listed :
                          out[k] = [listed[i] EXCEPT !.evidence = @ \cap ids]
<1> DEFINE all == [i \in DOMAIN listed |-> [listed[i] EXCEPT !.evidence = @ \cap ids]]
<1>1. \A i \in DOMAIN listed : listed[i] \in FactRows /\ listed[i].evidence \cap ids \in SUBSET DOMAIN Evidence
  <2>1. \A i \in DOMAIN listed : listed[i] \in FactRows
    OBVIOUS
  <2>2. QED
    BY <2>1 DEF FactRows
<1>2. \A i \in DOMAIN listed : [listed[i] EXCEPT !.evidence = @ \cap ids] \in FactRows
  BY <1>1, EvidenceReplaced
<1>3. all \in [DOMAIN listed -> FactRows]
  BY <1>2
<1>4. WithFinalEvidence(listed, ids) = WithEvidence(all)
  BY DEF WithFinalEvidence, Kept, Ordered, Ascending, WithEvidence
<1>5. \A i \in DOMAIN listed : all[i] = [listed[i] EXCEPT !.evidence = @ \cap ids]
  OBVIOUS
<1> HIDE DEF all
<1>6. /\ WithEvidence(all) \in Seq(FactRows)
      /\ \A k \in DOMAIN WithEvidence(all) :
            WithEvidence(all)[k].evidence # {} /\ \E i \in DOMAIN listed : WithEvidence(all)[k] = all[i]
  BY <1>3, RowsKept
<1>7. QED
  BY <1>4, <1>5, <1>6, Zenon

\* A fact, or what was left of its evidence.
LeftOf(row, f) == row.evidence \subseteq f.evidence /\ [row EXCEPT !.evidence = f.evidence] = f

\* Rows are what is left of some of the facts listed, in their order.
LeftIn(list, listed) ==
    \E place \in [DOMAIN list -> DOMAIN listed] :
        /\ \A j, k \in DOMAIN list : j < k => place[j] < place[k]
        /\ \A k \in DOMAIN list : LeftOf(list[k], listed[place[k]])

\* What is left of a fact is the fact but for its evidence.
LEMMA LeftSays ==
    ASSUME NEW row \in FactRows, NEW f \in FactRows, LeftOf(row, f)
    PROVE  /\ row.id = f.id /\ row.filing = f.filing /\ row.account = f.account
           /\ row.scope = f.scope /\ row.start = f.start /\ row.end = f.end
           /\ row.instant = f.instant /\ row.value = f.value /\ row.scale = f.scale
           /\ row.evidence \subseteq f.evidence
<1> DEFINE h == [row EXCEPT !.evidence = f.evidence]
<1>1. /\ h.id = row.id /\ h.filing = row.filing /\ h.account = row.account
      /\ h.scope = row.scope /\ h.start = row.start /\ h.end = row.end
      /\ h.instant = row.instant /\ h.value = row.value /\ h.scale = row.scale
  BY DEF FactRows
<1>2. h = f /\ row.evidence \subseteq f.evidence
  BY DEF LeftOf
<1>3. QED
  BY <1>1, <1>2

LEMMA LessEvidence ==
    ASSUME NEW f \in FactRows, NEW ids \in SUBSET f.evidence
    PROVE  LeftOf([f EXCEPT !.evidence = ids], f)
  BY DEF LeftOf, FactRows

LEMMA LeftOfLeft ==
    ASSUME NEW row \in FactRows, NEW h \in FactRows, NEW f \in FactRows,
           LeftOf(row, h), LeftOf(h, f)
    PROVE  LeftOf(row, f)
<1>1. /\ row.evidence \subseteq f.evidence
      /\ [row EXCEPT !.evidence = h.evidence] = h /\ [h EXCEPT !.evidence = f.evidence] = f
  BY DEF LeftOf
<1>2. [row EXCEPT !.evidence = f.evidence] = [[row EXCEPT !.evidence = h.evidence] EXCEPT !.evidence = f.evidence]
  BY DEF FactRows
<1>3. QED
  BY <1>1, <1>2 DEF LeftOf

\* The rows of a list that keep some of their evidence are left in it.
LEMMA KeptAreLeft ==
    ASSUME NEW listed \in Seq(FactRows), NEW all \in [DOMAIN listed -> FactRows],
           \A i \in DOMAIN listed : LeftOf(all[i], listed[i])
    PROVE  LeftIn(WithEvidence(all), listed)
<1> DEFINE P == {i \in DOMAIN all : all[i].evidence # {}}
           places == Sorted(P, Ascending(P))
           out == [k \in DOMAIN places |-> all[places[k]]]
<1>1. P \in SUBSET DOMAIN listed
  OBVIOUS
<1> HIDE DEF P
<1>2. P \in SUBSET Nat /\ IsFiniteSet(P)
  BY <1>1, IndicesFinite
<1>3. /\ Cardinality(P) \in Nat /\ places \in [1 .. Cardinality(P) -> P]
      /\ \A j, k \in 1 .. Cardinality(P) : j < k => places[j] < places[k]
  BY <1>2, PlacesOrdered
<1> HIDE DEF places
<1>4. DOMAIN out = 1 .. Cardinality(P)
  BY <1>3
<1>5. places \in [DOMAIN out -> DOMAIN listed]
  BY <1>1, <1>3, <1>4
<1>6. \A k \in DOMAIN out : LeftOf(out[k], listed[places[k]])
  BY <1>1, <1>3
<1>7. LeftIn(out, listed)
  BY <1>3, <1>4, <1>5, <1>6 DEF LeftIn
<1>8. QED
  BY <1>7 DEF places, P, WithEvidence

LEMMA HydratedLeft ==
    ASSUME NEW listed \in Seq(FactRows), NEW policy, NEW asOf
    PROVE  LeftIn(HydrateFacts(listed, policy, asOf), listed)
<1> DEFINE all == [i \in DOMAIN listed |-> [listed[i] EXCEPT !.evidence = HydrateAs(@, policy, asOf)]]
<1>1. \A ids : HydrateAs(ids, policy, asOf) \in SUBSET (ids \cap DOMAIN Evidence)
  BY DEF HydrateAs
<1>2. \A i \in DOMAIN listed : listed[i] \in FactRows
  OBVIOUS
<1>3. \A i \in DOMAIN listed : all[i] \in FactRows /\ LeftOf(all[i], listed[i])
  BY <1>1, <1>2, EvidenceReplaced, LessEvidence
<1>4. HydrateFacts(listed, policy, asOf) = WithEvidence(all)
  BY DEF HydrateFacts, Kept, Ordered, Ascending, WithEvidence
<1>5. all \in [DOMAIN listed -> FactRows]
  BY <1>3
<1> HIDE DEF all
<1>6. QED
  BY <1>3, <1>4, <1>5, KeptAreLeft

LEMMA FinalLeft ==
    ASSUME NEW listed \in Seq(FactRows), NEW ids
    PROVE  LeftIn(WithFinalEvidence(listed, ids), listed)
<1> DEFINE all == [i \in DOMAIN listed |-> [listed[i] EXCEPT !.evidence = @ \cap ids]]
<1>1. \A i \in DOMAIN listed : listed[i] \in FactRows /\ listed[i].evidence \in SUBSET DOMAIN Evidence
  <2>1. \A i \in DOMAIN listed : listed[i] \in FactRows
    OBVIOUS
  <2>2. QED
    BY <2>1 DEF FactRows
<1>2. \A i \in DOMAIN listed : all[i] \in FactRows /\ LeftOf(all[i], listed[i])
  BY <1>1, EvidenceReplaced, LessEvidence
<1>3. WithFinalEvidence(listed, ids) = WithEvidence(all)
  BY DEF WithFinalEvidence, Kept, Ordered, Ascending, WithEvidence
<1>4. all \in [DOMAIN listed -> FactRows]
  BY <1>2
<1> HIDE DEF all
<1>5. QED
  BY <1>2, <1>3, <1>4, KeptAreLeft

\* A sort of facts lists them all, once each.
LEMMA SortedFacts ==
    ASSUME NEW S \in SUBSET FactRows, IsFiniteSet(S), NEW R, TotalOrder(R, S)
    PROVE  /\ Sorted(S, R) \in Seq(FactRows)
           /\ \A k \in DOMAIN Sorted(S, R) : Sorted(S, R)[k] \in S
           /\ \A j, k \in DOMAIN Sorted(S, R) : j < k => <<Sorted(S, R)[j], Sorted(S, R)[k]>> \in R
<1> DEFINE n == Cardinality(S)
           list == Sorted(S, R)
<1>1. /\ n \in Nat /\ list \in [1 .. n -> S]
      /\ \A j, k \in 1 .. n : j < k => <<list[j], list[k]>> \in R
  BY SortedLists
<1> HIDE DEF n, list
<1>2. list \in [1 .. n -> FactRows]
  BY <1>1
<1>3. list \in Seq(FactRows) /\ DOMAIN list = 1 .. n
  BY <1>1, <1>2
<1>4. QED
  BY <1>1, <1>3 DEF list

FactPairs(S) == {p \in S \X S : FactOrder(p[1], p[2])}

LEMMA FactOrderTotal ==
    ASSUME CorpusSound, NEW S \in SUBSET FinancialRows
    PROVE  /\ S \in SUBSET FactRows /\ IsFiniteSet(S)
           /\ TotalOrder(FactPairs(S), S)
<1>1. IsFiniteSet(FinancialRows) /\ FinancialRows \in SUBSET FactRows
  BY DEF CorpusSound
<1>2. S \in SUBSET FactRows /\ IsFiniteSet(S)
  BY <1>1, FS_Subset
<1>3. \A f, g \in S : f.id = g.id => f = g
  BY DEF CorpusSound
<1>4. \A f \in S : f.id \in Nat /\ DateOf(f) \in Nat /\ ScopeRank(f) \in Nat
  <2>1. \A f \in S : f.id \in Nat /\ f.end \in Nat /\ f.instant \in Nat
    BY <1>2 DEF FactRows
  <2>2. QED
    BY <2>1 DEF DateOf, ScopeRank
<1>5. /\ \A f \in S : ~FactOrder(f, f)
      /\ \A f, g \in S : f = g \/ FactOrder(f, g) \/ FactOrder(g, f)
      /\ \A f, g, h \in S : FactOrder(f, g) /\ FactOrder(g, h) => FactOrder(f, h)
  BY <1>3, <1>4 DEF FactOrder
<1>6. TotalOrder(FactPairs(S), S)
  BY <1>5 DEF TotalOrder, FactPairs
<1>7. QED
  BY <1>2, <1>6

LEMMA TakenFacts ==
    ASSUME NEW s \in Seq(FactRows), NEW n \in Int
    PROVE  /\ Take(s, n) \in Seq(FactRows)
           /\ DOMAIN Take(s, n) \in SUBSET DOMAIN s
           /\ \A k \in DOMAIN Take(s, n) : Take(s, n)[k] = s[k]
<1> DEFINE m == IF Len(s) < n THEN Len(s) ELSE n
<1>1. Len(s) \in Nat /\ DOMAIN s = 1 .. Len(s)
  OBVIOUS
<1>2. m \in Int /\ m <= Len(s)
  BY <1>1
<1> HIDE DEF m
<1>3. Take(s, n) = SubSeq(s, 1, m)
  BY DEF Take, m
<1>4. CASE m < 1
  BY <1>1, <1>2, <1>3, <1>4
<1>5. CASE m >= 1
  <2>1. m \in 1 .. Len(s)
    BY <1>1, <1>2, <1>5
  <2>2. /\ SubSeq(s, 1, m) \in Seq(FactRows) /\ Len(SubSeq(s, 1, m)) = m
        /\ \A k \in 1 .. m : SubSeq(s, 1, m)[k] = s[k]
    BY <1>1, <2>1
  <2>3. QED
    BY <1>1, <1>2, <1>3, <2>2
<1>6. QED
  BY <1>2, <1>4, <1>5

\* fetch_overlay_facts returns validated listed that pass its filters, the later period
\* first and no row twice.
LEMMA OverlayFactsRows ==
    ASSUME CorpusSound, NEW named \in SUBSET FinancialRows, NEW company, NEW policy, NEW asOf,
           NEW scope, NEW period, NEW upTo, NEW limit \in Int
    PROVE  LET out == OverlayFacts(named, company, policy, asOf, scope, period, upTo, limit)
           IN  /\ out \in Seq(FactRows)
               /\ \A k \in DOMAIN out :
                    /\ out[k] \in FinancialRows /\ out[k] \in named
                    /\ AdmitsAs("overlay", out[k].filing, policy, asOf)
                    /\ OfCompany(out[k].filing, company)
               /\ \A j, k \in DOMAIN out : j < k => FactOrder(out[j], out[k])
<1> DEFINE S == {f \in named :
            /\ AdmitsAs("overlay", f.filing, policy, asOf)
            /\ OfCompany(f.filing, company)
            /\ scope # None => f.scope = scope
            /\ period.start # NoDate => f.start = period.start
            /\ period.end # NoDate => f.end = period.end
            /\ period.instant # NoDate => f.instant = period.instant
            /\ upTo # NoDate => f.end # NoDate /\ f.end <= upTo
            /\ \E id \in f.evidence : Evidence[id].ok /\ Evidence[id].format # "pdf"}
           list == Sorted(S, FactPairs(S))
           out == OverlayFacts(named, company, policy, asOf, scope, period, upTo, limit)
<1>1. out = Take(list, limit)
  BY DEF OverlayFacts, Ordered, FactPairs
<1>2. \A f \in S : /\ f \in FinancialRows /\ f \in named
                  /\ AdmitsAs("overlay", f.filing, policy, asOf)
                  /\ OfCompany(f.filing, company)
  OBVIOUS
<1>3. S \in SUBSET FinancialRows
  OBVIOUS
<1> HIDE DEF S, out
<1>4. /\ S \in SUBSET FactRows /\ IsFiniteSet(S) /\ TotalOrder(FactPairs(S), S)
  BY <1>3, FactOrderTotal
<1>5. /\ list \in Seq(FactRows)
      /\ \A k \in DOMAIN list : list[k] \in S
      /\ \A j, k \in DOMAIN list : j < k => <<list[j], list[k]>> \in FactPairs(S)
  BY <1>4, SortedFacts
<1> HIDE DEF list
<1>6. /\ out \in Seq(FactRows) /\ DOMAIN out \in SUBSET DOMAIN list
      /\ \A k \in DOMAIN out : out[k] = list[k]
  BY <1>1, <1>5, TakenFacts
<1>7. \A f, g : <<f, g>> \in FactPairs(S) => FactOrder(f, g)
  BY DEF FactPairs
<1>8. QED
  BY <1>2, <1>5, <1>6, <1>7 DEF out

LEMMA LargerOfTwo ==
    ASSUME NEW a \in Int, NEW b \in Int
    PROVE  Max({a, b}) \in {a, b} /\ Max({a, b}) >= a /\ Max({a, b}) >= b
<1>1. \E x \in {a, b} : \A y \in {a, b} : x >= y
  <2>1. CASE a >= b
    BY <2>1
  <2>2. CASE b >= a
    BY <2>2
  <2>3. QED
    BY <2>1, <2>2
<1>2. QED
  BY <1>1 DEF Max

LEMMA PlannedFactsRows ==
    ASSUME CorpusSound, plan.latest \in Int
    PROVE  /\ PlannedFacts \in Seq(FactRows)
           /\ \A k \in DOMAIN PlannedFacts :
                /\ PlannedFacts[k] \in FinancialRows
                /\ AdmitsAs("overlay", PlannedFacts[k].filing, plan.policy, plan.asOf)
                /\ OfCompany(PlannedFacts[k].filing, plan.company)
           /\ plan.label = None =>
                \A j, k \in DOMAIN PlannedFacts : PlannedFacts[j].account = PlannedFacts[k].account
           /\ \A j, k \in DOMAIN PlannedFacts : j < k => FactOrder(PlannedFacts[j], PlannedFacts[k])
<1> DEFINE account == IF plan.account.support = "derived" /\ Cardinality(plan.account.required) = 1
                      THEN CHOOSE a \in plan.account.required : TRUE ELSE plan.account.id
           named == IF account = None /\ plan.label # None
                    THEN {f \in FinancialRows : f.label = plan.label} ELSE AccountRows(account)
           upTo == IF plan.operation \in Arithmetic THEN plan.period.end ELSE NoDate
           instant == CASE plan.period.instant # NoDate -> plan.period.instant
                        [] plan.period.instant = NoDate /\ plan.statement = "BS" /\ upTo = NoDate
                               -> plan.period.end
                        [] OTHER -> NoDate
           exact == upTo = NoDate /\ instant = NoDate
           pair == IF plan.operation \in {"growth_rate", "difference", "ratio"} THEN 2 ELSE 1
           period == [start |-> IF exact THEN plan.period.start ELSE NoDate,
                      end |-> IF exact THEN plan.period.end ELSE NoDate,
                      instant |-> instant]
           limit == Max({plan.latest, pair})
<1>1. PlannedFacts = OverlayFacts(named, plan.company, plan.policy, plan.asOf, plan.scope,
                                  period, upTo, limit)
  BY DEF PlannedFacts
<1>2. pair \in Int
  OBVIOUS
<1>8. /\ named \in SUBSET FinancialRows
      /\ plan.label = None => \A f \in named : f.account = account
  BY DEF AccountRows
<1> HIDE DEF account, named, upTo, instant, exact, pair, period
<1>3. limit \in Int
  BY <1>2, LargerOfTwo
<1> HIDE DEF limit
<1> DEFINE out == OverlayFacts(named, plan.company, plan.policy, plan.asOf, plan.scope,
                               period, upTo, limit)
<1>4. /\ out \in Seq(FactRows)
      /\ \A k \in DOMAIN out :
            /\ out[k] \in FinancialRows /\ out[k] \in named
            /\ AdmitsAs("overlay", out[k].filing, plan.policy, plan.asOf)
            /\ OfCompany(out[k].filing, plan.company)
      /\ \A j, k \in DOMAIN out : j < k => FactOrder(out[j], out[k])
  BY <1>3, <1>8, OverlayFactsRows
<1> HIDE DEF out
<1>5. PlannedFacts = out
  BY <1>1 DEF out
<1>6. QED
  BY <1>4, <1>5, <1>8

ById(S) == {p \in S \X S : p[1].id < p[2].id}

ByVersion(S) ==
    {p \in S \X S :
        \/ VersionOf(p[1].filing).from < VersionOf(p[2].filing).from
        \/ VersionOf(p[1].filing).from = VersionOf(p[2].filing).from /\ p[1].filing < p[2].filing
        \/ p[1].filing = p[2].filing /\ p[1].id < p[2].id}

LEMMA EventOrdersTotal ==
    ASSUME CorpusSound, NEW S \in SUBSET EventRows
    PROVE  /\ S \in SUBSET FactRows /\ IsFiniteSet(S)
           /\ TotalOrder(ById(S), S) /\ TotalOrder(ByVersion(S), S)
<1>1. S \in SUBSET FactRows /\ IsFiniteSet(S)
  BY FS_Subset DEF CorpusSound
<1>2. \A f, g \in S : f.id = g.id => f = g
  BY DEF CorpusSound
<1>3. \A f \in S : f.id \in Nat /\ f.filing \in DOMAIN Filings
  BY <1>1 DEF FactRows
<1>4. \A f \in S : f.filing \in Nat /\ VersionOf(f.filing).from \in Nat
  BY <1>3 DEF CorpusSound, VersionOf
<1>5. TotalOrder(ById(S), S)
  BY <1>2, <1>3 DEF TotalOrder, ById
<1>6. TotalOrder(ByVersion(S), S)
  <2> DEFINE before(f, g) == \/ VersionOf(f.filing).from < VersionOf(g.filing).from
                             \/ VersionOf(f.filing).from = VersionOf(g.filing).from /\ f.filing < g.filing
                             \/ f.filing = g.filing /\ f.id < g.id
  <2>1. /\ \A f \in S : ~before(f, f)
        /\ \A f, g \in S : f = g \/ before(f, g) \/ before(g, f)
        /\ \A f, g, h \in S : before(f, g) /\ before(g, h) => before(f, h)
    BY <1>2, <1>3, <1>4
  <2>2. \A f, g \in S : <<f, g>> \in ByVersion(S) <=> before(f, g)
    BY DEF ByVersion
  <2> HIDE DEF before
  <2>3. QED
    BY <2>1, <2>2 DEF TotalOrder
<1>7. QED
  BY <1>1, <1>5, <1>6

\* fetch_event_facts returns event listed of the company that its version rule admits.
LEMMA EventFactsRows ==
    ASSUME CorpusSound
    PROVE  /\ EventFacts \in Seq(FactRows)
           /\ \A k \in DOMAIN EventFacts :
                /\ EventFacts[k] \in EventRows
                /\ Admits("event", EventFacts[k].filing)
                /\ OfCompany(EventFacts[k].filing, plan.company)
<1> DEFINE listed == {f \in EventRows : Admits("event", f.filing) /\ OfCompany(f.filing, plan.company)}
           Sort(S, R) == R \in {ById(S), ByVersion(S)} /\ EventFacts = Sorted(S, R)
<1>1. \E S \in SUBSET listed : \E R : Sort(S, R)
  <2> DEFINE chain(f) == {g \in listed : VersionOf(g.filing).event = VersionOf(f.filing).event}
             longest == {f \in listed : \A g \in listed : Cardinality(chain(g)) <= Cardinality(chain(f))}
             selected == CHOOSE f \in longest : \A g \in longest : g.id >= f.id
             several == plan.policy = "both" /\ \E f \in listed : Cardinality(chain(f)) > 1
  <2>1. EventFacts = IF several THEN Sorted(chain(selected), ByVersion(chain(selected)))
                     ELSE Sorted(listed, ById(listed))
    BY Zenon DEF EventFacts, Ordered, ById, ByVersion
  <2>2. chain(selected) \in SUBSET listed /\ listed \in SUBSET listed
    OBVIOUS
  <2> HIDE DEF chain, longest, selected, several
  <2>3. Sort(chain(selected), ByVersion(chain(selected))) \/ Sort(listed, ById(listed))
    BY <2>1, Zenon
  <2>4. QED
    BY <2>2, <2>3, Zenon
<1>2. PICK S \in SUBSET listed : \E R : Sort(S, R)
  BY <1>1
<1>3. PICK R : Sort(S, R)
  BY <1>2
<1>4. S \in SUBSET EventRows /\ \A f \in S : /\ Admits("event", f.filing)
                                           /\ OfCompany(f.filing, plan.company)
  OBVIOUS
<1> HIDE DEF listed
<1>5. S \in SUBSET FactRows /\ IsFiniteSet(S) /\ TotalOrder(R, S)
  BY <1>3, <1>4, EventOrdersTotal
<1>6. EventFacts \in Seq(FactRows) /\ \A k \in DOMAIN EventFacts : EventFacts[k] \in S
  BY <1>3, <1>5, SortedFacts
<1>7. QED
  BY <1>4, <1>6

\* The newest facts of all companies are listed of the overlay.
LEMMA LatestFactsRows ==
    ASSUME CorpusSound
    PROVE  LatestFacts \in Seq(FactRows)
<1> DEFINE limit == 3 * Cardinality(Companies)
           listed == OverlayFacts(AccountRows(plan.account.id), None, "current", NoDate, None,
                                [start |-> NoDate, end |-> NoDate, instant |-> NoDate], NoDate, limit)
           P == {j \in DOMAIN listed :
                    \A i \in DOMAIN listed :
                        (FilingOf(listed[i].filing).issuer = FilingOf(listed[j].filing).issuer
                            /\ listed[i] # listed[j]) => FactOrder(listed[j], listed[i])}
           places == Sorted(P, Ascending(P))
<1>1. LatestFacts = [k \in DOMAIN places |-> listed[places[k]]]
  BY DEF LatestFacts, Kept, Ordered, Ascending
<1>2. limit \in Int
  <2> DEFINE issuer == [n \in DOMAIN Filings |-> Filings[n].issuer]
  <2>1. IsFiniteSet(DOMAIN Filings)
    BY DEF CorpusSound
  <2>2. issuer \in Surjection(DOMAIN Filings, Companies)
    BY DEF Surjection, Companies
  <2> HIDE DEF issuer
  <2>3. IsFiniteSet(Companies)
    BY <2>1, <2>2, FS_Surjection
  <2>4. Cardinality(Companies) \in Nat
    BY <2>3, FS_CardinalityType
  <2>5. QED
    BY <2>4
<1>3. P \in SUBSET DOMAIN listed
  OBVIOUS
<1> HIDE DEF P, limit
<1>4. listed \in Seq(FactRows)
  <2>1. AccountRows(plan.account.id) \in SUBSET FinancialRows
    BY DEF AccountRows
  <2>2. QED
    BY <1>2, <2>1, OverlayFactsRows
<1> HIDE DEF listed
<1>5. P \in SUBSET Nat /\ IsFiniteSet(P)
  BY <1>3, <1>4, IndicesFinite
<1>6. Cardinality(P) \in Nat /\ places \in [1 .. Cardinality(P) -> P]
  BY <1>5, PlacesOrdered
<1> HIDE DEF places
<1>7. \A i \in DOMAIN listed : listed[i] \in FactRows
  BY <1>4
<1>8. LatestFacts \in [1 .. Cardinality(P) -> FactRows]
  BY <1>1, <1>3, <1>6, <1>7
<1>9. QED
  BY <1>6, <1>8

-----------------------------------------------------------------------------
(* What search returns                                                      *)

Admissible(id) ==
    /\ id \in DOMAIN Evidence /\ Evidence[id].ok /\ ~Evidence[id].injected
    /\ Evidence[id].format # "pdf"
    /\ OfCompany(Evidence[id].filing, plan.company)
    /\ Admits("hydrate", Evidence[id].filing)
    /\ ~StructuredDomain => FiledAsAsked(Evidence[id].filing)

\* The cache of allowed filings is never stale: what it holds under a search is
\* what that search may see, for the corpus does not change.
CacheSound ==
    \A t \in DOMAIN cache : \A n \in cache[t] : n \in DOMAIN Filings /\ Asked(n, t, "dense")

Searching == pc \in {"search", "texts", "titles", "cut"}

RetrievalInv ==
    /\ CacheSound
    /\ Searching => plan.policy \in Policies /\ plan.latest \in Int
    /\ Searching /\ pc # "search" => /\ facts \in Seq(FactRows)
                                    /\ \A id \in refs : Admissible(id)
    /\ EvidenceAdmissible

LEMMA HydratesOf ==
    ASSUME CorpusSound, NEW n \in DOMAIN Filings, NEW reader \in {"index", "dense", "serving", "overlay", "event"},
           plan.policy \in Policies, Admits(reader, n)
    PROVE  Admits("hydrate", n)
<1>1. FilingOf(n).correction \in BOOLEAN
  BY DEF CorpusSound, FilingOf
<1>2. QED
  BY <1>1, ReaderHydrates DEF Admits, AdmitsAs

\* What the index finds for the text of a question.
LEMMA IndexAdmissible ==
    ASSUME CorpusSound, plan.policy \in Policies, NEW id \in FragmentRefs(IndexRows(TextQuery))
    PROVE  Admissible(id)
<1>1. /\ id \in DOMAIN Evidence /\ Evidence[id].ok /\ Evidence[id].format # "pdf"
      /\ ~Evidence[id].injected /\ Asked(Evidence[id].filing, TextQuery, "index")
  BY DEF FragmentRefs, IndexRows, TextAdmitted
<1>2. /\ OfCompany(Evidence[id].filing, plan.company) /\ FiledAsAsked(Evidence[id].filing)
      /\ Admits("index", Evidence[id].filing)
  BY <1>1 DEF Asked, Filed, TextQuery, FiledAsAsked, Admits
<1>3. Evidence[id].filing \in DOMAIN Filings
  BY <1>1 DEF CorpusSound
<1>4. QED
  BY <1>1, <1>2, <1>3, HydratesOf DEF Admissible

\* What the fall-back search of the corpus finds.
LEMMA CorpusAdmissible ==
    ASSUME CorpusSound, plan.policy \in Policies, NEW id \in FragmentRefs(CorpusRows)
    PROVE  Admissible(id)
<1>1. /\ id \in DOMAIN Evidence /\ Evidence[id].ok /\ Evidence[id].format # "pdf"
      /\ ~Evidence[id].injected /\ OfCompany(Evidence[id].filing, plan.company)
      /\ FiledAsAsked(Evidence[id].filing) /\ Admits("serving", Evidence[id].filing)
  BY DEF FragmentRefs, CorpusRows, TextAdmitted
<1>2. Evidence[id].filing \in DOMAIN Filings
  BY <1>1 DEF CorpusSound
<1>3. QED
  BY <1>1, <1>2, HydratesOf DEF Admissible

LEMMA DenseFilingsAsked ==
    ASSUME CacheSound, NEW t, NEW n \in DenseFilings(t)
    PROVE  n \in DOMAIN Filings /\ Asked(n, t, "dense")
<1>1. CASE t \in DOMAIN cache
  BY <1>1 DEF DenseFilings, CacheSound
<1>2. CASE t \notin DOMAIN cache
  BY <1>2 DEF DenseFilings
<1>3. QED
  BY <1>1, <1>2

\* What is left of the hits of the dense service, whatever they are.
LEMMA DenseAdmissible ==
    ASSUME CacheSound, NEW hits, NEW id \in DenseRefs(hits, TextQuery)
    PROVE  Admissible(id)
<1>1. /\ id \in DOMAIN Evidence /\ Evidence[id].ok /\ Evidence[id].format # "pdf"
      /\ ~Evidence[id].injected /\ Admits("hydrate", Evidence[id].filing)
      /\ Evidence[id].filing \in DenseFilings(TextQuery)
  BY DEF DenseRefs, HydrateAs, TextQuery, Admits, TextAdmitted
<1>2. Asked(Evidence[id].filing, TextQuery, "dense")
  BY <1>1, DenseFilingsAsked
<1>3. OfCompany(Evidence[id].filing, plan.company) /\ FiledAsAsked(Evidence[id].filing)
  BY <1>2 DEF Asked, Filed, TextQuery, FiledAsAsked
<1>4. QED
  BY <1>1, <1>3 DEF Admissible

LEMMA CacheExtended ==
    ASSUME CacheSound, NEW t, cache' = Remembered(t)
    PROVE  CacheSound'
<1>1. ASSUME NEW k \in DOMAIN cache', NEW n \in cache'[k]
      PROVE  n \in DOMAIN Filings /\ Asked(n, k, "dense")
  <2>1. CASE k = t
    BY <1>1, <2>1, DenseFilingsAsked DEF Remembered
  <2>2. CASE k # t
    BY <1>1, <2>2 DEF Remembered, CacheSound
  <2>3. QED
    BY <2>1, <2>2
<1>2. \A n, k : Asked(n, k, "dense")' = Asked(n, k, "dense")
  BY DEF Asked, Filed, AdmitsAs, VersionOf, FilingOf, OfCompany
<1>3. QED
  BY <1>1, <1>2 DEF CacheSound

\* What a cell of the title or of the reporter adds.
LEMMA TitlesAdmissible ==
    ASSUME NEW column, NEW id \in Hydrate(OfDate(column))
    PROVE  Admissible(id)
<1>1. /\ id \in DOMAIN Evidence /\ Evidence[id].ok /\ Evidence[id].format # "pdf"
      /\ ~Evidence[id].injected /\ Admits("hydrate", Evidence[id].filing)
      /\ id \in OfDate(column)
  BY DEF Hydrate, HydrateAs, Admits, TextAdmitted
<1>2. OfCompany(Evidence[id].filing, plan.company) /\ FiledAsAsked(Evidence[id].filing)
  BY <1>1 DEF OfDate
<1>3. QED
  BY <1>1, <1>2 DEF Admissible

\* The evidence of a fact is of the fact's filing, and hydration checks its version.
LEMMA FactsAdmissible ==
    ASSUME CorpusSound, StructuredDomain, NEW f \in FinancialRows \cup EventRows,
           OfCompany(f.filing, plan.company), NEW id \in HydrateAs(f.evidence, plan.policy, plan.asOf)
    PROVE  Admissible(id)
<1>1. /\ id \in f.evidence /\ id \in DOMAIN Evidence /\ Evidence[id].ok
      /\ Evidence[id].format # "pdf" /\ ~Evidence[id].injected
      /\ Admits("hydrate", Evidence[id].filing)
  BY DEF HydrateAs, Admits, TextAdmitted
<1>2. Evidence[id].filing = f.filing
  BY <1>1 DEF CorpusSound
<1>3. QED
  BY <1>1, <1>2 DEF Admissible

-----------------------------------------------------------------------------
(* One step of search after another                                         *)

LEMMA SamePlan ==
    ASSUME plan' = plan, NEW id
    PROVE  Admissible(id)' = Admissible(id)
  BY DEF Admissible, Admits, AdmitsAs, VersionOf, FilingOf, OfCompany, StructuredDomain,
         FiledAsAsked

LEMMA SameCache ==
    ASSUME CacheSound, cache' = cache
    PROVE  CacheSound'
<1>1. \A n, k : Asked(n, k, "dense")' = Asked(n, k, "dense")
  BY DEF Asked, Filed, AdmitsAs, VersionOf, FilingOf, OfCompany
<1>2. QED
  BY <1>1 DEF CacheSound

LEMMA NothingKeeps ==
    ASSUME RetrievalInv, Nothing, cache' = cache
    PROVE  RetrievalInv'
<1>1. pc' = "bundle" /\ bundle' = NoBundle
  BY DEF Nothing, Return
<1>2. EvidenceAdmissible'
  BY <1>1 DEF NoBundle, EvidenceAdmissible, FactsShown
<1>3. CacheSound'
  BY SameCache DEF RetrievalInv
<1>4. ~Searching'
  BY <1>1 DEF Searching
<1>5. QED
  BY <1>2, <1>3, <1>4 DEF RetrievalInv

\* Structured facts: listed of the overlay of the company, with what hydrates of them.
LEMMA SearchFactsKeeps ==
    ASSUME CorpusSound, RetrievalInv, SearchFacts
    PROVE  RetrievalInv'
<1> DEFINE planned == CASE ~OverlayServes -> <<>>
                      [] OverlayServes /\ plan.domain = "financial" -> PlannedFacts
                      [] OverlayServes /\ plan.domain = "event" -> EventFacts
                      [] OTHER -> <<>>
<1>1. /\ pc = "search" /\ plan' = plan /\ cache' = cache /\ bundle' = bundle
      /\ facts' = HydrateFacts(planned, plan.policy, plan.asOf)
      /\ refs' = EvidenceOf(facts') /\ pc' \in {"titles", "texts"}
  BY DEF SearchFacts
<1>2. plan.policy \in Policies /\ plan.latest \in Int
  BY <1>1 DEF RetrievalInv, Searching
<1>3. /\ planned \in Seq(FactRows)
      /\ \A i \in DOMAIN planned : /\ planned[i] \in FinancialRows \cup EventRows
                                 /\ OfCompany(planned[i].filing, plan.company)
                                 /\ StructuredDomain
  <2>1. CASE ~OverlayServes
    BY <2>1
  <2>2. CASE OverlayServes /\ plan.domain = "financial"
    BY <1>2, <2>2, PlannedFactsRows DEF StructuredDomain
  <2>3. CASE OverlayServes /\ plan.domain = "event"
    <3>1. planned = EventFacts
      BY <2>3
    <3>2. QED
      BY <2>3, <3>1, EventFactsRows DEF StructuredDomain
  <2>4. CASE OverlayServes /\ plan.domain \notin {"financial", "event"}
    BY <2>4
  <2>5. QED
    BY <2>1, <2>2, <2>3, <2>4
<1> HIDE DEF planned
<1>4. /\ facts' \in Seq(FactRows)
      /\ \A k \in DOMAIN facts' : \E i \in DOMAIN planned :
            facts'[k] = [planned[i] EXCEPT !.evidence = HydrateAs(@, plan.policy, plan.asOf)]
  BY <1>1, <1>3, HydratedRows
<1>5. \A id \in refs' : Admissible(id)
  <2> SUFFICES ASSUME NEW id \in refs' PROVE Admissible(id)
    OBVIOUS
  <2>1. PICK k \in DOMAIN facts' : id \in facts'[k].evidence
    BY <1>1 DEF EvidenceOf
  <2>2. PICK i \in DOMAIN planned :
            facts'[k] = [planned[i] EXCEPT !.evidence = HydrateAs(@, plan.policy, plan.asOf)]
    BY <1>4
  <2>3. planned[i] \in FactRows
    BY <1>3
  <2>4. facts'[k].evidence = HydrateAs(planned[i].evidence, plan.policy, plan.asOf)
    BY <2>2, <2>3 DEF FactRows
  <2>5. QED
    BY <1>3, <2>1, <2>4, FactsAdmissible
<1>6. \A id \in refs' : Admissible(id)'
  BY <1>1, <1>5, SamePlan
<1>7. CacheSound'
  BY <1>1, SameCache DEF RetrievalInv
<1>8. EvidenceAdmissible'
  BY <1>1 DEF EvidenceAdmissible, FactsShown
<1>9. QED
  BY <1>1, <1>2, <1>4, <1>6, <1>7, <1>8 DEF RetrievalInv

\* Texts, of the index and of the dense service.
LEMMA SearchIndexedKeeps ==
    ASSUME CorpusSound, RetrievalInv, SearchIndexed
    PROVE  RetrievalInv'
<1>1. pc = "texts" /\ pc' = "titles" /\ plan' = plan /\ facts' = facts /\ bundle' = bundle
  BY DEF SearchIndexed
<1>2. /\ CacheSound /\ plan.policy \in Policies /\ plan.latest \in Int
      /\ facts \in Seq(FactRows) /\ \A id \in refs : Admissible(id)
  BY <1>1 DEF RetrievalInv, Searching
<1>3. \A id \in refs' : \/ id \in refs \/ id \in FragmentRefs(IndexRows(TextQuery))
                        \/ \E hits \in SUBSET Hits : id \in DenseRefs(hits, TextQuery)
  BY DEF SearchIndexed
<1>4. \A id \in refs' : Admissible(id)
  BY <1>2, <1>3, IndexAdmissible, DenseAdmissible
<1>5. \A id \in refs' : Admissible(id)'
  BY <1>1, <1>4, SamePlan
<1>6. cache' = cache \/ cache' = Remembered(TextQuery)
  BY DEF SearchIndexed
<1>7. CacheSound'
  BY <1>2, <1>6, SameCache, CacheExtended
<1>8. EvidenceAdmissible'
  BY <1>1 DEF EvidenceAdmissible, FactsShown
<1>9. QED
  BY <1>1, <1>2, <1>5, <1>7, <1>8 DEF RetrievalInv

\* Texts of the corpus itself.
LEMMA SearchCorpusKeeps ==
    ASSUME CorpusSound, RetrievalInv, SearchCorpus
    PROVE  RetrievalInv'
<1>1. /\ pc = "texts" /\ pc' = "titles" /\ plan' = plan /\ facts' = facts /\ bundle' = bundle
      /\ cache' = cache
  BY DEF SearchCorpus
<1>2. /\ CacheSound /\ plan.policy \in Policies /\ plan.latest \in Int
      /\ facts \in Seq(FactRows) /\ \A id \in refs : Admissible(id)
  BY <1>1 DEF RetrievalInv, Searching
<1>3. \A id \in refs' : id \in refs \/ id \in FragmentRefs(CorpusRows)
  BY DEF SearchCorpus
<1>4. \A id \in refs' : Admissible(id)
  BY <1>2, <1>3, CorpusAdmissible
<1>5. \A id \in refs' : Admissible(id)'
  BY <1>1, <1>4, SamePlan
<1>6. CacheSound'
  BY <1>1, <1>2, SameCache
<1>7. EvidenceAdmissible'
  BY <1>1 DEF EvidenceAdmissible, FactsShown
<1>8. QED
  BY <1>1, <1>2, <1>5, <1>6, <1>7 DEF RetrievalInv

LEMMA AddTitlesKeeps ==
    ASSUME RetrievalInv, AddTitles
    PROVE  RetrievalInv'
<1>1. /\ pc = "titles" /\ pc' = "cut" /\ plan' = plan /\ facts' = facts /\ bundle' = bundle
      /\ cache' = cache
  BY DEF AddTitles
<1>2. /\ CacheSound /\ plan.policy \in Policies /\ plan.latest \in Int
      /\ facts \in Seq(FactRows) /\ \A id \in refs : Admissible(id)
  BY <1>1 DEF RetrievalInv, Searching
<1>3. \A id \in refs' : \/ id \in refs \/ id \in Hydrate(OfDate("title"))
                        \/ id \in Hydrate(OfDate("reporter"))
  BY DEF AddTitles, TitleRefs, ReporterRefs
<1>4. \A id \in refs' : Admissible(id)
  BY <1>2, <1>3, TitlesAdmissible
<1>5. \A id \in refs' : Admissible(id)'
  BY <1>1, <1>4, SamePlan
<1>6. CacheSound'
  BY <1>1, <1>2, SameCache
<1>7. EvidenceAdmissible'
  BY <1>1 DEF EvidenceAdmissible, FactsShown
<1>8. QED
  BY <1>1, <1>2, <1>5, <1>6, <1>7 DEF RetrievalInv

\* What is left after the reranker and the limit.
LEMMA CutKeeps ==
    ASSUME RetrievalInv, Cut
    PROVE  RetrievalInv'
<1>1. /\ pc = "cut" /\ pc' = "bundle" /\ plan' = plan /\ cache' = cache
      /\ \E final \in SUBSET refs :
            bundle'.evidence = final /\ bundle'.facts = WithFinalEvidence(facts, final)
  BY DEF Cut, Return
<1>2. CacheSound /\ facts \in Seq(FactRows) /\ \A id \in refs : Admissible(id)
  BY <1>1 DEF RetrievalInv, Searching
<1>3. PICK final \in SUBSET refs :
            bundle'.evidence = final /\ bundle'.facts = WithFinalEvidence(facts, final)
  BY <1>1
<1>4. \A id \in bundle'.evidence : Admissible(id)'
  BY <1>1, <1>2, <1>3, SamePlan
<1> DEFINE out == WithFinalEvidence(facts, final)
<1>5. \A k \in DOMAIN out : out[k].evidence # {} /\ out[k].evidence \subseteq final
  <2> SUFFICES ASSUME NEW k \in DOMAIN out
               PROVE  out[k].evidence # {} /\ out[k].evidence \subseteq final
    OBVIOUS
  <2>1. out[k].evidence # {}
    BY <1>2, FinalRows
  <2>2. PICK i \in DOMAIN facts : out[k] = [facts[i] EXCEPT !.evidence = @ \cap final]
    BY <1>2, FinalRows
  <2>3. facts[i] \in FactRows
    BY <1>2
  <2>4. out[k].evidence = facts[i].evidence \cap final
    BY <2>2, <2>3 DEF FactRows
  <2>5. QED
    BY <2>1, <2>4
<1> HIDE DEF out
<1>6. FactsShown'
  BY <1>3, <1>5 DEF FactsShown, out
<1>7. EvidenceAdmissible'
  BY <1>4, <1>6 DEF Admissible, EvidenceAdmissible
<1>8. CacheSound'
  BY <1>1, <1>2, SameCache
<1>9. QED
  BY <1>1, <1>7, <1>8 DEF RetrievalInv, Searching

\* A question about all companies.
LEMMA CorpusFinancialKeeps ==
    ASSUME CorpusSound, RetrievalInv, SearchCorpusFinancial
    PROVE  RetrievalInv'
<1> DEFINE listed == HydrateFacts(LatestFacts, "current", NoDate)
<1>1. /\ plan.operation \in CorpusWide /\ pc' = "bundle" /\ plan' = plan /\ cache' = cache
      /\ \/ bundle' = NoBundle
         \/ bundle'.facts = listed /\ bundle'.evidence = EvidenceOf(listed)
  BY DEF SearchCorpusFinancial, Return, Nothing
<1>2. \A k \in DOMAIN listed : listed[k].evidence # {}
  BY LatestFactsRows, HydratedRows
<1> HIDE DEF listed
<1>3. \A k \in DOMAIN listed : listed[k].evidence \subseteq EvidenceOf(listed)
  BY DEF EvidenceOf
<1>4. FactsShown'
  BY <1>1, <1>2, <1>3 DEF FactsShown, NoBundle
<1>5. EvidenceAdmissible'
  BY <1>1, <1>4 DEF EvidenceAdmissible
<1>6. CacheSound'
  BY <1>1, SameCache DEF RetrievalInv
<1>7. QED
  BY <1>1, <1>4, <1>5, <1>6 DEF RetrievalInv, Searching

LEMMA SearchKeeps ==
    ASSUME CorpusSound, RetrievalInv, Search
    PROVE  RetrievalInv'
<1>1. CASE IdentityLost \/ Refuse
  BY <1>1, NothingKeeps DEF IdentityLost, Refuse
<1>2. CASE SearchFacts
  BY <1>2, SearchFactsKeeps
<1>3. CASE SearchIndexed
  BY <1>3, SearchIndexedKeeps
<1>4. CASE SearchCorpus
  BY <1>4, SearchCorpusKeeps
<1>5. CASE AddTitles
  BY <1>5, AddTitlesKeeps
<1>6. CASE Cut
  BY <1>6, CutKeeps
<1>7. CASE SearchCorpusFinancial
  BY <1>7, CorpusFinancialKeeps
<1>8. QED
  BY <1>1, <1>2, <1>3, <1>4, <1>5, <1>6, <1>7 DEF Search

-----------------------------------------------------------------------------
(* The agent                                                                *)

LEMMA LargestOfThree ==
    ASSUME NEW a \in Int, NEW b \in Int, NEW c \in Int
    PROVE  Max({a, b, c}) \in Int
<1>1. \E x \in {a, b, c} : \A y \in {a, b, c} : x >= y
  <2>1. CASE a >= b /\ a >= c
    BY <2>1
  <2>2. CASE b >= a /\ b >= c
    BY <2>2
  <2>3. CASE c >= a /\ c >= b
    BY <2>3
  <2>4. QED
    BY <2>1, <2>2, <2>3
<1>2. QED
  BY <1>1 DEF Max

LEMMA LengthOfList ==
    ASSUME NEW n \in Nat, NEW T, NEW list \in [1 .. n -> T]
    PROVE  Len(list) = n
  OBVIOUS

\* A question asks for a number of periods.
LEMMA PeriodsCounted ==
    ASSUME NEW q, PeriodsSound(q)
    PROVE  Len(TargetPeriods(q)) \in Nat
<1> DEFINE first == [date |-> q.date, month |-> Has(q, "month")]
           dates == <<first>> \o q.more
           years == Ordered(q.years, <)
           one == [start |-> Period(q).start, end |-> Period(q).end, instant |-> Period(q).instant]
           ofDates == [i \in DOMAIN dates |-> DatePeriod(q, dates[i])]
           ofYears == [i \in DOMAIN years |-> YearPeriod(years[i])]
<1>1. TargetPeriods(q) = IF q.more # <<>> THEN ofDates
                         ELSE IF Cardinality(q.years) > 1 /\ q.date = NoTime THEN ofYears
                         ELSE IF one.start = NoTime /\ one.end = NoTime /\ one.instant = NoTime
                         THEN <<>> ELSE <<one>>
  BY Zenon DEF TargetPeriods
<1>2. Len(ofDates) \in Nat
  <2> DEFINE D == [date : Nat, month : BOOLEAN]
             T == {first} \cup D
             n == Len(dates)
  <2> HIDE DEF first, D
  <2>1. q.more \in Seq(D)
    BY DEF PeriodsSound, D
  <2>2. dates \in Seq(T)
    <3>1. q.more \in Seq(T)
      BY <2>1
    <3>2. <<first>> \in Seq(T)
      OBVIOUS
    <3>3. QED
      BY <3>1, <3>2
  <2>3. n \in Nat /\ DOMAIN dates = 1 .. n
    BY <2>2
  <2>4. ofDates \in [1 .. n -> {DatePeriod(q, dates[i]) : i \in 1 .. n}]
    BY <2>3
  <2> HIDE DEF n, ofDates
  <2>5. QED
    BY <2>3, <2>4, LengthOfList
<1>3. Len(ofYears) \in Nat
  <2> DEFINE n == Cardinality(q.years)
  <2>1. n \in Nat /\ DOMAIN years = 1 .. n
    BY FS_CardinalityType DEF PeriodsSound, Ordered, Sorted
  <2> HIDE DEF years
  <2>2. ofYears \in [1 .. n -> {YearPeriod(years[i]) : i \in 1 .. n}]
    BY <2>1
  <2> HIDE DEF n, ofYears
  <2>3. QED
    BY <2>1, <2>2, LengthOfList
<1>4. Len(<<>>) \in Nat /\ Len(<<one>>) \in Nat
  OBVIOUS
<1> HIDE DEF ofDates, ofYears, one
<1>5. QED
  BY <1>1, <1>2, <1>3, <1>4

\* A plan asks for one of the four policies, for a number of periods and no label.
LEMMA PlansSound ==
    ASSUME NEW q, PeriodsSound(q)
    PROVE  /\ PlanOf(q).policy \in Policies /\ PlanOf(q).latest \in Int
           /\ PlanOf(q).label = None
<1>1. Policy(q) \in Policies
  BY DEF Policy, Policies
<1>3. Len(TargetPeriods(q)) \in Int
  BY PeriodsCounted
<1> DEFINE least == IF Has(q, "three_years") THEN 3 ELSE 1
           pair == IF Operation(q) = "growth_rate" THEN 2 ELSE 1
<1>4. least \in Int /\ pair \in Int
  OBVIOUS
<1>5. LatestPeriodCount(q) = Max({least, Len(TargetPeriods(q)), pair})
  BY DEF LatestPeriodCount
<1> HIDE DEF least, pair
<1>6. LatestPeriodCount(q) \in Int
  BY <1>3, <1>4, <1>5, LargestOfThree
<1>7. QED
  BY <1>1, <1>6 DEF PlanOf

LEMMA AskKeeps ==
    ASSUME QuestionsSound, RetrievalInv, NEW q \in Questions, Ask(q)
    PROVE  RetrievalInv'
<1>1. plan' = PlanOf(q) /\ pc' \in {"done", "search"} /\ cache' = cache
  BY DEF Ask
<1>2. plan'.policy \in Policies /\ plan'.latest \in Int
  BY <1>1, PlansSound DEF QuestionsSound
<1>3. CacheSound'
  BY <1>1, SameCache DEF RetrievalInv
<1>4. EvidenceAdmissible'
  BY <1>1 DEF EvidenceAdmissible, FactsShown
<1>5. QED
  BY <1>1, <1>2, <1>3, <1>4 DEF RetrievalInv, Searching

\* The steps after the search, and the next question, leave no bundle to return.
LEMMA AnsweringKeeps ==
    ASSUME RetrievalInv, AttachCalculation \/ Generate \/ Verify \/ NextQuestion
    PROVE  RetrievalInv'
<1>1. pc' \in {"generate", "verify", "done", "idle"} /\ cache' = cache
  BY DEF AttachCalculation, Generate, Verify, NextQuestion
<1>2. CacheSound'
  BY <1>1, SameCache DEF RetrievalInv
<1>3. EvidenceAdmissible'
  BY <1>1 DEF EvidenceAdmissible, FactsShown
<1>4. QED
  BY <1>1, <1>2, <1>3 DEF RetrievalInv, Searching

LEMMA SameRetrieval ==
    ASSUME RetrievalInv, plan' = plan, pc' = pc, refs' = refs, facts' = facts, cache' = cache,
           bundle' = bundle
    PROVE  RetrievalInv'
<1>1. /\ plan' = plan /\ pc' = pc /\ refs' = refs /\ facts' = facts /\ cache' = cache
      /\ bundle' = bundle
  OBVIOUS
<1>2. CacheSound'
  BY <1>1, SameCache DEF RetrievalInv
<1>3. Searching' /\ pc' # "search" => facts' \in Seq(FactRows) /\ \A id \in refs' : Admissible(id)'
  BY <1>1, SamePlan DEF RetrievalInv, Searching
<1>4. EvidenceAdmissible'
  BY <1>1 DEF RetrievalInv, EvidenceAdmissible, FactsShown, StructuredDomain, Admits, AdmitsAs,
              VersionOf, FilingOf, OfCompany, FiledAsAsked
<1>5. Searching' => plan'.policy \in Policies /\ plan'.latest \in Int
  BY <1>1 DEF RetrievalInv, Searching
<1>6. QED
  BY <1>2, <1>3, <1>4, <1>5 DEF RetrievalInv

LEMMA RetrievalStarts ==
    ASSUME AgentInit
    PROVE  RetrievalInv
  BY DEF AgentInit, RetrievalInv, CacheSound, Searching, EvidenceAdmissible, FactsShown

\* Whatever the index, the dense service and the reranker return, over any number of
\* questions of any plan and with the filings cached between them: search returns
\* evidence of the company and version asked for and nothing that looks like an
\* instruction, and facts each shown with some of it.
THEOREM EvidenceIsAdmissible ==
    CorpusSound /\ QuestionsSound /\ AgentSpec => []EvidenceAdmissible
<1> SUFFICES ASSUME CorpusSound, QuestionsSound
             PROVE  AgentSpec => []EvidenceAdmissible
  OBVIOUS
<1>1. AgentInit => RetrievalInv
  BY RetrievalStarts
<1>2. RetrievalInv /\ [AgentNext]_agentVars => RetrievalInv'
  <2> SUFFICES ASSUME RetrievalInv, [AgentNext]_agentVars PROVE RetrievalInv'
    OBVIOUS
  <2>1. CASE \E q \in Questions : Ask(q)
    BY <2>1, AskKeeps
  <2>2. CASE Retrieve
    BY <2>2, SearchKeeps DEF Retrieve
  <2>3. CASE AttachCalculation \/ Generate \/ Verify \/ NextQuestion
    BY <2>3, AnsweringKeeps
  <2>4. CASE UNCHANGED agentVars
    BY <2>4, SameRetrieval DEF agentVars, retrievalVars
  <2>5. QED
    BY <2>1, <2>2, <2>3, <2>4 DEF AgentNext
<1>3. RetrievalInv => EvidenceAdmissible
  BY DEF RetrievalInv
<1>4. QED
  BY <1>1, <1>2, <1>3, PTL DEF AgentSpec

-----------------------------------------------------------------------------
(* The facts of a search are of the overlay                                 *)

\* A fact, or what hydration left of one, is of the overlay.
OfOverlay(f) ==
    \E g \in FinancialRows :
        /\ g.account = f.account /\ PeriodOf(g) = PeriodOf(f) /\ f.evidence \subseteq g.evidence

LEMMA TrimmedOfOverlay ==
    ASSUME NEW f \in FactRows, OfOverlay(f), NEW ids \in SUBSET f.evidence
    PROVE  OfOverlay([f EXCEPT !.evidence = ids])
<1> DEFINE h == [f EXCEPT !.evidence = ids]
<1>1. PICK g \in FinancialRows :
          g.account = f.account /\ PeriodOf(g) = PeriodOf(f) /\ f.evidence \subseteq g.evidence
  BY DEF OfOverlay
<1>2. /\ h.account = f.account /\ h.start = f.start /\ h.end = f.end /\ h.instant = f.instant
      /\ h.evidence = ids
  BY DEF FactRows
<1>3. PeriodOf(h) = PeriodOf(f)
  BY <1>2 DEF PeriodOf
<1>4. g.account = h.account /\ PeriodOf(g) = PeriodOf(h) /\ h.evidence \subseteq g.evidence
  BY <1>1, <1>2, <1>3
<1> HIDE DEF h
<1>5. OfOverlay(h)
  BY <1>4 DEF OfOverlay
<1>6. QED
  BY <1>5 DEF h

\* Rows are what is left of facts of the overlay, of the company and, but for a search
\* by label, of one account, each of another fact.
FromOverlay(list) ==
    /\ list \in Seq(FactRows)
    /\ \A k \in DOMAIN list : \E f \in FinancialRows :
            OfCompany(f.filing, plan.company) /\ LeftOf(list[k], f)
    /\ \A j, k \in DOMAIN list : j < k => list[j].id # list[k].id
    /\ plan.label = None => \A j, k \in DOMAIN list : list[j].account = list[k].account

\* Except of an event, the facts of a search are of the overlay.
FactsOfOverlay ==
    plan.operation \notin CorpusWide =>
        /\ (pc \in {"texts", "titles", "cut"} /\ plan.domain # "event") => FromOverlay(facts)
        /\ pc = "bundle" => /\ bundle.facts \in Seq(FactRows)
                            /\ plan.domain # "event" => FromOverlay(bundle.facts)

LEMMA FromOverlayOfOverlay ==
    ASSUME CorpusSound, NEW list, FromOverlay(list), NEW k \in DOMAIN list
    PROVE  OfOverlay(list[k])
<1>1. PICK f \in FinancialRows : LeftOf(list[k], f)
  BY DEF FromOverlay
<1>2. list[k] \in FactRows /\ f \in FactRows
  BY DEF FromOverlay, CorpusSound
<1>3. /\ list[k].account = f.account /\ list[k].start = f.start /\ list[k].end = f.end
      /\ list[k].instant = f.instant /\ list[k].evidence \subseteq f.evidence
  BY <1>1, <1>2, LeftSays
<1>4. PeriodOf(f) = PeriodOf(list[k])
  BY <1>3 DEF PeriodOf
<1>5. QED
  BY <1>3, <1>4 DEF OfOverlay

\* What is left of facts of the overlay is of the overlay.
LEMMA LeftFromOverlay ==
    ASSUME CorpusSound, NEW listed, FromOverlay(listed), NEW list \in Seq(FactRows),
           LeftIn(list, listed)
    PROVE  FromOverlay(list)
<1>1. PICK place \in [DOMAIN list -> DOMAIN listed] :
          /\ \A j, k \in DOMAIN list : j < k => place[j] < place[k]
          /\ \A k \in DOMAIN list : LeftOf(list[k], listed[place[k]])
  BY DEF LeftIn
<1>2. \A k \in DOMAIN list : list[k] \in FactRows /\ place[k] \in DOMAIN listed
                             /\ listed[place[k]] \in FactRows
  BY DEF FromOverlay
<1>3. \A k \in DOMAIN list : /\ list[k].id = listed[place[k]].id
                            /\ list[k].account = listed[place[k]].account
  BY <1>1, <1>2, LeftSays
<1>4. ASSUME NEW k \in DOMAIN list
      PROVE  \E f \in FinancialRows : OfCompany(f.filing, plan.company) /\ LeftOf(list[k], f)
  <2>1. PICK f \in FinancialRows :
            OfCompany(f.filing, plan.company) /\ LeftOf(listed[place[k]], f)
    BY <1>2 DEF FromOverlay
  <2>2. f \in FactRows
    BY DEF CorpusSound
  <2>3. LeftOf(list[k], f)
    BY <1>1, <1>2, <2>1, <2>2, LeftOfLeft
  <2>4. QED
    BY <2>1, <2>3
<1>5. ASSUME NEW j \in DOMAIN list, NEW k \in DOMAIN list, j < k PROVE list[j].id # list[k].id
  <2>1. place[j] < place[k] /\ place[j] \in DOMAIN listed /\ place[k] \in DOMAIN listed
    BY <1>1, <1>2, <1>5
  <2>2. listed[place[j]].id # listed[place[k]].id
    BY <2>1 DEF FromOverlay
  <2>3. QED
    BY <1>3, <2>2
<1>6. plan.label = None => \A j, k \in DOMAIN list : list[j].account = list[k].account
  BY <1>2, <1>3 DEF FromOverlay
<1>7. QED
  BY <1>4, <1>5, <1>6 DEF FromOverlay

LEMMA PlannedFromOverlay ==
    ASSUME CorpusSound, plan.latest \in Int
    PROVE  FromOverlay(PlannedFacts)
<1> DEFINE list == PlannedFacts
<1>1. /\ list \in Seq(FactRows)
      /\ \A k \in DOMAIN list : list[k] \in FinancialRows /\ OfCompany(list[k].filing, plan.company)
      /\ plan.label = None => \A j, k \in DOMAIN list : list[j].account = list[k].account
      /\ \A j, k \in DOMAIN list : j < k => FactOrder(list[j], list[k])
  BY PlannedFactsRows
<1> HIDE DEF list
<1>2. \A k \in DOMAIN list : LeftOf(list[k], list[k])
  <2>1. \A f \in FactRows : LeftOf(f, f)
    BY DEF LeftOf, FactRows
  <2>2. \A k \in DOMAIN list : list[k] \in FactRows
    BY <1>1
  <2>3. QED
    BY <2>1, <2>2
<1>3. \A f, g \in FinancialRows : FactOrder(f, g) => f.id # g.id
  <2> SUFFICES ASSUME NEW f \in FinancialRows, NEW g \in FinancialRows, f.id = g.id, FactOrder(f, g)
               PROVE  FALSE
    OBVIOUS
  <2>1. f = g
    BY DEF CorpusSound
  <2>2. f \in FactRows
    BY DEF CorpusSound
  <2>3. f.id \in Nat /\ DateOf(f) \in Nat /\ ScopeRank(f) \in Nat
    BY <2>2 DEF FactRows, DateOf, ScopeRank
  <2>4. QED
    BY <2>1, <2>3 DEF FactOrder
<1>4. \A j, k \in DOMAIN list : j < k => list[j].id # list[k].id
  BY <1>1, <1>3
<1>5. FromOverlay(list)
  BY <1>1, <1>2, <1>4 DEF FromOverlay
<1>6. QED
  BY <1>5 DEF list

LEMMA SearchFactsFromOverlay ==
    ASSUME CorpusSound, RetrievalInv, SearchFacts, plan.domain # "event"
    PROVE  FromOverlay(facts')
<1> DEFINE planned == CASE ~OverlayServes -> <<>>
                        [] OverlayServes /\ plan.domain = "financial" -> PlannedFacts
                        [] OverlayServes /\ plan.domain = "event" -> EventFacts
                        [] OTHER -> <<>>
<1>1. pc = "search" /\ facts' = HydrateFacts(planned, plan.policy, plan.asOf)
  BY DEF SearchFacts
<1>2. plan.latest \in Int
  BY <1>1 DEF RetrievalInv, Searching
<1>3. planned = <<>> \/ planned = PlannedFacts
  OBVIOUS
<1> HIDE DEF planned
<1>4. FromOverlay(<<>>)
  BY DEF FromOverlay
<1>5. FromOverlay(planned)
  BY <1>2, <1>3, <1>4, PlannedFromOverlay
<1>6. planned \in Seq(FactRows)
  BY <1>5 DEF FromOverlay
<1>7. facts' \in Seq(FactRows) /\ LeftIn(facts', planned)
  BY <1>1, <1>6, HydratedRows, HydratedLeft
<1>8. QED
  BY <1>5, <1>7, LeftFromOverlay

LEMMA SearchKeepsFactsOfOverlay ==
    ASSUME CorpusSound, RetrievalInv, FactsOfOverlay, Search
    PROVE  FactsOfOverlay'
<1>1. plan' = plan
  BY DEF Search, IdentityLost, Refuse, SearchFacts, SearchIndexed, SearchCorpus, AddTitles, Cut,
         SearchCorpusFinancial
<1> SUFFICES ASSUME plan.operation \notin CorpusWide
             PROVE  /\ (pc' \in {"texts", "titles", "cut"} /\ plan.domain # "event") =>
                            FromOverlay(facts')
                    /\ pc' = "bundle" => /\ bundle'.facts \in Seq(FactRows)
                                         /\ plan.domain # "event" => FromOverlay(bundle'.facts)
  BY <1>1 DEF FactsOfOverlay, FromOverlay, OfCompany, FilingOf
<1>2. CASE IdentityLost \/ Refuse
  <2>1. pc' = "bundle" /\ bundle'.facts = <<>>
    BY <1>2 DEF IdentityLost, Refuse, Nothing, Return, NoBundle
  <2>2. <<>> \in Seq(FactRows) /\ FromOverlay(<<>>)
    BY DEF FromOverlay
  <2>3. QED
    BY <2>1, <2>2
<1>3. CASE SearchFacts
  <2>1. pc' \in {"titles", "texts"}
    BY <1>3 DEF SearchFacts
  <2>2. QED
    BY <1>1, <1>3, <2>1, SearchFactsFromOverlay
<1>4. CASE SearchIndexed \/ SearchCorpus \/ AddTitles
  <2>1. facts' = facts /\ pc \in {"texts", "titles"} /\ pc' \in {"titles", "cut"}
    BY <1>4 DEF SearchIndexed, SearchCorpus, AddTitles
  <2>2. QED
    BY <1>1, <2>1 DEF FactsOfOverlay
<1>5. CASE Cut
  <2>1. /\ pc = "cut" /\ pc' = "bundle"
        /\ \E final \in SUBSET refs : bundle'.facts = WithFinalEvidence(facts, final)
    BY <1>5 DEF Cut, Return
  <2>2. PICK final \in SUBSET refs : bundle'.facts = WithFinalEvidence(facts, final)
    BY <2>1
  <2>3. facts \in Seq(FactRows) /\ (plan.domain # "event" => FromOverlay(facts))
    BY <1>1, <2>1 DEF RetrievalInv, Searching, FactsOfOverlay
  <2>4. /\ WithFinalEvidence(facts, final) \in Seq(FactRows)
        /\ LeftIn(WithFinalEvidence(facts, final), facts)
    BY <2>3, FinalRows, FinalLeft
  <2>5. QED
    BY <2>1, <2>2, <2>3, <2>4, LeftFromOverlay
<1>6. CASE SearchCorpusFinancial
  BY <1>1, <1>6 DEF SearchCorpusFinancial
<1>7. QED
  BY <1>2, <1>3, <1>4, <1>5, <1>6 DEF Search

-----------------------------------------------------------------------------
(* The bounded analysis                                                     *)

\* What a slot of an analysis may hold.
FitsSlot(id, slot, base) ==
    /\ id \in DOMAIN Evidence /\ Evidence[id].ok /\ TextAdmitted(id)
    /\ OfCompany(Evidence[id].filing, IF slot.issuer = None THEN base.company ELSE slot.issuer)
    /\ AdmitsAs("hydrate", Evidence[id].filing, base.policy, base.asOf)

SlotFact(f, slot) ==
    f \in FactRows /\ f.evidence # {} /\ (slot.domain = "financial" => OfOverlay(f))

SlotFilled(result, slot, base) ==
    /\ \A id \in result.refs : FitsSlot(id, slot, base)
    /\ \A f \in result.facts : SlotFact(f, slot) /\ f.evidence \subseteq result.refs
    /\ result.complete => PeriodsComplete(slot, result.facts)

ResultRows == [refs : SUBSET DOMAIN Evidence, facts : SUBSET FactRows, complete : BOOLEAN]

ResultsInv ==
    /\ results \in Seq(ResultRows) /\ Len(results) <= Len(analysis.slots)
    /\ \A i \in DOMAIN results : SlotFilled(results[i], analysis.slots[i], analysis.base)
    /\ Cardinality(Admitted) <= TotalLimit

\* The slot in hand: what its searches found fits it, and the plan in hand is its own.
SlotInv ==
    pc \in {"concept", "search", "texts", "titles", "cut", "bundle"} =>
        /\ Len(results) < Len(analysis.slots)
        /\ \A id \in found : FitsSlot(id, Slot, analysis.base)
        /\ \A f \in rows : SlotFact(f, Slot)
        /\ pc # "concept" =>
            /\ plan.company = IssuerOf(Slot) /\ plan.operation \notin CorpusWide
            /\ plan.policy = analysis.base.policy /\ plan.asOf = analysis.base.asOf
            /\ Slot.domain = "financial" => plan.domain # "event"

Planned == \E q \in Judgments : analysis = AnalysisOf(q)

PeriodsRead(account, ids) ==
    {PeriodOf(f) : f \in {g \in FinancialRows : g.account = account /\ g.evidence \cap ids # {}}}

\* What AnalysisComplete asks of a mandatory slot.
Shows(slot, shown, accounts, base) ==
    /\ Cardinality(shown) >= slot.least
    /\ \A id \in shown :
        /\ Evidence[id].ok /\ TextAdmitted(id)
        /\ OfCompany(Evidence[id].filing, slot.issuer)
        /\ AdmitsAs("hydrate", Evidence[id].filing, base.policy, base.asOf)
    /\ (slot.domain = "financial" /\ slot.periods > 1) =>
        \E account \in accounts : Cardinality(PeriodsRead(account, shown)) >= slot.periods

SlotsShown ==
    verdict.complete =>
        /\ Cardinality(verdict.evidence) <= TotalLimit
        /\ \A i \in DOMAIN analysis.slots : analysis.slots[i].mandatory =>
            Shows(analysis.slots[i], verdict.slots[i].refs \cap verdict.evidence,
                  {f.account : f \in AllFacts}, analysis.base)

JudgeInv ==
    /\ pc \in {"idle", "slots", "judged", "concept", "search", "texts", "titles", "cut", "bundle"}
    /\ IF pc = "idle" THEN results = <<>> ELSE Planned /\ ResultsInv
    /\ SlotInv
    /\ RetrievalInv /\ FactsOfOverlay
    /\ pc # "judged" => ~verdict.complete
    /\ SlotsShown

LEMMA SlotsShownSaysComplete ==
    SlotsShown => AnalysisComplete
  BY DEF SlotsShown, AnalysisComplete, Shows, PeriodsRead

\* An analysis is planned for the policy and date of its question.
LEMMA AnalysisSound ==
    ASSUME JudgmentsSound, Planned
    PROVE  /\ analysis.slots \in Seq(SlotRows) /\ analysis.most \in Nat
           /\ analysis.base.policy \in Policies /\ analysis.base.latest \in Int
<1>1. PICK q \in Judgments : analysis = AnalysisOf(q)
  BY DEF Planned
<1>2. PeriodsSound(q)
  BY DEF JudgmentsSound
<1>3. PlanOf(q).policy \in Policies /\ PlanOf(q).latest \in Int
  BY <1>2, PlansSound
<1>4. analysis.base = PlanOf(q)
  BY <1>1 DEF AnalysisOf
<1>5. QED
  BY <1>1, <1>3, <1>4 DEF JudgmentsSound

LEMMA TotalIsNat ==
    ASSUME JudgmentsSound, analysis.most \in Nat
    PROVE  TotalLimit \in Nat
  BY DEF JudgmentsSound, TotalLimit, Least2

\* Texts found for a slot.
LEMMA TextsFit ==
    ASSUME CacheSound, NEW id,
           \/ id \in HydrateAs(IndexRows(SlotQuery), SlotQuery.policy, SlotQuery.asOf)
           \/ \E hits \in SUBSET Hits : id \in DenseRefs(hits, SlotQuery)
    PROVE  FitsSlot(id, Slot, analysis.base)
<1> DEFINE t == SlotQuery
<1>1. t.company = IssuerOf(Slot) /\ t.policy = analysis.base.policy /\ t.asOf = analysis.base.asOf
  BY DEF SlotQuery
<1> HIDE DEF t
<1>2. /\ id \in DOMAIN Evidence /\ Evidence[id].ok /\ TextAdmitted(id)
      /\ AdmitsAs("hydrate", Evidence[id].filing, t.policy, t.asOf)
  BY DEF HydrateAs, DenseRefs, t
<1>3. OfCompany(Evidence[id].filing, t.company)
  <2>1. CASE id \in HydrateAs(IndexRows(t), t.policy, t.asOf)
    BY <2>1 DEF HydrateAs, IndexRows, Asked
  <2>2. CASE \E hits \in SUBSET Hits : id \in DenseRefs(hits, t)
    <3>1. Evidence[id].filing \in DenseFilings(t)
      BY <2>2 DEF DenseRefs
    <3>2. QED
      BY <3>1, DenseFilingsAsked DEF Asked
  <2>3. QED
    BY <2>1, <2>2 DEF t
<1>4. QED
  BY <1>1, <1>2, <1>3 DEF FitsSlot, IssuerOf

\* The facts of a slot, with the evidence that was kept.
LEMMA KeptFacts ==
    ASSUME NEW slot, NEW all, \A f \in all : SlotFact(f, slot), NEW ids, NEW h \in FactsWith(all, ids)
    PROVE  SlotFact(h, slot) /\ h.evidence \subseteq ids
<1>1. PICK g \in all : h = [g EXCEPT !.evidence = @ \cap ids]
  BY DEF FactsWith
<1>2. h.evidence # {}
  BY DEF FactsWith
<1>3. g \in FactRows /\ (slot.domain = "financial" => OfOverlay(g))
  BY DEF SlotFact
<1>4. h \in FactRows /\ h.evidence = g.evidence \cap ids
  BY <1>1, <1>3 DEF FactRows
<1>5. slot.domain = "financial" => OfOverlay(h)
  BY <1>1, <1>3, TrimmedOfOverlay
<1>6. QED
  BY <1>2, <1>4, <1>5 DEF SlotFact

\* A slot closed over what fits it.
LEMMA SlotClosed ==
    ASSUME JudgmentsSound, Planned, ResultsInv, analysis' = analysis,
           Len(results) < Len(analysis.slots),
           NEW candidates, \A id \in candidates : FitsSlot(id, Slot, analysis.base),
           NEW all, \A f \in all : SlotFact(f, Slot),
           CloseSlot(candidates, all)
    PROVE  ResultsInv'
<1> DEFINE n == Len(results)
           result(ids) == [refs |-> ids, facts |-> FactsWith(all, ids),
                           complete |-> /\ Cardinality(ids) >= Slot.least
                                        /\ PeriodsComplete(Slot, FactsWith(all, ids))]
<1>1. PICK ids \in SUBSET candidates :
          results' = Append(results, result(ids)) /\ Cardinality(Admitted \cup ids) <= TotalLimit
  BY DEF CloseSlot, Fused, Bounded
<1>2. \A id \in ids : FitsSlot(id, Slot, analysis.base)
  OBVIOUS
<1>3. \A f \in FactsWith(all, ids) : SlotFact(f, Slot) /\ f.evidence \subseteq ids
  BY KeptFacts
<1> DEFINE r == result(ids)
<1>4. r.refs = ids /\ r.facts = FactsWith(all, ids) /\ r \in ResultRows
  BY <1>2, <1>3 DEF ResultRows, FitsSlot, SlotFact
<1>5. r.complete => PeriodsComplete(Slot, r.facts)
  OBVIOUS
<1> HIDE DEF r
<1>6. SlotFilled(r, Slot, analysis.base)
  BY <1>2, <1>3, <1>4, <1>5 DEF SlotFilled
<1>7. n \in Nat /\ results \in Seq(ResultRows)
  BY DEF ResultsInv
<1>8. results' = Append(results, r)
  BY <1>1 DEF r
<1>9. /\ results' \in Seq(ResultRows) /\ Len(results') = n + 1 /\ DOMAIN results' = 1 .. n + 1
      /\ \A i \in 1 .. n : results'[i] = results[i]
      /\ results'[n + 1] = r
  BY <1>4, <1>7, <1>8
<1>10. Admitted' = Admitted \cup ids
  <2>1. \A id : id \in Admitted <=> \E i \in 1 .. n : id \in results[i].refs
    BY <1>7 DEF Admitted
  <2>2. \A id : id \in Admitted' <=> \E i \in 1 .. n + 1 : id \in results'[i].refs
    BY <1>9 DEF Admitted
  <2>3. QED
    BY <1>4, <1>7, <1>9, <2>1, <2>2
<1>11. Len(results') <= Len(analysis'.slots)
  BY <1>7, <1>9, AnalysisSound
<1>12. \A i \in DOMAIN results' : SlotFilled(results'[i], analysis.slots[i], analysis.base)
  BY <1>6, <1>7, <1>9 DEF ResultsInv, Slot
<1>13. TotalLimit' = TotalLimit
  BY DEF TotalLimit
<1>14. QED
  BY <1>1, <1>9, <1>10, <1>11, <1>12, <1>13 DEF ResultsInv
-----------------------------------------------------------------------------
(* One step of an analysis after another                                    *)

\* Steps that leave the bundle of a search behind.
LEMMA OutsideSearch ==
    ASSUME RetrievalInv, pc' \notin {"search", "texts", "titles", "cut", "bundle"}, CacheSound'
    PROVE  RetrievalInv' /\ FactsOfOverlay'
<1>1. EvidenceAdmissible'
  BY DEF EvidenceAdmissible, FactsShown
<1>2. ~Searching'
  BY DEF Searching
<1>3. FactsOfOverlay'
  BY DEF FactsOfOverlay
<1>4. QED
  BY <1>1, <1>2, <1>3 DEF RetrievalInv

LEMMA SameResults ==
    ASSUME ResultsInv, results' = results, analysis' = analysis
    PROVE  ResultsInv'
<1>1. Admitted' = Admitted /\ TotalLimit' = TotalLimit
  BY DEF Admitted, TotalLimit
<1>2. QED
  BY <1>1 DEF ResultsInv

LEMMA JudgeStarts ==
    ASSUME JudgeInit
    PROVE  JudgeInv
  BY DEF JudgeInit, JudgeInv, RetrievalInv, CacheSound, Searching, EvidenceAdmissible, FactsShown,
         FactsOfOverlay, SlotInv, SlotsShown, NoVerdict

LEMMA JudgeKeeps ==
    ASSUME JudgmentsSound, JudgeInv, NEW q \in Judgments, Judge(q)
    PROVE  JudgeInv'
<1>1. /\ pc = "idle" /\ analysis' = AnalysisOf(q) /\ pc' \in {"judged", "slots"}
      /\ verdict' = NoVerdict /\ results' = results /\ cache' = cache
  BY DEF Judge
<1>2. results = <<>> /\ RetrievalInv
  BY <1>1 DEF JudgeInv
<1>3. Planned'
  BY <1>1 DEF Planned
<1>4. analysis'.slots \in Seq(SlotRows) /\ analysis'.most \in Nat
  BY <1>1 DEF JudgmentsSound
<1>5. Admitted' = {}
  BY <1>1, <1>2 DEF Admitted
<1>6. TotalLimit' \in Nat
  BY <1>4 DEF JudgmentsSound, TotalLimit, Least2
<1>7. ResultsInv'
  BY <1>1, <1>2, <1>4, <1>5, <1>6, FS_EmptySet DEF ResultsInv
<1>8. RetrievalInv' /\ FactsOfOverlay'
  BY <1>1, <1>2, SameCache, OutsideSearch DEF RetrievalInv
<1>9. SlotInv' /\ SlotsShown' /\ ~verdict'.complete
  BY <1>1 DEF SlotInv, SlotsShown, NoVerdict
<1>10. QED
  BY <1>1, <1>3, <1>7, <1>8, <1>9 DEF JudgeInv

LEMMA AnalysisIdentityLostKeeps ==
    ASSUME JudgeInv, AnalysisIdentityLost
    PROVE  JudgeInv'
<1>1. /\ pc = "slots" /\ pc' = "judged" /\ analysis' = analysis /\ results' = results
      /\ verdict' = verdict /\ cache' = cache
  BY DEF AnalysisIdentityLost
<1>2. Planned /\ ResultsInv /\ RetrievalInv /\ ~verdict.complete
  BY <1>1 DEF JudgeInv
<1>3. Planned' /\ ResultsInv'
  BY <1>1, <1>2, SameResults DEF Planned
<1>4. RetrievalInv' /\ FactsOfOverlay'
  BY <1>1, <1>2, SameCache, OutsideSearch DEF RetrievalInv
<1>5. SlotInv' /\ SlotsShown'
  BY <1>1, <1>2 DEF SlotInv, SlotsShown
<1>6. QED
  BY <1>1, <1>3, <1>4, <1>5 DEF JudgeInv

LEMMA FillTextSlotKeeps ==
    ASSUME JudgmentsSound, JudgeInv, FillTextSlot
    PROVE  JudgeInv'
<1>1. /\ pc = "slots" /\ pc' = "slots" /\ analysis' = analysis /\ verdict' = verdict
      /\ Len(results) < Len(analysis.slots)
      /\ cache' = cache \/ cache' = Remembered(SlotQuery)
  BY DEF FillTextSlot
<1>2. Planned /\ ResultsInv /\ RetrievalInv /\ ~verdict.complete
  BY <1>1 DEF JudgeInv
<1>3. CacheSound /\ CacheSound'
  BY <1>1, <1>2, SameCache, CacheExtended DEF RetrievalInv
<1>4. PICK candidates : /\ CloseSlot(candidates, {})
                        /\ \A id \in candidates :
                            \/ id \in HydrateAs(IndexRows(SlotQuery), SlotQuery.policy, SlotQuery.asOf)
                            \/ \E hits \in SUBSET Hits : id \in DenseRefs(hits, SlotQuery)
  <2>1. CASE CloseSlot({}, {})
    BY <2>1
  <2>2. CASE \E sparse \in SUBSET HydrateAs(IndexRows(SlotQuery), SlotQuery.policy, SlotQuery.asOf) :
                \E dense \in IF setting.dense THEN {DenseRefs(hits, SlotQuery) : hits \in SUBSET Hits}
                                              ELSE {{}} :
                    CloseSlot(sparse \cup dense, {})
    <3>1. PICK sparse \in SUBSET HydrateAs(IndexRows(SlotQuery), SlotQuery.policy, SlotQuery.asOf),
               dense \in IF setting.dense THEN {DenseRefs(hits, SlotQuery) : hits \in SUBSET Hits}
                                          ELSE {{}} :
                  CloseSlot(sparse \cup dense, {})
      BY <2>2
    <3>2. dense = {} \/ \E hits \in SUBSET Hits : dense = DenseRefs(hits, SlotQuery)
      OBVIOUS
    <3>3. \A id \in sparse \cup dense :
              \/ id \in HydrateAs(IndexRows(SlotQuery), SlotQuery.policy, SlotQuery.asOf)
              \/ \E hits \in SUBSET Hits : id \in DenseRefs(hits, SlotQuery)
      BY <3>2
    <3>4. QED
      BY <3>1, <3>3
  <2>3. QED
    BY <2>1, <2>2 DEF FillTextSlot
<1>5. \A id \in candidates : FitsSlot(id, Slot, analysis.base)
  BY <1>3, <1>4, TextsFit
<1>6. ResultsInv'
  BY <1>1, <1>2, <1>4, <1>5, SlotClosed
<1>7. Planned'
  BY <1>1, <1>2 DEF Planned
<1>8. RetrievalInv' /\ FactsOfOverlay'
  BY <1>1, <1>2, <1>3, OutsideSearch
<1>9. SlotInv' /\ SlotsShown'
  BY <1>1, <1>2 DEF SlotInv, SlotsShown
<1>10. QED
  BY <1>1, <1>2, <1>6, <1>7, <1>8, <1>9 DEF JudgeInv

LEMMA BeginStructuredSlotKeeps ==
    ASSUME JudgmentsSound, JudgeInv, BeginStructuredSlot
    PROVE  JudgeInv'
<1>1. /\ pc = "slots" /\ pc' = "concept" /\ analysis' = analysis /\ results' = results
      /\ verdict' = verdict /\ cache' = cache /\ found' = {} /\ rows' = {}
      /\ Len(results) < Len(analysis.slots) /\ concepts' = ConceptsOf(Slot)
  BY DEF BeginStructuredSlot
<1>2. Planned /\ ResultsInv /\ RetrievalInv /\ ~verdict.complete
  BY <1>1 DEF JudgeInv
<1>3. Planned' /\ ResultsInv'
  BY <1>1, <1>2, SameResults DEF Planned
<1>4. RetrievalInv' /\ FactsOfOverlay'
  BY <1>1, <1>2, SameCache, OutsideSearch DEF RetrievalInv
<1>5. SlotInv' /\ SlotsShown'
  BY <1>1, <1>2 DEF SlotInv, SlotsShown
<1>6. QED
  BY <1>1, <1>2, <1>3, <1>4, <1>5 DEF JudgeInv

\* The search for one concept of the slot in hand.
LEMMA SlotPlanOf ==
    ASSUME JudgmentsSound, Planned, Slot.periods \in Nat, NEW c
    PROVE  /\ SlotPlan(c).company = IssuerOf(Slot) /\ SlotPlan(c).operation = "lookup"
           /\ SlotPlan(c).policy = analysis.base.policy /\ SlotPlan(c).asOf = analysis.base.asOf
           /\ SlotPlan(c).latest \in Int
           /\ Slot.domain = "financial" => SlotPlan(c).domain # "event"
<1>1. \E q \in Judgments : analysis.base = PlanOf(q)
  BY DEF Planned, AnalysisOf
<1>2. {"company", "operation", "policy", "asOf", "latest", "domain"} \subseteq DOMAIN analysis.base
  BY <1>1 DEF PlanOf
<1>3. analysis.base.latest \in Int
  BY AnalysisSound
<1>4. Max({analysis.base.latest, Slot.periods}) \in Int
  <2> DEFINE a == analysis.base.latest
             b == Slot.periods
  <2>1. a \in Int /\ b \in Int
    BY <1>3
  <2> HIDE DEF a, b
  <2>2. Max({a, b}) \in {a, b}
    BY <2>1, LargerOfTwo
  <2>3. Max({a, b}) \in Int
    BY <2>1, <2>2
  <2>4. QED
    BY <2>3 DEF a, b
<1>5. SlotPlan(c).company = IssuerOf(Slot) /\ SlotPlan(c).operation = "lookup"
  BY <1>2 DEF SlotPlan
<1>6. SlotPlan(c).policy = analysis.base.policy /\ SlotPlan(c).asOf = analysis.base.asOf
  BY <1>2 DEF SlotPlan
<1>7. SlotPlan(c).latest = Max({analysis.base.latest, Slot.periods})
  BY <1>2 DEF SlotPlan
<1>8. Slot.domain = "financial" => SlotPlan(c).domain # "event"
  BY <1>2 DEF SlotPlan
<1>9. QED
  BY <1>4, <1>5, <1>6, <1>7, <1>8

LEMMA BeginConceptKeeps ==
    ASSUME JudgmentsSound, JudgeInv, BeginConcept
    PROVE  JudgeInv'
<1>1. /\ pc = "concept" /\ pc' = "search" /\ plan' = SlotPlan(Head(concepts))
      /\ analysis' = analysis /\ results' = results /\ verdict' = verdict /\ cache' = cache
      /\ found' = found /\ rows' = rows
  BY DEF BeginConcept
<1>2. Planned /\ ResultsInv /\ RetrievalInv /\ SlotInv /\ ~verdict.complete
  BY <1>1 DEF JudgeInv
<1>3. Planned' /\ ResultsInv'
  BY <1>1, <1>2, SameResults DEF Planned
<1>4. Slot \in SlotRows
  BY <1>1, <1>2, AnalysisSound DEF Slot, ResultsInv, SlotInv
<1>5. Slot.periods \in Nat
  BY <1>4 DEF SlotRows
<1>6. /\ plan'.company = IssuerOf(Slot) /\ plan'.operation = "lookup"
      /\ plan'.policy = analysis.base.policy /\ plan'.asOf = analysis.base.asOf
      /\ plan'.latest \in Int
      /\ Slot.domain = "financial" => plan'.domain # "event"
  BY <1>1, <1>2, <1>5, SlotPlanOf
<1>7. plan'.policy \in Policies
  BY <1>2, <1>6, AnalysisSound
<1>8. EvidenceAdmissible' /\ FactsOfOverlay' /\ SlotsShown'
  BY <1>1, <1>2 DEF EvidenceAdmissible, FactsShown, FactsOfOverlay, SlotsShown
<1>9. RetrievalInv'
  BY <1>1, <1>2, <1>6, <1>7, <1>8, SameCache DEF RetrievalInv, Searching
<1>10. Slot' = Slot /\ IssuerOf(Slot)' = IssuerOf(Slot)
  BY <1>1 DEF Slot, IssuerOf
<1>11. SlotInv'
  <2>1. /\ Len(results) < Len(analysis.slots)
        /\ \A id \in found : FitsSlot(id, Slot, analysis.base)
        /\ \A f \in rows : SlotFact(f, Slot)
    BY <1>1, <1>2 DEF SlotInv
  <2>2. plan'.operation \notin CorpusWide
    BY <1>6 DEF CorpusWide
  <2>3. QED
    BY <1>1, <1>6, <1>10, <2>1, <2>2 DEF SlotInv
<1>12. QED
  BY <1>1, <1>2, <1>3, <1>8, <1>9, <1>11 DEF JudgeInv

LEMMA SearchConceptKeeps ==
    ASSUME CorpusSound, JudgmentsSound, JudgeInv, SearchConcept
    PROVE  JudgeInv'
<1>1. /\ analysis' = analysis /\ results' = results /\ verdict' = verdict
      /\ found' = found /\ rows' = rows /\ Search
  BY DEF SearchConcept
<1>2. /\ pc \in {"search", "texts", "titles", "cut"}
      /\ pc' \in {"search", "texts", "titles", "cut", "bundle"} /\ plan' = plan
  BY <1>1 DEF Search, IdentityLost, Refuse, SearchFacts, SearchIndexed, SearchCorpus, AddTitles, Cut,
              SearchCorpusFinancial, Nothing, Return
<1>3. Planned /\ ResultsInv /\ RetrievalInv /\ FactsOfOverlay /\ SlotInv /\ ~verdict.complete
  BY <1>2 DEF JudgeInv
<1>4. Planned' /\ ResultsInv'
  BY <1>1, <1>3, SameResults DEF Planned
<1>5. RetrievalInv' /\ FactsOfOverlay'
  BY <1>1, <1>3, SearchKeeps, SearchKeepsFactsOfOverlay
<1>6. Slot' = Slot /\ IssuerOf(Slot)' = IssuerOf(Slot)
  BY <1>1 DEF Slot, IssuerOf
<1>7. SlotInv'
  BY <1>1, <1>2, <1>3, <1>6 DEF SlotInv
<1>8. SlotsShown'
  BY <1>1, <1>3 DEF SlotsShown
<1>9. QED
  BY <1>1, <1>2, <1>3, <1>4, <1>5, <1>7, <1>8 DEF JudgeInv

LEMMA TakeConceptKeeps ==
    ASSUME CorpusSound, JudgmentsSound, JudgeInv, TakeConcept
    PROVE  JudgeInv'
<1>1. /\ pc = "bundle" /\ pc' = "concept" /\ analysis' = analysis /\ results' = results
      /\ verdict' = verdict /\ cache' = cache
      /\ found' = found \cup bundle.evidence
      /\ rows' \subseteq rows \cup {bundle.facts[i] : i \in DOMAIN bundle.facts}
  BY DEF TakeConcept
<1>2. Planned /\ ResultsInv /\ RetrievalInv /\ FactsOfOverlay /\ SlotInv /\ ~verdict.complete
  BY <1>1 DEF JudgeInv
<1>3. Planned' /\ ResultsInv'
  BY <1>1, <1>2, SameResults DEF Planned
<1>4. RetrievalInv' /\ FactsOfOverlay'
  BY <1>1, <1>2, SameCache, OutsideSearch DEF RetrievalInv
<1>5. /\ Len(results) < Len(analysis.slots)
      /\ \A id \in found : FitsSlot(id, Slot, analysis.base)
      /\ \A f \in rows : SlotFact(f, Slot)
      /\ plan.company = IssuerOf(Slot) /\ plan.operation \notin CorpusWide
      /\ plan.policy = analysis.base.policy /\ plan.asOf = analysis.base.asOf
      /\ Slot.domain = "financial" => plan.domain # "event"
  BY <1>1, <1>2 DEF SlotInv
<1>6. ASSUME NEW id \in bundle.evidence PROVE FitsSlot(id, Slot, analysis.base)
  BY <1>1, <1>2, <1>5 DEF RetrievalInv, EvidenceAdmissible, FitsSlot, TextAdmitted, Admits, IssuerOf
<1>7. ASSUME NEW i \in DOMAIN bundle.facts PROVE SlotFact(bundle.facts[i], Slot)
  BY <1>1, <1>2, <1>5, FromOverlayOfOverlay
     DEF RetrievalInv, EvidenceAdmissible, FactsShown, FactsOfOverlay, SlotFact
<1>8. /\ \A id \in found' : FitsSlot(id, Slot, analysis.base)
      /\ \A f \in rows' : SlotFact(f, Slot)
  BY <1>1, <1>5, <1>6, <1>7
<1>9. Slot' = Slot
  BY <1>1 DEF Slot
<1>10. SlotInv'
  BY <1>1, <1>5, <1>8, <1>9 DEF SlotInv
<1>11. SlotsShown'
  BY <1>1, <1>2 DEF SlotsShown
<1>12. QED
  BY <1>1, <1>2, <1>3, <1>4, <1>10, <1>11 DEF JudgeInv

LEMMA FillStructuredSlotKeeps ==
    ASSUME JudgmentsSound, JudgeInv, FillStructuredSlot
    PROVE  JudgeInv'
<1>1. /\ pc = "concept" /\ pc' = "slots" /\ analysis' = analysis /\ verdict' = verdict
      /\ cache' = cache /\ CloseSlot(found, rows)
  BY DEF FillStructuredSlot
<1>2. Planned /\ ResultsInv /\ RetrievalInv /\ SlotInv /\ ~verdict.complete
  BY <1>1 DEF JudgeInv
<1>3. /\ Len(results) < Len(analysis.slots)
      /\ \A id \in found : FitsSlot(id, Slot, analysis.base)
      /\ \A f \in rows : SlotFact(f, Slot)
  BY <1>1, <1>2 DEF SlotInv
<1>4. ResultsInv'
  BY <1>1, <1>2, <1>3, SlotClosed
<1>5. Planned'
  BY <1>1, <1>2 DEF Planned
<1>6. RetrievalInv' /\ FactsOfOverlay'
  BY <1>1, <1>2, SameCache, OutsideSearch DEF RetrievalInv
<1>7. SlotInv' /\ SlotsShown'
  BY <1>1, <1>2 DEF SlotInv, SlotsShown
<1>8. QED
  BY <1>1, <1>2, <1>4, <1>5, <1>6, <1>7 DEF JudgeInv

PeriodsOf(all, account) == {PeriodOf(f) : f \in {g \in all : g.account = account}}

\* Periods that facts kept of a slot cover are covered by the overlay, with evidence
\* of the slot.
LEMMA PeriodsCovered ==
    ASSUME CorpusSound, NEW all, NEW ids, NEW account,
           \A f \in all : OfOverlay(f) /\ f.evidence # {} /\ f.evidence \subseteq ids
    PROVE  /\ Cardinality(PeriodsOf(all, account)) \in Nat
           /\ Cardinality(PeriodsRead(account, ids)) \in Nat
           /\ Cardinality(PeriodsOf(all, account)) <= Cardinality(PeriodsRead(account, ids))
<1> DEFINE counted == PeriodsOf(all, account)
           read == {g \in FinancialRows : g.account = account /\ g.evidence \cap ids # {}}
           covered == PeriodsRead(account, ids)
<1>1. ASSUME NEW f \in all, f.account = account PROVE PeriodOf(f) \in covered
  <2>1. OfOverlay(f) /\ f.evidence # {} /\ f.evidence \subseteq ids
    OBVIOUS
  <2>2. PICK g \in FinancialRows :
            g.account = f.account /\ PeriodOf(g) = PeriodOf(f) /\ f.evidence \subseteq g.evidence
    BY <2>1 DEF OfOverlay
  <2>3. g \in read
    BY <1>1, <2>1, <2>2
  <2>4. QED
    BY <2>2, <2>3 DEF PeriodsRead
<1>2. counted \in SUBSET covered
  BY <1>1 DEF PeriodsOf
<1>3. IsFiniteSet(read)
  <2>1. IsFiniteSet(FinancialRows) /\ read \in SUBSET FinancialRows
    BY DEF CorpusSound
  <2> HIDE DEF read
  <2>2. QED
    BY <2>1, FS_Subset
<1>4. IsFiniteSet(covered)
  <2> DEFINE period == [f \in read |-> PeriodOf(f)]
  <2>1. covered = {PeriodOf(f) : f \in read}
    BY DEF PeriodsRead
  <2> HIDE DEF read, covered
  <2>2. period \in Surjection(read, covered)
    BY <2>1 DEF Surjection
  <2> HIDE DEF period
  <2>3. QED
    BY <1>3, <2>2, FS_Surjection
<1> HIDE DEF counted, covered
<1>5. /\ IsFiniteSet(counted)
      /\ Cardinality(counted) <= Cardinality(covered)
  BY <1>2, <1>4, FS_Subset
<1>6. Cardinality(counted) \in Nat /\ Cardinality(covered) \in Nat
  BY <1>4, <1>5, FS_CardinalityType
<1>7. QED
  BY <1>5, <1>6 DEF counted, covered

\* A mandatory slot of a complete verdict shows what was kept of it.
LEMMA SlotShown ==
    ASSUME CorpusSound, JudgmentsSound, Planned, ResultsInv, NEW i \in DOMAIN results,
           results[i].complete, Cardinality(results[i].refs) >= analysis.slots[i].least,
           analysis.slots[i].issuer # None \/ results[i].refs = {}
    PROVE  Shows(analysis.slots[i], results[i].refs, {f.account : f \in AllFacts}, analysis.base)
<1> DEFINE slot == analysis.slots[i]
           shown == results[i].refs
           all == results[i].facts
<1>1. SlotFilled(results[i], slot, analysis.base)
  BY DEF ResultsInv
<1>2. ASSUME NEW id \in shown
      PROVE  /\ Evidence[id].ok /\ TextAdmitted(id)
             /\ OfCompany(Evidence[id].filing, slot.issuer)
             /\ AdmitsAs("hydrate", Evidence[id].filing, analysis.base.policy, analysis.base.asOf)
  BY <1>1 DEF SlotFilled, FitsSlot
<1>3. ASSUME slot.domain = "financial", slot.periods > 1
      PROVE  \E account \in {f.account : f \in AllFacts} :
                Cardinality(PeriodsRead(account, shown)) >= slot.periods
  <2>1. \A f \in all : OfOverlay(f) /\ f.evidence # {} /\ f.evidence \subseteq shown
    BY <1>1, <1>3 DEF SlotFilled, SlotFact
  <2>2. PeriodsComplete(slot, all)
    BY <1>1 DEF SlotFilled
  <2>3. PICK f \in all :
            Cardinality({PeriodOf(g) : g \in {h \in all : h.account = f.account}}) >= slot.periods
    BY <1>3, <2>2 DEF PeriodsComplete
  <2>4. f \in AllFacts
    BY DEF AllFacts
  <2> DEFINE counted == PeriodsOf(all, f.account)
             covered == PeriodsRead(f.account, shown)
  <2>5. /\ Cardinality(counted) \in Nat /\ Cardinality(covered) \in Nat
        /\ Cardinality(counted) <= Cardinality(covered)
    BY <2>1, PeriodsCovered
  <2>6. slot.periods \in Nat
    <3>1. slot \in SlotRows
      BY AnalysisSound DEF ResultsInv
    <3>2. QED
      BY <3>1 DEF SlotRows
  <2>7. Cardinality(counted) >= slot.periods
    BY <2>3 DEF PeriodsOf
  <2> HIDE DEF counted
  <2>8. Cardinality(covered) >= slot.periods
    <3> HIDE DEF covered, slot
    <3>1. QED
      BY <2>5, <2>6, <2>7
  <2>9. QED
    BY <2>4, <2>8
<1>4. QED
  BY <1>2, <1>3 DEF Shows

LEMMA ExecuteKeeps ==
    ASSUME CorpusSound, JudgmentsSound, JudgeInv, Execute
    PROVE  JudgeInv'
<1>1. /\ pc = "slots" /\ pc' = "judged" /\ analysis' = analysis /\ results' = results
      /\ cache' = cache /\ Len(results) = Len(analysis.slots)
      /\ \E kept \in SUBSET Admitted : verdict' = Executed(kept)
  BY DEF Execute
<1>2. Planned /\ ResultsInv /\ RetrievalInv
  BY <1>1 DEF JudgeInv
<1>3. Planned' /\ ResultsInv'
  BY <1>1, <1>2, SameResults DEF Planned
<1>4. RetrievalInv' /\ FactsOfOverlay'
  BY <1>1, <1>2, SameCache, OutsideSearch DEF RetrievalInv
<1>5. PICK kept \in SUBSET Admitted : verdict' = Executed(kept)
  BY <1>1
<1> DEFINE all == FactsWith(AllFacts, kept)
<1>6. /\ DOMAIN verdict'.slots = DOMAIN results
      /\ \A i \in DOMAIN results :
            /\ verdict'.slots[i].refs = Owned(i, all)
            /\ verdict'.slots[i].complete =>
                /\ results[i].complete /\ Owned(i, all) = results[i].refs
                /\ Cardinality(Owned(i, all)) >= analysis.slots[i].least
      /\ verdict'.evidence = UNION {Owned(i, all) : i \in DOMAIN results}
      /\ verdict'.complete => \A i \in DOMAIN results :
            analysis.slots[i].mandatory => verdict'.slots[i].complete
  BY <1>5 DEF Executed
<1> HIDE DEF all
<1>7. \A i \in DOMAIN results :
          /\ Owned(i, all) \subseteq results[i].refs
          /\ analysis.slots[i].issuer = None => Owned(i, all) = {}
  BY DEF Owned
<1>8. DOMAIN analysis.slots = DOMAIN results
  BY <1>1, <1>2, AnalysisSound DEF ResultsInv
<1>9. Cardinality(verdict'.evidence) <= TotalLimit
  <2>1. verdict'.evidence \subseteq Admitted
    BY <1>6, <1>7 DEF Admitted
  <2>2. Admitted \subseteq DOMAIN Evidence
    <3>1. \A i \in DOMAIN results : results[i] \in ResultRows
      BY <1>2 DEF ResultsInv
    <3>2. \A i \in DOMAIN results : results[i].refs \subseteq DOMAIN Evidence
      BY <3>1 DEF ResultRows
    <3>3. QED
      BY <3>2 DEF Admitted
  <2>3. IsFiniteSet(Admitted)
    BY <2>2, FS_Subset DEF JudgmentsSound
  <2>4. /\ IsFiniteSet(verdict'.evidence)
        /\ Cardinality(verdict'.evidence) <= Cardinality(Admitted)
    BY <2>1, <2>3, FS_Subset
  <2>5. Cardinality(verdict'.evidence) \in Nat /\ Cardinality(Admitted) \in Nat
    BY <2>3, <2>4, FS_CardinalityType
  <2>6. TotalLimit \in Nat /\ Cardinality(Admitted) <= TotalLimit
    BY <1>2, AnalysisSound, TotalIsNat DEF ResultsInv
  <2>7. QED
    BY <2>4, <2>5, <2>6
<1>10. SlotsShown'
  <2> SUFFICES ASSUME verdict'.complete
               PROVE  SlotsShown'
    BY DEF SlotsShown
  <2>1. ASSUME NEW i \in DOMAIN analysis.slots, analysis.slots[i].mandatory
        PROVE  /\ i \in DOMAIN results /\ results[i].complete
               /\ verdict'.slots[i].refs \cap verdict'.evidence = results[i].refs
               /\ Cardinality(results[i].refs) >= analysis.slots[i].least
               /\ analysis.slots[i].issuer # None \/ results[i].refs = {}
    <3>1. i \in DOMAIN results /\ verdict'.slots[i].complete
      BY <1>6, <1>8, <2>1
    <3>2. /\ results[i].complete /\ Owned(i, all) = results[i].refs
          /\ Cardinality(results[i].refs) >= analysis.slots[i].least
          /\ verdict'.slots[i].refs = results[i].refs
      BY <1>6, <3>1
    <3>3. results[i].refs \subseteq verdict'.evidence
      BY <1>6, <3>1, <3>2
    <3>4. QED
      BY <1>7, <3>1, <3>2, <3>3
  <2>2. TotalLimit' = TotalLimit /\ AllFacts' = AllFacts
    BY <1>1 DEF TotalLimit, AllFacts
  <2>3. ASSUME NEW i \in DOMAIN analysis.slots, analysis.slots[i].mandatory
        PROVE  Shows(analysis.slots[i], verdict'.slots[i].refs \cap verdict'.evidence,
                     {f.account : f \in AllFacts}, analysis.base)
    <3>1. Shows(analysis.slots[i], results[i].refs, {f.account : f \in AllFacts}, analysis.base)
      BY <1>2, <2>1, <2>3, SlotShown
    <3>2. QED
      BY <2>1, <2>3, <3>1
  <2>4. QED
    BY <1>1, <1>9, <2>2, <2>3 DEF SlotsShown
<1>11. SlotInv'
  BY <1>1 DEF SlotInv
<1>12. QED
  BY <1>1, <1>3, <1>4, <1>10, <1>11 DEF JudgeInv

LEMMA JudgeStutterKeeps ==
    ASSUME JudgeInv, UNCHANGED analysisVars
    PROVE  JudgeInv'
<1>1. /\ plan' = plan /\ pc' = pc /\ refs' = refs /\ facts' = facts /\ cache' = cache
      /\ bundle' = bundle /\ analysis' = analysis /\ results' = results /\ found' = found
      /\ rows' = rows /\ verdict' = verdict
  BY DEF analysisVars, retrievalVars
<1>2. RetrievalInv'
  BY <1>1, SameRetrieval DEF JudgeInv
<1>3. FactsOfOverlay'
  BY <1>1 DEF JudgeInv, FactsOfOverlay, FromOverlay, OfCompany, FilingOf
<1>4. Slot' = Slot /\ IssuerOf(Slot)' = IssuerOf(Slot)
  BY <1>1 DEF Slot, IssuerOf
<1>5. SlotInv'
  BY <1>1, <1>4 DEF JudgeInv, SlotInv
<1>6. pc # "idle" => Planned' /\ ResultsInv'
  BY <1>1, SameResults DEF JudgeInv, Planned
<1>7. AllFacts' = AllFacts /\ TotalLimit' = TotalLimit
  BY <1>1 DEF AllFacts, TotalLimit
<1>8. SlotsShown'
  BY <1>1, <1>7 DEF JudgeInv, SlotsShown
<1>9. QED
  BY <1>1, <1>2, <1>3, <1>5, <1>6, <1>8 DEF JudgeInv

\* Of any catalog, corpus and overlay, over any number of searches for a slot and of
\* whatever the index and the dense service return: a judgment is given only when
\* every mandatory slot shows, within the limit of the analysis, the items and the
\* periods it needs, of its issuer and of a version the policy admits; and each search
\* it makes returns what a search for a question may return.
THEOREM JudgmentsRestOnEvidence ==
    CorpusSound /\ JudgmentsSound /\ JudgeSpec => [](AnalysisComplete /\ EvidenceAdmissible)
<1> SUFFICES ASSUME CorpusSound, JudgmentsSound
             PROVE  JudgeSpec => [](AnalysisComplete /\ EvidenceAdmissible)
  OBVIOUS
<1>1. JudgeInit => JudgeInv
  BY JudgeStarts
<1>2. JudgeInv /\ [JudgeNext]_analysisVars => JudgeInv'
  <2> SUFFICES ASSUME JudgeInv, [JudgeNext]_analysisVars PROVE JudgeInv'
    OBVIOUS
  <2>1. CASE \E q \in Judgments : Judge(q)
    BY <2>1, JudgeKeeps
  <2>2. CASE AnalysisIdentityLost
    BY <2>2, AnalysisIdentityLostKeeps
  <2>3. CASE FillTextSlot
    BY <2>3, FillTextSlotKeeps
  <2>4. CASE BeginStructuredSlot
    BY <2>4, BeginStructuredSlotKeeps
  <2>5. CASE BeginConcept
    BY <2>5, BeginConceptKeeps
  <2>6. CASE SearchConcept
    BY <2>6, SearchConceptKeeps
  <2>7. CASE TakeConcept
    BY <2>7, TakeConceptKeeps
  <2>8. CASE FillStructuredSlot
    BY <2>8, FillStructuredSlotKeeps
  <2>9. CASE Execute
    BY <2>9, ExecuteKeeps
  <2>10. CASE UNCHANGED analysisVars
    BY <2>10, JudgeStutterKeeps
  <2>11. QED
    BY <2>1, <2>2, <2>3, <2>4, <2>5, <2>6, <2>7, <2>8, <2>9, <2>10 DEF JudgeNext
<1>3. JudgeInv => AnalysisComplete /\ EvidenceAdmissible
  BY SlotsShownSaysComplete DEF JudgeInv, RetrievalInv
<1>4. QED
  BY <1>1, <1>2, <1>3, PTL DEF JudgeSpec

-----------------------------------------------------------------------------
(* The numbers of an answer                                                 *)

\* A list of length one is the list of its element.
LEMMA OneElement ==
    ASSUME NEW s \in Seq(Int), Len(s) = 1
    PROVE  s[1] \in Int /\ s = <<s[1]>>
  OBVIOUS

\* The sum of one number is that number.
LEMMA SumOfOne ==
    ASSUME NEW x \in Int
    PROVE  SumFunction(<<x>>) = x
<1> DEFINE rest(g, s) == IF s = {} THEN 0
                         ELSE LET y == CHOOSE z \in s : TRUE IN <<x>>[y] + g[s \ {y}]
           Sums(g) == [s \in SUBSET {1} |-> rest(g, s)]
           sums == [s \in SUBSET {1} |-> IF s = {} THEN 0 ELSE x]
<1>1. ASSUME NEW g, g[{}] = 0 PROVE rest(g, {1}) = x
  <2>1. (CHOOSE z \in {1} : TRUE) = 1
    OBVIOUS
  <2>2. {1} \ {1} = {} /\ {1} # {} /\ <<x>>[1] = x
    OBVIOUS
  <2>3. rest(g, {1}) = <<x>>[1] + g[{1} \ {1}]
    BY <2>1, <2>2
  <2>4. QED
    BY <1>1, <2>2, <2>3
<1>2. \A g : rest(g, {}) = 0
  OBVIOUS
<1>3. SUBSET {1} = {{}, {1}}
  OBVIOUS
<1> HIDE DEF rest
<1>4. \E g : g = Sums(g)
  <2>1. sums[{}] = 0 /\ sums[{1}] = x
    BY <1>3
  <2>2. sums = Sums(sums)
    BY <2>1, <1>1, <1>2, <1>3
  <2>3. QED
    BY <2>2
<1>5. SumFunction(<<x>>) = (CHOOSE g : g = Sums(g))[{1}]
  BY DEF SumFunction, SumFunctionOnSet, FoldFunctionOnSet, MapThenFoldSet, rest
<1>6. PICK g : g = Sums(g) /\ SumFunction(<<x>>) = g[{1}]
  BY <1>4, <1>5
<1>7. g[{}] = 0
  BY <1>2, <1>3, <1>6
<1>8. QED
  BY <1>1, <1>3, <1>6, <1>7

LEMMA TwoOrMore ==
    ASSUME NEW S, IsFiniteSet(S), NEW x \in S, NEW y \in S, x # y
    PROVE  Cardinality(S) >= 2
<1>1. IsFiniteSet({x, y}) /\ Cardinality({x, y}) = 2
  <2>1. IsFiniteSet({x}) /\ Cardinality({x}) = 1
    BY FS_Singleton
  <2>2. {x} \cup {y} = {x, y} /\ y \notin {x}
    OBVIOUS
  <2>3. QED
    BY <2>1, <2>2, FS_AddElement
<1>2. {x, y} \in SUBSET S
  OBVIOUS
<1>3. Cardinality({x, y}) <= Cardinality(S) /\ Cardinality(S) \in Nat
  BY <1>2, FS_Subset, FS_CardinalityType
<1>4. QED
  BY <1>1, <1>3

\* The operands are rows of one grain, each another row.
OperandsOf(list, out) ==
    /\ out \in Seq(FactRows)
    /\ \A k \in DOMAIN out : \E i \in DOMAIN list :
            out[k] = list[i] /\ Grain(list[i]) = Grain(list[1])
    /\ \A j, k \in DOMAIN out : j # k => \E h, i \in DOMAIN list :
            h # i /\ out[j] = list[h] /\ out[k] = list[i]

\* The places of rows by date.
ByDate(list, P) ==
    {p \in P \X P : \/ DateOf(list[p[1]]) < DateOf(list[p[2]])
                    \/ DateOf(list[p[1]]) = DateOf(list[p[2]]) /\ p[1] < p[2]}

LEMMA ByDateTotal ==
    ASSUME NEW list \in Seq(FactRows), NEW P \in SUBSET DOMAIN list
    PROVE  TotalOrder(ByDate(list, P), P)
<1>1. \A i \in P : i \in Nat /\ list[i] \in FactRows
  OBVIOUS
<1>2. \A f \in FactRows : DateOf(f) \in Nat
  BY DEF DateOf, FactRows
<1>3. \A i \in P : i \in Nat /\ DateOf(list[i]) \in Nat
  BY <1>1, <1>2
<1> DEFINE day(i) == DateOf(list[i])
<1>4. \A i, j : <<i, j>> \in ByDate(list, P) <=>
          i \in P /\ j \in P /\ (day(i) < day(j) \/ (day(i) = day(j) /\ i < j))
  BY DEF ByDate
<1>5. \A i \in P : i \in Nat /\ day(i) \in Nat
  BY <1>3
<1> HIDE DEF day
<1>6. QED
  BY <1>4, <1>5 DEF TotalOrder

\* What comes before another differs from it.
LEMMA InOrderDiffer ==
    ASSUME NEW S, NEW R, TotalOrder(R, S), NEW x \in S, NEW y \in S, <<x, y>> \in R
    PROVE  x # y
  BY DEF TotalOrder

LEMMA OperandsAreRows ==
    ASSUME NEW list \in Seq(FactRows), NEW operation
    PROVE  OperandsOf(list, Operands(list, operation))
<1> DEFINE P == {i \in DOMAIN list : Grain(list[i]) = Grain(list[1])}
           places == Sorted(P, ByDate(list, P))
           same == [k \in DOMAIN places |-> list[places[k]]]
           out == Operands(list, operation)
<1>1. out = IF operation = "sum" \/ Len(same) < 2 THEN same
            ELSE SubSeq(same, Len(same) - 1, Len(same))
  BY DEF Operands, Ordered, ByDate
<1>2. P \in SUBSET DOMAIN list /\ \A i \in P : Grain(list[i]) = Grain(list[1])
  OBVIOUS
<1> HIDE DEF P, out
<1>3. IsFiniteSet(P) /\ P \in SUBSET Nat
  BY <1>2, IndicesFinite
<1>4. TotalOrder(ByDate(list, P), P)
  BY <1>2, ByDateTotal
<1> DEFINE n == Cardinality(P)
<1>5. /\ n \in Nat /\ places \in [1 .. n -> P]
      /\ \A j, k \in 1 .. n : j < k => <<places[j], places[k]>> \in ByDate(list, P)
  BY <1>3, <1>4, SortedLists
<1> HIDE DEF n, places
<1>6. \A j, k \in 1 .. n : j # k => places[j] # places[k]
  <2>1. \A j, k \in 1 .. n : j < k => places[j] # places[k]
    BY <1>4, <1>5, InOrderDiffer
  <2>2. QED
    BY <1>5, <2>1
<1>7. \A i \in DOMAIN list : list[i] \in FactRows
  OBVIOUS
<1>8. same \in Seq(FactRows) /\ DOMAIN same = 1 .. n /\ Len(same) = n
  <2>1. same \in [1 .. n -> FactRows]
    BY <1>2, <1>5, <1>7
  <2>2. QED
    BY <1>5, <2>1
<1>9. \A k \in 1 .. n : same[k] = list[places[k]] /\ places[k] \in P
  BY <1>5
<1>10. OperandsOf(list, same)
  <2>1. \A k \in 1 .. n : \E i \in DOMAIN list : same[k] = list[i] /\ Grain(list[i]) = Grain(list[1])
    BY <1>2, <1>9
  <2>2. \A j, k \in 1 .. n : j # k => \E h, i \in DOMAIN list :
            h # i /\ same[j] = list[h] /\ same[k] = list[i]
    BY <1>2, <1>6, <1>9
  <2> HIDE DEF same
  <2>3. QED
    BY <1>8, <2>1, <2>2 DEF OperandsOf
<1> HIDE DEF same
<1>11. CASE operation # "sum" /\ n >= 2
  <2>1. out = SubSeq(same, n - 1, n)
    BY <1>1, <1>5, <1>8, <1>11
  <2>2. /\ out \in Seq(FactRows) /\ DOMAIN out = 1 .. 2
        /\ \A k \in 1 .. 2 : out[k] = same[n - 2 + k]
    <3>1. n - 1 \in Int /\ n \in Int /\ n - 1 =< n
      BY <1>5
    <3>2. \A i \in n - 1 .. n : same[i] \in FactRows
      BY <1>5, <1>8, <1>11
    <3>3. /\ out \in Seq(FactRows) /\ Len(out) = n - (n - 1) + 1
          /\ \A k \in 1 .. n - (n - 1) + 1 : out[k] = same[(n - 1) + k - 1]
      BY <2>1, <3>1, <3>2, SubSeqProperties
    <3>4. n - (n - 1) + 1 = 2 /\ \A k \in 1 .. 2 : (n - 1) + k - 1 = n - 2 + k
      BY <1>5
    <3>5. QED
      BY <3>3, <3>4
  <2>3. \A k \in 1 .. 2 : n - 2 + k \in DOMAIN same
    BY <1>5, <1>8, <1>11
  <2>4. \A j, k \in 1 .. 2 : j # k => n - 2 + j # n - 2 + k
    BY <1>5
  <2>5. \A k \in 1 .. 2 : \E i \in DOMAIN list :
            out[k] = list[i] /\ Grain(list[i]) = Grain(list[1])
    BY <1>10, <2>2, <2>3 DEF OperandsOf
  <2>6. \A j, k \in 1 .. 2 : j # k => \E h, i \in DOMAIN list :
            h # i /\ out[j] = list[h] /\ out[k] = list[i]
    BY <1>10, <2>2, <2>3, <2>4 DEF OperandsOf
  <2>7. OperandsOf(list, out)
    BY <2>2, <2>5, <2>6 DEF OperandsOf
  <2>8. QED
    BY <2>7 DEF out
<1>12. CASE operation = "sum" \/ n < 2
  BY <1>1, <1>8, <1>10, <1>12 DEF out
<1>13. QED
  BY <1>5, <1>11, <1>12 DEF out

\* Two rows of one grain, of facts of one company: they are of different periods,
\* for the overlay has one fact of an issuer, an account, a scope and a period.
LEMMA RowsOfGrainDiffer ==
    ASSUME CorpusSound, OverlaySound, plan.company # None, plan.label = None,
           NEW list, FromOverlay(list),
           NEW h \in DOMAIN list, NEW i \in DOMAIN list, h # i, Grain(list[h]) = Grain(list[i])
    PROVE  /\ list[h] # list[i] /\ list[h].account = list[i].account
           /\ list[h].scope = list[i].scope /\ DateOf(list[h]) # DateOf(list[i])
<1>1. /\ list[h] \in FactRows /\ list[i] \in FactRows
      /\ h < i \/ i < h
  BY DEF FromOverlay
<1>2. list[h].id # list[i].id
  BY <1>1 DEF FromOverlay
<1>3. list[h].account = list[i].account
  BY DEF FromOverlay
<1>4. list[h].scope = list[i].scope
  BY DEF Grain
<1>5. PICK f \in FinancialRows : OfCompany(f.filing, plan.company) /\ LeftOf(list[h], f)
  BY DEF FromOverlay
<1>6. PICK g \in FinancialRows : OfCompany(g.filing, plan.company) /\ LeftOf(list[i], g)
  BY DEF FromOverlay
<1>7. f \in FactRows /\ g \in FactRows
  BY DEF CorpusSound
<1>8. /\ list[h].id = f.id /\ list[h].account = f.account /\ list[h].scope = f.scope
      /\ list[h].end = f.end /\ list[h].instant = f.instant
  BY <1>1, <1>5, <1>7, LeftSays
<1>9. /\ list[i].id = g.id /\ list[i].account = g.account /\ list[i].scope = g.scope
      /\ list[i].end = g.end /\ list[i].instant = g.instant
  BY <1>1, <1>6, <1>7, LeftSays
<1>10. FilingOf(f.filing).issuer = FilingOf(g.filing).issuer
  <2>1. plan.company \in FilingOf(f.filing).names \cap FilingOf(g.filing).names
    BY <1>5, <1>6 DEF OfCompany
  <2>2. QED
    BY <2>1 DEF OverlaySound
<1>11. DateOf(f) = DateOf(g) => f = g
  <2>1. f.account = g.account /\ f.scope = g.scope
    BY <1>3, <1>4, <1>8, <1>9
  <2>2. (/\ FilingOf(f.filing).issuer = FilingOf(g.filing).issuer /\ f.account = g.account
         /\ f.scope = g.scope /\ DateOf(f) = DateOf(g)) => f = g
    BY Zenon DEF OverlaySound
  <2>3. QED
    BY <1>10, <2>1, <2>2
<1>12. DateOf(list[h]) = DateOf(f) /\ DateOf(list[i]) = DateOf(g)
  BY <1>8, <1>9 DEF DateOf
<1>13. QED
  BY <1>2, <1>3, <1>4, <1>8, <1>9, <1>11, <1>12

\* A calculation is from facts of the company, of one account and scope and of
\* different periods; of a single one it is the fact's own value.
CalculationSound(b) ==
    LET operands == b.calculation.operands
    IN  \/ plan.operation = "count_above"
        \/ /\ plan.operation \in Arithmetic
           /\ \A f \in operands : /\ f.evidence \subseteq b.calculation.evidence
                                  /\ OfCompany(f.filing, plan.company)
           /\ \A f, g \in operands : /\ f.account = g.account /\ f.scope = g.scope
                                     /\ f # g => DateOf(f) # DateOf(g)
           /\ \/ Cardinality(operands) >= 2
              \/ \E i \in DOMAIN b.facts :
                    operands = {b.facts[i]} /\ b.calculation.value = b.facts[i].value

BundleFields(b) == DOMAIN b = {"evidence", "answerable", "facts", "calculation", "listed"}

LEMMA AttachedSound ==
    ASSUME CorpusSound, OverlaySound, plan.company # None, plan.label = None,
           NEW b, BundleFields(b),
           ~Computed(b), plan.domain # "event" => FromOverlay(b.facts),
           Computed(Attached(b, plan.operation))
    PROVE  CalculationSound(Attached(b, plan.operation))
<1> DEFINE shown == b.facts
           list == Operands(shown, plan.operation)
           values == [i \in DOMAIN list |-> list[i].value]
           operands == {list[i] : i \in DOMAIN list}
           c == Attached(b, plan.operation)
           attached == [value |-> Calculated(plan.operation, values),
                        evidence |-> EvidenceOf(list), operands |-> operands]
<1>1. /\ plan.operation \in Arithmetic /\ plan.domain = "financial"
      /\ Calculable(plan.operation, values)
      /\ c = [b EXCEPT !.calculation = attached]
  BY DEF Attached
<1>2. c.calculation = attached /\ c.facts = shown
  BY <1>1 DEF BundleFields
<1>3. FromOverlay(shown) /\ shown \in Seq(FactRows)
  BY <1>1 DEF FromOverlay
<1>4. OperandsOf(shown, list)
  BY <1>3, OperandsAreRows
<1> HIDE DEF shown, list, c
<1>5. /\ list \in Seq(FactRows) /\ Len(list) \in Nat /\ DOMAIN list = 1 .. Len(list)
      /\ \A k \in DOMAIN list : \E i \in DOMAIN shown :
            list[k] = shown[i] /\ Grain(shown[i]) = Grain(shown[1])
  BY <1>4 DEF OperandsOf
<1>6. \A f \in operands : f.evidence \subseteq EvidenceOf(list) /\ OfCompany(f.filing, plan.company)
  <2> SUFFICES ASSUME NEW k \in DOMAIN list
               PROVE  /\ list[k].evidence \subseteq EvidenceOf(list)
                      /\ OfCompany(list[k].filing, plan.company)
    OBVIOUS
  <2>1. list[k].evidence \subseteq EvidenceOf(list)
    BY DEF EvidenceOf
  <2>2. PICK i \in DOMAIN shown : list[k] = shown[i]
    BY <1>5
  <2>3. PICK f \in FinancialRows : OfCompany(f.filing, plan.company) /\ LeftOf(shown[i], f)
    BY <1>3 DEF FromOverlay
  <2>4. shown[i] \in FactRows /\ f \in FactRows
    BY <1>3 DEF CorpusSound
  <2>5. QED
    BY <2>1, <2>2, <2>3, <2>4, LeftSays
<1>7. ASSUME NEW j \in DOMAIN list, NEW k \in DOMAIN list, j # k
      PROVE  /\ list[j] # list[k] /\ list[j].account = list[k].account
             /\ list[j].scope = list[k].scope /\ DateOf(list[j]) # DateOf(list[k])
  <2>1. PICK h \in DOMAIN shown, i \in DOMAIN shown : h # i /\ list[j] = shown[h] /\ list[k] = shown[i]
    BY <1>4, <1>7 DEF OperandsOf
  <2>2. Grain(shown[h]) = Grain(shown[i])
    <3>1. Grain(list[j]) = Grain(shown[1]) /\ Grain(list[k]) = Grain(shown[1])
      BY <1>5
    <3>2. QED
      BY <2>1, <3>1
  <2>3. QED
    BY <1>3, <2>1, <2>2, RowsOfGrainDiffer
<1>8. \A f, g \in operands : f.account = g.account /\ f.scope = g.scope
                             /\ (f # g => DateOf(f) # DateOf(g))
  BY <1>7
<1>9. \/ Cardinality(operands) >= 2
      \/ \E i \in DOMAIN shown : operands = {shown[i]} /\ Calculated(plan.operation, values) = shown[i].value
  <2>1. values \in Seq(Int) /\ Len(values) = Len(list)
    <3>1. \A k \in DOMAIN list : list[k] \in FactRows
      BY <1>5
    <3>2. \A k \in DOMAIN list : list[k].value \in Int
      BY <3>1 DEF FactRows
    <3>3. values \in [1 .. Len(list) -> Int]
      BY <1>5, <3>2
    <3>4. QED
      BY <1>5, <3>3
  <2>2. CASE Len(list) >= 2
    <3>1. 1 \in DOMAIN list /\ 2 \in DOMAIN list
      BY <1>5, <2>2
    <3>2. list[1] \in operands /\ list[2] \in operands /\ list[1] # list[2]
      BY <1>7, <3>1
    <3>3. IsFiniteSet(operands)
      <4> DEFINE at == [k \in DOMAIN list |-> list[k]]
      <4>1. at \in Surjection(DOMAIN list, operands)
        BY DEF Surjection
      <4>2. IsFiniteSet(DOMAIN list)
        BY <1>5, IndicesFinite
      <4> HIDE DEF at, operands
      <4>3. QED
        BY <4>1, <4>2, FS_Surjection
    <3>4. QED
      BY <3>2, <3>3, TwoOrMore
  <2>3. CASE Len(list) < 2
    <3>1. plan.operation = "sum" /\ Len(list) = 1
      <4>1. Len(list) # 2
        BY <1>5, <2>3
      <4>2. plan.operation = "sum" /\ values # <<>>
        BY <1>1, <2>1, <4>1 DEF Calculable
      <4>3. Len(list) # 0
        BY <2>1, <4>2
      <4>4. QED
        BY <1>5, <2>3, <4>2, <4>3
    <3>2. DOMAIN list = {1}
      BY <1>5, <3>1
    <3>3. PICK i \in DOMAIN shown : list[1] = shown[i]
      BY <1>5, <3>2
    <3>4. operands = {shown[i]}
      BY <3>2, <3>3
    <3>5. values = <<shown[i].value>> /\ shown[i].value \in Int
      <4>1. values[1] = shown[i].value
        BY <3>2, <3>3
      <4> HIDE DEF values
      <4>2. values \in Seq(Int) /\ Len(values) = 1
        BY <2>1, <3>1
      <4>3. values[1] \in Int /\ values = <<values[1]>>
        BY <4>2, OneElement
      <4>4. QED
        BY <4>1, <4>3
    <3>6. Calculated(plan.operation, values) = SumFunction(values)
      BY <3>1 DEF Calculated
    <3>7. QED
      BY <3>4, <3>5, <3>6, SumOfOne
  <2>4. Len(list) >= 2 \/ Len(list) < 2
    BY <1>5
  <2> HIDE DEF values, operands
  <2>5. QED
    BY <2>2, <2>3, <2>4
<1> HIDE DEF values, operands
<1>10. CalculationSound(c)
  BY <1>1, <1>2, <1>6, <1>8, <1>9 DEF CalculationSound
<1>11. QED
  BY <1>10 DEF c

-----------------------------------------------------------------------------
(* The count of a question about all companies                              *)

LEMMA FactOrderStrict ==
    ASSUME CorpusSound, NEW f \in FinancialRows, NEW g \in FinancialRows, FactOrder(f, g)
    PROVE  f # g /\ ~FactOrder(g, f)
<1>1. f \in FactRows /\ g \in FactRows
  BY DEF CorpusSound
<1>2. \A h \in FactRows : h.id \in Nat /\ DateOf(h) \in Nat /\ ScopeRank(h) \in Nat
  BY DEF FactRows, DateOf, ScopeRank
<1>3. QED
  BY <1>1, <1>2 DEF FactOrder

LEMMA CompaniesFinite ==
    ASSUME CorpusSound
    PROVE  IsFiniteSet(Companies) /\ Cardinality(Companies) \in Nat
<1> DEFINE issuer == [n \in DOMAIN Filings |-> Filings[n].issuer]
<1>1. IsFiniteSet(DOMAIN Filings)
  BY DEF CorpusSound
<1>2. issuer \in Surjection(DOMAIN Filings, Companies)
  BY DEF Surjection, Companies
<1> HIDE DEF issuer
<1>3. QED
  BY <1>1, <1>2, FS_Surjection, FS_CardinalityType

\* What a limit leaves out comes after what it takes.
LEMMA TakenFirst ==
    ASSUME NEW s \in Seq(FactRows), NEW n \in Int,
           NEW k \in DOMAIN Take(s, n), NEW j \in DOMAIN s, j \notin DOMAIN Take(s, n)
    PROVE  k < j
<1> DEFINE m == IF Len(s) < n THEN Len(s) ELSE n
<1>1. Len(s) \in Nat /\ DOMAIN s = 1 .. Len(s) /\ m \in Int /\ m <= Len(s)
  OBVIOUS
<1> HIDE DEF m
<1>2. Take(s, n) = SubSeq(s, 1, m)
  BY DEF Take, m
<1>3. DOMAIN SubSeq(s, 1, m) = 1 .. m
  BY <1>1
<1>4. QED
  BY <1>1, <1>2, <1>3

\* A fact of the account the question is about, in the version in force.
OfTheAccount(f) ==
    f \in FinancialRows /\ f.account = plan.account.id /\ Effective(VersionOf(f.filing), NoDate)

IssuerOfFact(f) == FilingOf(f.filing).issuer

\* It comes before every other fact of its issuer.
NewestOf(f) ==
    /\ OfTheAccount(f)
    /\ \A g \in FinancialRows :
            OfTheAccount(g) /\ IssuerOfFact(g) = IssuerOfFact(f) => g = f \/ FactOrder(f, g)

AnyPeriod == [start |-> NoDate, end |-> NoDate, instant |-> NoDate]

\* Of the facts of an account, those that a limit leaves out come after all others.
LEMMA AccountListed ==
    ASSUME CorpusSound, OverlaySound, NEW limit \in Int
    PROVE  LET out == OverlayFacts(AccountRows(plan.account.id), None, "current", NoDate, None,
                                   AnyPeriod, NoDate, limit)
           IN  /\ out \in Seq(FactRows)
               /\ \A k \in DOMAIN out : OfTheAccount(out[k])
               /\ \A j, k \in DOMAIN out : j < k => FactOrder(out[j], out[k])
               /\ \A f \in FinancialRows : OfTheAccount(f) =>
                    \/ \E k \in DOMAIN out : out[k] = f
                    \/ \A k \in DOMAIN out : FactOrder(out[k], f)
<1> DEFINE S == {f \in FinancialRows : OfTheAccount(f)}
           list == Sorted(S, FactPairs(S))
           out == OverlayFacts(AccountRows(plan.account.id), None, "current", NoDate, None,
                                   AnyPeriod, NoDate, limit)
<1>1. \A n : AdmitsAs("overlay", n, "current", NoDate) <=> Effective(VersionOf(n), NoDate)
  BY DEF AdmitsAs, AdmittedBy, OverlayAdmits, CurrentOnly
<1>2. \A f \in FinancialRows : \E id \in f.evidence : Evidence[id].ok /\ Evidence[id].format # "pdf"
  BY DEF OverlaySound
<1>3. S = {f \in AccountRows(plan.account.id) :
            /\ AdmitsAs("overlay", f.filing, "current", NoDate)
            /\ OfCompany(f.filing, None)
            /\ None # None => f.scope = None
            /\ AnyPeriod.start # NoDate => f.start = AnyPeriod.start
            /\ AnyPeriod.end # NoDate => f.end = AnyPeriod.end
            /\ AnyPeriod.instant # NoDate => f.instant = AnyPeriod.instant
            /\ NoDate # NoDate => f.end # NoDate /\ f.end <= NoDate
            /\ \E id \in f.evidence : Evidence[id].ok /\ Evidence[id].format # "pdf"}
  BY <1>1, <1>2 DEF AccountRows, OfTheAccount, OfCompany, AnyPeriod
<1>4. out = Take(list, limit)
  BY <1>3 DEF OverlayFacts, Ordered, FactPairs
<1>5. S \in SUBSET FinancialRows /\ \A f \in S : OfTheAccount(f)
  OBVIOUS
<1>6. \A f \in FinancialRows : OfTheAccount(f) => f \in S
  OBVIOUS
<1> HIDE DEF S, out
<1>7. /\ S \in SUBSET FactRows /\ IsFiniteSet(S) /\ TotalOrder(FactPairs(S), S)
  BY <1>5, FactOrderTotal
<1>8. /\ list \in Seq(FactRows)
      /\ \A k \in DOMAIN list : list[k] \in S
      /\ \A j, k \in DOMAIN list : j < k => FactOrder(list[j], list[k])
  <2>1. /\ list \in Seq(FactRows)
        /\ \A k \in DOMAIN list : list[k] \in S
        /\ \A j, k \in DOMAIN list : j < k => <<list[j], list[k]>> \in FactPairs(S)
    BY <1>7, SortedFacts
  <2>2. \A f, g : <<f, g>> \in FactPairs(S) => FactOrder(f, g)
    BY DEF FactPairs
  <2>3. QED
    BY <2>1, <2>2
<1>9. \A f \in S : \E j \in DOMAIN list : list[j] = f
  <2>1. /\ DOMAIN list = 1 .. Cardinality(S)
        /\ \A f \in S : \E k \in 1 .. Cardinality(S) : list[k] = f
    BY <1>7, SortedLists
  <2>2. QED
    BY <2>1
<1> HIDE DEF list
<1>10. /\ out \in Seq(FactRows) /\ DOMAIN out \in SUBSET DOMAIN list
       /\ \A k \in DOMAIN out : out[k] = list[k]
  BY <1>4, <1>8, TakenFacts
<1>11. ASSUME NEW f \in FinancialRows, OfTheAccount(f)
       PROVE  (\E k \in DOMAIN out : out[k] = f) \/ \A k \in DOMAIN out : FactOrder(out[k], f)
  <2>1. PICK j \in DOMAIN list : list[j] = f
    BY <1>6, <1>9, <1>11
  <2>2. CASE j \in DOMAIN out
    BY <1>10, <2>1, <2>2
  <2>3. CASE j \notin DOMAIN out
    <3>1. \A k \in DOMAIN out : k < j
      BY <1>4, <1>8, <2>3, TakenFirst
    <3>2. QED
      BY <1>8, <1>10, <2>1, <3>1
  <2>4. QED
    BY <2>2, <2>3
<1>12. QED
  BY <1>5, <1>8, <1>10, <1>11 DEF out

\* The facts listed of all companies: of each issuer at most one, its newest.
LEMMA LatestAreNewest ==
    ASSUME CorpusSound, OverlaySound
    PROVE  /\ LatestFacts \in Seq(FactRows)
           /\ \A k \in DOMAIN LatestFacts : NewestOf(LatestFacts[k])
           /\ \A j, k \in DOMAIN LatestFacts :
                j < k => IssuerOfFact(LatestFacts[j]) # IssuerOfFact(LatestFacts[k])
<1> DEFINE limit == 3 * Cardinality(Companies)
           listed == OverlayFacts(AccountRows(plan.account.id), None, "current", NoDate, None,
                                   AnyPeriod, NoDate, limit)
           P == {j \in DOMAIN listed :
                    \A i \in DOMAIN listed :
                        (FilingOf(listed[i].filing).issuer = FilingOf(listed[j].filing).issuer
                            /\ listed[i] # listed[j]) => FactOrder(listed[j], listed[i])}
           places == Sorted(P, Ascending(P))
<1>1. LatestFacts = [k \in DOMAIN places |-> listed[places[k]]]
  BY DEF LatestFacts, Kept, Ordered, Ascending, AnyPeriod
<1>2. P \in SUBSET DOMAIN listed
  OBVIOUS
<1>3. \A j \in P, i \in DOMAIN listed :
          IssuerOfFact(listed[i]) = IssuerOfFact(listed[j]) /\ listed[i] # listed[j]
              => FactOrder(listed[j], listed[i])
  BY DEF IssuerOfFact
<1>4. limit \in Int
  BY CompaniesFinite
<1> HIDE DEF P, limit
<1>5. /\ listed \in Seq(FactRows)
      /\ \A k \in DOMAIN listed : OfTheAccount(listed[k])
      /\ \A j, k \in DOMAIN listed : j < k => FactOrder(listed[j], listed[k])
      /\ \A f \in FinancialRows : OfTheAccount(f) =>
            \/ \E k \in DOMAIN listed : listed[k] = f
            \/ \A k \in DOMAIN listed : FactOrder(listed[k], f)
  BY <1>4, AccountListed
<1> HIDE DEF listed
<1>6. P \in SUBSET Nat /\ IsFiniteSet(P)
  BY <1>2, <1>5, IndicesFinite
<1>7. /\ Cardinality(P) \in Nat /\ places \in [1 .. Cardinality(P) -> P]
      /\ \A j, k \in 1 .. Cardinality(P) : j < k => places[j] < places[k]
  BY <1>6, PlacesOrdered
<1> HIDE DEF places
<1>8. \A i \in P : NewestOf(listed[i])
  <2> SUFFICES ASSUME NEW i \in P, NEW g \in FinancialRows, OfTheAccount(g),
                      IssuerOfFact(g) = IssuerOfFact(listed[i])
               PROVE  g = listed[i] \/ FactOrder(listed[i], g)
    BY <1>2, <1>5 DEF NewestOf
  <2>1. CASE \A k \in DOMAIN listed : FactOrder(listed[k], g)
    BY <1>2, <2>1
  <2>2. CASE \E k \in DOMAIN listed : listed[k] = g
    BY <1>3, <2>2
  <2>3. QED
    BY <1>5, <2>1, <2>2
<1>9. ASSUME NEW i \in P, NEW j \in P, i < j PROVE IssuerOfFact(listed[i]) # IssuerOfFact(listed[j])
  <2>1. FactOrder(listed[i], listed[j])
    BY <1>2, <1>5, <1>9
  <2>2. listed[i] \in FinancialRows /\ listed[j] \in FinancialRows
    BY <1>2, <1>5 DEF OfTheAccount
  <2>3. listed[i] # listed[j] /\ ~FactOrder(listed[j], listed[i])
    BY <2>1, <2>2, FactOrderStrict
  <2>4. QED
    BY <1>2, <1>3, <2>3
<1>10. DOMAIN LatestFacts = 1 .. Cardinality(P)
       /\ \A k \in 1 .. Cardinality(P) : LatestFacts[k] = listed[places[k]] /\ places[k] \in P
  BY <1>1, <1>7
<1>11. QED
  BY <1>7, <1>8, <1>9, <1>10, LatestFactsRows

\* What hydration leaves of the newest facts of all companies.
NewestRows(list) ==
    /\ list \in Seq(FactRows)
    /\ \A k \in DOMAIN list : \E f \in FinancialRows : NewestOf(f) /\ LeftOf(list[k], f)
    /\ \A j, k \in DOMAIN list : j # k => IssuerOfFact(list[j]) # IssuerOfFact(list[k])

LEMMA LeftAreNewest ==
    ASSUME CorpusSound, OverlaySound
    PROVE  NewestRows(HydrateFacts(LatestFacts, "current", NoDate))
<1> DEFINE listed == LatestFacts
           list == HydrateFacts(listed, "current", NoDate)
<1>1. /\ listed \in Seq(FactRows)
      /\ \A k \in DOMAIN listed : NewestOf(listed[k])
      /\ \A j, k \in DOMAIN listed : j < k => IssuerOfFact(listed[j]) # IssuerOfFact(listed[k])
  BY LatestAreNewest
<1> HIDE DEF listed
<1>2. list \in Seq(FactRows) /\ LeftIn(list, listed)
  BY <1>1, HydratedRows, HydratedLeft
<1> HIDE DEF list
<1>3. PICK place \in [DOMAIN list -> DOMAIN listed] :
          /\ \A j, k \in DOMAIN list : j < k => place[j] < place[k]
          /\ \A k \in DOMAIN list : LeftOf(list[k], listed[place[k]])
  BY <1>2 DEF LeftIn
<1>4. \A k \in DOMAIN list : /\ list[k] \in FactRows /\ place[k] \in DOMAIN listed
                             /\ listed[place[k]] \in FactRows
  BY <1>1, <1>2
<1>5. \A k \in DOMAIN list : IssuerOfFact(list[k]) = IssuerOfFact(listed[place[k]])
  BY <1>3, <1>4, LeftSays DEF IssuerOfFact
<1>6. \A k \in DOMAIN list : \E f \in FinancialRows : NewestOf(f) /\ LeftOf(list[k], f)
  BY <1>1, <1>3, <1>4 DEF NewestOf, OfTheAccount
<1>7. \A j, k \in DOMAIN list : j < k => IssuerOfFact(list[j]) # IssuerOfFact(list[k])
  BY <1>1, <1>3, <1>4, <1>5
<1>8. \A j, k \in DOMAIN list : j # k => j < k \/ k < j
  BY <1>2
<1>9. NewestRows(list)
  BY <1>2, <1>6, <1>7, <1>8 DEF NewestRows
<1>10. QED
  BY <1>9 DEF list, listed

\* What CountIsExact says of one company.
RowsOf(c) == {f \in FinancialRows : /\ f.account = plan.account.id
                                    /\ FilingOf(f.filing).issuer = c
                                    /\ Effective(VersionOf(f.filing), NoDate)}
NewestIn(c) == {f \in RowsOf(c) : \A g \in RowsOf(c) : DateOf(g) <= DateOf(f)}
BestOf(c) == {f \in NewestIn(c) : \A g \in NewestIn(c) : ScopeRank(f) <= ScopeRank(g)}

\* The fact that comes before all others of its issuer is the one of the newest period
\* and the best scope.
LEMMA NewestIsBest ==
    ASSUME CorpusSound, OverlaySound, NEW f \in FinancialRows, NewestOf(f)
    PROVE  f \in NewestIn(IssuerOfFact(f)) /\ BestOf(IssuerOfFact(f)) = {f}
<1> DEFINE c == IssuerOfFact(f)
<1>1. /\ \A g \in RowsOf(c) : g \in FinancialRows /\ IssuerOfFact(g) = c /\ OfTheAccount(g)
      /\ f \in RowsOf(c)
  BY DEF RowsOf, IssuerOfFact, OfTheAccount, NewestOf
<1>2. \A g \in RowsOf(c) : g = f \/ FactOrder(f, g)
  BY <1>1 DEF NewestOf
<1>3. \A g \in RowsOf(c) : DateOf(g) \in Nat /\ ScopeRank(g) \in Nat
  <2>1. \A g \in FactRows : DateOf(g) \in Nat /\ ScopeRank(g) \in Nat
    BY DEF FactRows, DateOf, ScopeRank
  <2>2. QED
    BY <1>1, <2>1 DEF CorpusSound
<1>4. \A g \in RowsOf(c) : /\ DateOf(g) <= DateOf(f)
                           /\ DateOf(g) = DateOf(f) => ScopeRank(f) <= ScopeRank(g)
  BY <1>1, <1>2, <1>3 DEF FactOrder
<1>5. f \in NewestIn(c) /\ \A g \in NewestIn(c) : g \in RowsOf(c) /\ DateOf(g) = DateOf(f)
  BY <1>1, <1>3, <1>4 DEF NewestIn
<1>6. f \in BestOf(c)
  BY <1>4, <1>5 DEF BestOf
<1>7. ASSUME NEW g \in BestOf(c) PROVE g = f
  <2>1. g \in NewestIn(c) /\ ScopeRank(g) <= ScopeRank(f)
    BY <1>5, <1>7 DEF BestOf
  <2>2. DateOf(g) = DateOf(f) /\ ScopeRank(g) = ScopeRank(f)
    BY <1>1, <1>3, <1>4, <1>5, <2>1
  <2>3. g.scope = f.scope
    <3>1. f.scope \in {"consolidated", "separate", "unknown"}
      BY DEF OverlaySound
    <3>2. g.scope \in {"consolidated", "separate", "unknown"}
      BY <1>1, <1>5, <2>1 DEF OverlaySound
    <3>3. QED
      BY <2>2, <3>1, <3>2 DEF ScopeRank
  <2>4. g \in FinancialRows /\ IssuerOfFact(g) = IssuerOfFact(f) /\ g.account = f.account
    BY <1>1, <1>5, <2>1 DEF OfTheAccount
  <2>5. QED
    BY <2>2, <2>3, <2>4 DEF OverlaySound, IssuerOfFact
<1> HIDE DEF c
<1>8. BestOf(c) = {f}
  BY <1>6, <1>7
<1>9. QED
  BY <1>5, <1>8 DEF c

\* Rows of as many issuers as there are companies miss none, and the list of those
\* above the threshold is as long as there are companies above it.
LEMMA CountRight ==
    ASSUME CorpusSound, OverlaySound, NEW list, NewestRows(list),
           Len(list) = Cardinality(Companies), plan.operation = "count_above"
    PROVE  CountIsExact(Len(Listed(list)))
<1> DEFINE issuer == [k \in DOMAIN list |-> IssuerOfFact(list[k])]
           matches == {list[i] : i \in {j \in DOMAIN list : Above(list[j])}}
           above == {c \in Companies : \E f \in BestOf(c) : Above(f)}
<1>1. /\ list \in Seq(FactRows) /\ Len(list) \in Nat /\ DOMAIN list = 1 .. Len(list)
      /\ \A j, k \in DOMAIN list : j # k => IssuerOfFact(list[j]) # IssuerOfFact(list[k])
  BY DEF NewestRows
<1>2. ASSUME NEW k \in DOMAIN list
      PROVE  \E f \in FinancialRows : /\ NewestOf(f) /\ IssuerOfFact(f) = IssuerOfFact(list[k])
                                      /\ Above(f) <=> Above(list[k])
  <2>1. PICK f \in FinancialRows : NewestOf(f) /\ LeftOf(list[k], f)
    BY DEF NewestRows
  <2>2. list[k] \in FactRows /\ f \in FactRows
    BY <1>1 DEF CorpusSound
  <2>3. list[k].filing = f.filing /\ list[k].value = f.value /\ list[k].scale = f.scale
    BY <2>1, <2>2, LeftSays
  <2>4. Amount(list[k]) = Amount(f)
    BY <2>3 DEF Amount
  <2>5. QED
    BY <2>1, <2>3, <2>4 DEF IssuerOfFact, Above
<1>3. \A k \in DOMAIN list : IssuerOfFact(list[k]) \in Companies
  <2>1. \A f \in FactRows : IssuerOfFact(f) \in Companies
    BY DEF FactRows, IssuerOfFact, FilingOf, Companies
  <2>2. \A k \in DOMAIN list : list[k] \in FactRows
    BY <1>1
  <2>3. QED
    BY <2>1, <2>2
<1>4. \A c \in Companies : \E k \in DOMAIN list : IssuerOfFact(list[k]) = c
  <2>1. issuer \in [DOMAIN list -> Companies]
    BY <1>3
  <2>2. \A j, k \in DOMAIN list : issuer[j] = issuer[k] => j = k
    BY <1>1
  <2>3. IsFiniteSet(DOMAIN list) /\ Cardinality(DOMAIN list) = Len(list)
    <3>1. /\ IsFiniteSet(1 .. Len(list))
          /\ Cardinality(1 .. Len(list)) = IF 1 > Len(list) THEN 0 ELSE Len(list) - 1 + 1
      <4>1. 1 \in Int /\ Len(list) \in Int
        BY <1>1
      <4>2. QED
        BY <4>1, FS_Interval
    <3>2. QED
      BY <1>1, <3>1
  <2> HIDE DEF issuer
  <2>4. issuer \in Injection(DOMAIN list, Companies)
    BY <2>1, <2>2, Fun_IsInj
  <2>5. issuer \in Surjection(DOMAIN list, Companies)
    BY <2>3, <2>4, CompaniesFinite, FS_Injection
  <2>6. \A c \in Companies : \E k \in DOMAIN list : issuer[k] = c
    BY <2>5 DEF Surjection
  <2>7. QED
    BY <2>6 DEF issuer
<1>5. ASSUME NEW k \in DOMAIN list
      PROVE  /\ NewestIn(IssuerOfFact(list[k])) # {}
             /\ (\E f \in BestOf(IssuerOfFact(list[k])) : Above(f)) <=> Above(list[k])
  <2>1. PICK f \in FinancialRows : /\ NewestOf(f) /\ IssuerOfFact(f) = IssuerOfFact(list[k])
                                   /\ Above(f) <=> Above(list[k])
    BY <1>2
  <2>2. f \in NewestIn(IssuerOfFact(list[k])) /\ BestOf(IssuerOfFact(list[k])) = {f}
    BY <2>1, NewestIsBest
  <2>3. QED
    BY <2>1, <2>2
<1>6. Cardinality(matches) = Cardinality(above)
  <2> DEFINE at == [r \in matches |-> IssuerOfFact(r)]
  <2>1. at \in [matches -> above]
    BY <1>3, <1>5
  <2>2. \A q, r \in matches : at[q] = at[r] => q = r
    BY <1>1
  <2>3. \A c \in above : \E r \in matches : at[r] = c
    BY <1>4, <1>5
  <2>4. IsFiniteSet(above)
    <3>1. above \in SUBSET Companies
      OBVIOUS
    <3> HIDE DEF above
    <3>2. QED
      BY <3>1, CompaniesFinite, FS_Subset
  <2> HIDE DEF at, matches, above
  <2>5. at \in Injection(matches, above)
    BY <2>1, <2>2, Fun_IsInj
  <2>6. at \in Surjection(matches, above)
    BY <2>1, <2>3 DEF Surjection
  <2>7. QED
    BY <2>4, <2>5, <2>6, FS_Injection
<1>7. IsFiniteSet(above) /\ Cardinality(above) \in Nat
  <2>1. above \in SUBSET Companies
    OBVIOUS
  <2> HIDE DEF above
  <2>2. QED
    BY <2>1, CompaniesFinite, FS_Subset, FS_CardinalityType
<1>8. Len(Listed(list)) = Cardinality(matches)
  <2>1. \E R : Listed(list) = Sorted(matches, R)
    BY DEF Listed, Ordered
  <2>2. PICK R : Listed(list) = Sorted(matches, R)
    BY <2>1
  <2> HIDE DEF matches, above
  <2>3. DOMAIN Listed(list) = 1 .. Cardinality(matches)
    BY <2>2 DEF Sorted
  <2>4. QED
    BY <1>6, <1>7, <2>2, <2>3 DEF Sorted
<1>9. \A c \in Companies : NewestIn(c) # {}
  BY <1>4, <1>5
<1>10. Len(Listed(list)) = Cardinality({c \in Companies : \E f \in BestOf(c) : Above(f)})
  BY <1>6, <1>8
<1>11. QED
  BY <1>9, <1>10 DEF CountIsExact, RowsOf, NewestIn, BestOf

-----------------------------------------------------------------------------
(* From the bundle to the verified answer                                   *)

\* Of a bundle that search returned: its count is exact, and it has no other
\* calculation yet; of facts of a company it has a company.
BundleSound ==
    /\ BundleFields(bundle)
    /\ plan.operation # "count_above" => ~Computed(bundle)
    /\ bundle.answerable /\ plan.operation \notin CorpusWide => plan.company # None
    /\ bundle.answerable /\ plan.operation = "count_above" => CountIsExact(bundle.calculation.value)

\* Of the bundle that an answer is drafted from.
DraftSound ==
    bundle.answerable =>
        /\ Computed(bundle) => CalculationSound(bundle)
        /\ plan.operation = "count_above" => CountIsExact(bundle.calculation.value)

AnswerInv ==
    /\ RetrievalInv /\ FactsOfOverlay
    /\ pc \in {"texts", "titles", "cut"} => plan.operation \notin CorpusWide
    /\ pc \in {"search", "texts", "titles", "cut", "bundle"} => plan.label = None
    /\ pc = "bundle" => BundleSound
    /\ pc \in {"generate", "verify"} => DraftSound
    /\ pc # "done" => ~answer.verified
    /\ NumbersCited

LEMMA SameCount ==
    ASSUME plan' = plan, CountIsExact(bundle'.calculation.value)
    PROVE  CountIsExact(bundle.calculation.value)'
<1> DEFINE above(c) == \E f \in BestOf(c) : Above(f)
<1>1. \A c : RowsOf(c)' = RowsOf(c)
  BY DEF RowsOf, FilingOf, VersionOf, Effective, InForce, Safe
<1>2. \A c : NewestIn(c)' = NewestIn(c)
  BY <1>1 DEF NewestIn, DateOf
<1>3. \A c : BestOf(c)' = BestOf(c)
  BY <1>2 DEF BestOf, ScopeRank
<1>4. \A f : Above(f)' = Above(f)
  BY DEF Above, Amount
<1>5. \A c : above(c)' = above(c)
  BY <1>3, <1>4
<1>6. /\ \A c \in Companies : NewestIn(c) # {}
      /\ bundle'.calculation.value = Cardinality({c \in Companies : above(c)})
  BY DEF CountIsExact, RowsOf, NewestIn, BestOf
<1> HIDE DEF above
<1>7. {c \in Companies : above(c)}' = {c \in Companies : above(c)}
  BY <1>5 DEF Companies
<1>8. (/\ \A c \in Companies : NewestIn(c) # {}
       /\ bundle.calculation.value = Cardinality({c \in Companies : above(c)}))'
  BY <1>2, <1>6, <1>7 DEF Companies
<1>9. QED
  BY <1>8 DEF CountIsExact, RowsOf, NewestIn, BestOf, above

LEMMA SameCalculation ==
    ASSUME plan' = plan, CalculationSound(bundle')
    PROVE  CalculationSound(bundle)'
  BY DEF CalculationSound, OfCompany, FilingOf, DateOf

\* While no answer is verified there is nothing to cite.
LEMMA NothingCited ==
    ASSUME ~answer.verified
    PROVE  NumbersCited
  BY DEF NumbersCited, CountsExact

LEMMA AnswerStarts ==
    ASSUME AgentInit
    PROVE  AnswerInv
<1>1. RetrievalInv
  BY RetrievalStarts
<1>2. pc = "idle" /\ ~answer.verified
  BY DEF AgentInit, Pending
<1>3. FactsOfOverlay
  BY <1>2 DEF FactsOfOverlay
<1>4. QED
  BY <1>1, <1>2, <1>3, NothingCited DEF AnswerInv

LEMMA AskAnswers ==
    ASSUME QuestionsSound, AnswerInv, NEW q \in Questions, Ask(q)
    PROVE  AnswerInv'
<1>1. pc' \in {"done", "search"} /\ ~answer'.verified
  BY DEF Ask, Pending, Abstained
<1>2. RetrievalInv'
  BY AskKeeps DEF AnswerInv
<1>3. FactsOfOverlay'
  BY <1>1 DEF FactsOfOverlay
<1>4. NumbersCited'
  BY <1>1 DEF NumbersCited, CountsExact
<1>5. plan'.label = None
  <2>1. plan' = PlanOf(q) /\ PeriodsSound(q)
    BY DEF Ask, QuestionsSound
  <2>2. QED
    BY <2>1, PlansSound
<1>6. QED
  BY <1>1, <1>2, <1>3, <1>4, <1>5 DEF AnswerInv

\* What search returns.
LEMMA SearchReturns ==
    ASSUME CorpusSound, OverlaySound, Search, pc' = "bundle",
           pc = "cut" => plan.operation \notin CorpusWide
    PROVE  BundleSound'
<1>1. plan' = plan
  BY DEF Search, IdentityLost, Refuse, SearchFacts, SearchIndexed, SearchCorpus, AddTitles, Cut,
         SearchCorpusFinancial
<1>2. CASE bundle' = NoBundle
  BY <1>2 DEF BundleSound, BundleFields, NoBundle, NoCalculation, Computed
<1>3. CASE Cut
  <2>1. /\ BundleFields(bundle') /\ bundle'.calculation = NoCalculation
        /\ bundle'.answerable => plan.company # None
    BY <1>3 DEF Cut, Return, BundleFields
  <2>2. ~Computed(bundle')
    BY <2>1 DEF Computed, NoCalculation
  <2>3. plan.operation \notin CorpusWide
    BY <1>3 DEF Cut
  <2>4. QED
    BY <1>1, <2>1, <2>2, <2>3 DEF BundleSound, BundleFields, Computed, CorpusWide
<1>4. CASE SearchCorpusFinancial /\ bundle' # NoBundle
  <2> DEFINE list == HydrateFacts(LatestFacts, "current", NoDate)
  <2>1. /\ plan.operation \in CorpusWide /\ BundleFields(bundle')
        /\ Len(list) = Cardinality(Companies)
        /\ plan.operation # "count_above" => bundle'.calculation = NoCalculation
        /\ plan.operation = "count_above" => bundle'.calculation.value = Len(Listed(list))
    BY <1>4 DEF SearchCorpusFinancial, Return, Nothing, BundleFields
  <2>2. NewestRows(list)
    BY LeftAreNewest
  <2> HIDE DEF list
  <2>3. plan.operation = "count_above" => CountIsExact(bundle'.calculation.value)
    BY <2>1, <2>2, CountRight
  <2>4. plan.operation = "count_above" => CountIsExact(bundle.calculation.value)'
    BY <1>1, <2>3, SameCount
  <2>5. plan.operation # "count_above" => ~Computed(bundle')
    BY <2>1 DEF Computed, NoCalculation
  <2>6. QED
    BY <1>1, <2>1, <2>4, <2>5, Zenon DEF BundleSound, BundleFields, Computed
<1>5. bundle' = NoBundle \/ Cut \/ SearchCorpusFinancial
  BY DEF Search, IdentityLost, Refuse, SearchFacts, SearchIndexed, SearchCorpus, AddTitles, Nothing, Return
<1>6. QED
  BY <1>2, <1>3, <1>4, <1>5

LEMMA RetrieveAnswers ==
    ASSUME CorpusSound, OverlaySound, AnswerInv, Retrieve
    PROVE  AnswerInv'
<1>1. /\ Search /\ answer' = answer
      /\ pc \in {"search", "texts", "titles", "cut"}
      /\ pc' \in {"texts", "titles", "cut", "bundle"}
  BY DEF Retrieve, Search, IdentityLost, Refuse, SearchFacts, SearchIndexed, SearchCorpus, AddTitles, Cut,
         SearchCorpusFinancial, Nothing, Return
<1>2. RetrievalInv' /\ FactsOfOverlay'
  BY <1>1, SearchKeeps, SearchKeepsFactsOfOverlay DEF AnswerInv
<1>3. ~answer'.verified
  BY <1>1 DEF AnswerInv
<1>4. NumbersCited'
  BY <1>3 DEF NumbersCited, CountsExact
<1>5. pc' = "bundle" => BundleSound'
  BY <1>1, SearchReturns DEF AnswerInv
<1>6. pc' \in {"texts", "titles", "cut"} => plan'.operation \notin CorpusWide
  <2>1. plan' = plan /\ (pc = "search" => pc' = "bundle" \/ plan.operation \notin CorpusWide)
    BY <1>1 DEF Search, IdentityLost, Refuse, SearchFacts, SearchIndexed, SearchCorpus, AddTitles, Cut,
                SearchCorpusFinancial, Nothing, Return
  <2>2. QED
    BY <1>1, <2>1 DEF AnswerInv
<1>7. plan'.label = None
  <2>1. plan' = plan
    BY <1>1 DEF Search, IdentityLost, Refuse, SearchFacts, SearchIndexed, SearchCorpus, AddTitles, Cut,
                SearchCorpusFinancial
  <2>2. QED
    BY <1>1, <2>1 DEF AnswerInv
<1>8. QED
  BY <1>1, <1>2, <1>3, <1>4, <1>5, <1>6, <1>7 DEF AnswerInv

LEMMA AttachAnswers ==
    ASSUME CorpusSound, OverlaySound, AnswerInv, AttachCalculation
    PROVE  AnswerInv'
<1> DEFINE b == Attached(bundle, plan.operation)
<1>1. /\ pc = "bundle" /\ pc' = "generate" /\ plan' = plan /\ answer' = answer
      /\ bundle' = IF plan.operation \in Arithmetic /\ ~Computed(b)
                   THEN [b EXCEPT !.answerable = FALSE] ELSE b
  BY DEF AttachCalculation
<1>2. /\ BundleSound /\ ~answer.verified /\ RetrievalInv /\ plan.label = None
      /\ plan.operation \notin CorpusWide /\ plan.domain # "event" => FromOverlay(bundle.facts)
  BY <1>1 DEF AnswerInv, FactsOfOverlay
<1>3. BundleFields(b) /\ b.answerable = bundle.answerable
  BY <1>2 DEF Attached, BundleSound, BundleFields
<1>4. plan.operation \in Arithmetic => plan.operation \notin CorpusWide /\ plan.operation # "count_above"
  BY DEF Arithmetic, CorpusWide
<1>5. DraftSound'
  <2>1. CASE plan.operation \notin Arithmetic
    <3>1. bundle' = bundle
      BY <1>1, <2>1 DEF Attached
    <3>2. bundle.answerable /\ plan.operation = "count_above" => CountIsExact(bundle.calculation.value)'
      BY <1>1, <1>2, <3>1, SameCount DEF BundleSound
    <3>3. Computed(bundle) => CalculationSound(bundle)'
      BY <1>1, <1>2, <3>1, SameCalculation DEF BundleSound, CalculationSound
    <3>4. QED
      BY <1>1, <3>1, <3>2, <3>3 DEF DraftSound, Computed
  <2>2. CASE plan.operation \in Arithmetic /\ ~Computed(b)
    <3>1. ~bundle'.answerable
      BY <1>1, <1>3, <2>2 DEF BundleFields
    <3>2. QED
      BY <3>1 DEF DraftSound
  <2>3. CASE plan.operation \in Arithmetic /\ Computed(b) /\ ~bundle.answerable
    BY <1>1, <1>3, <2>3 DEF DraftSound
  <2>4. CASE plan.operation \in Arithmetic /\ Computed(b) /\ bundle.answerable
    <3>1. plan.company # None /\ ~Computed(bundle) /\ BundleFields(bundle)
      BY <1>2, <1>4, <2>4 DEF BundleSound
    <3>2. CalculationSound(b)
      BY <1>2, <1>4, <2>4, <3>1, AttachedSound
    <3>3. bundle' = b
      BY <1>1, <2>4
    <3>4. CalculationSound(bundle)'
      BY <1>1, <3>2, <3>3, SameCalculation
    <3>5. QED
      BY <1>1, <1>4, <2>4, <3>4 DEF DraftSound
  <2>5. QED
    BY <2>1, <2>2, <2>3, <2>4
<1>6. RetrievalInv' /\ FactsOfOverlay'
  BY <1>1, <1>2, AnsweringKeeps DEF FactsOfOverlay
<1>7. NumbersCited'
  BY <1>1, <1>2 DEF NumbersCited, CountsExact
<1>8. QED
  BY <1>1, <1>2, <1>5, <1>6, <1>7 DEF AnswerInv

LEMMA GenerateAnswers ==
    ASSUME AnswerInv, Generate
    PROVE  AnswerInv'
<1>1. /\ pc = "generate" /\ pc' = "verify" /\ plan' = plan /\ bundle' = bundle /\ answer' = answer
  BY DEF Generate
<1>2. RetrievalInv /\ DraftSound /\ ~answer.verified
  BY <1>1 DEF AnswerInv
<1>3. RetrievalInv' /\ FactsOfOverlay'
  BY <1>1, <1>2, AnsweringKeeps DEF FactsOfOverlay
<1>4. DraftSound'
  BY <1>1, <1>2, SameCount, SameCalculation DEF DraftSound, Computed
<1>5. NumbersCited'
  BY <1>1, <1>2 DEF NumbersCited, CountsExact
<1>6. QED
  BY <1>1, <1>2, <1>3, <1>4, <1>5 DEF AnswerInv

\* Each number of a draft that is verified is cited, whatever the draft.
LEMMA VerifyCites ==
    ASSUME DraftSound, Verified(bundle, draft), NEW n \in draft.numbers
    PROVE  \/ \E i \in DOMAIN bundle.facts :
                 bundle.facts[i].value = n /\ bundle.facts[i].evidence \subseteq draft.citations
           \/ /\ plan.operation \in Arithmetic /\ bundle.calculation.value = n
              /\ LET operands == bundle.calculation.operands
                 IN  /\ Cardinality(operands) >= 2
                     /\ \A f, g \in operands :
                           /\ f.evidence \subseteq draft.citations
                           /\ OfCompany(f.filing, plan.company)
                           /\ f.account = g.account /\ f.scope = g.scope
                           /\ f # g => DateOf(f) # DateOf(g)
           \/ plan.operation = "count_above" /\ bundle.calculation.value = n
<1>1. bundle.answerable /\ n \in Known(bundle)
  BY DEF Verified, Trusted
<1>2. CASE ~Computed(bundle)
  <2>1. n \in Values(bundle.facts)
    BY <1>1, <1>2 DEF Known
  <2>2. PICK i \in DOMAIN bundle.facts : bundle.facts[i].value = n
    BY <2>1 DEF Values
  <2>3. bundle.facts # <<>>
    BY <2>2
  <2>4. EvidenceOf(bundle.facts) \subseteq draft.citations
    BY <1>2, <2>3 DEF Verified, Required
  <2>5. bundle.facts[i].evidence \subseteq draft.citations
    BY <2>2, <2>4 DEF EvidenceOf
  <2>6. QED
    BY <2>2, <2>5
<1>3. CASE Computed(bundle)
  <2>1. bundle.calculation.value = n /\ bundle.calculation.evidence \subseteq draft.citations
    BY <1>3 DEF Verified
  <2>2. CalculationSound(bundle)
    BY <1>1, <1>3 DEF DraftSound
  <2>3. CASE plan.operation = "count_above"
    BY <2>1, <2>3
  <2>4. CASE plan.operation # "count_above"
    <3> DEFINE operands == bundle.calculation.operands
    <3>1. /\ plan.operation \in Arithmetic
          /\ \A f \in operands : /\ f.evidence \subseteq bundle.calculation.evidence
                                 /\ OfCompany(f.filing, plan.company)
          /\ \A f, g \in operands : /\ f.account = g.account /\ f.scope = g.scope
                                    /\ f # g => DateOf(f) # DateOf(g)
          /\ \/ Cardinality(operands) >= 2
             \/ \E i \in DOMAIN bundle.facts :
                   operands = {bundle.facts[i]} /\ bundle.calculation.value = bundle.facts[i].value
      BY <2>2, <2>4 DEF CalculationSound
    <3>2. CASE Cardinality(operands) >= 2
      BY <2>1, <3>1, <3>2
    <3>3. CASE \E i \in DOMAIN bundle.facts :
                  operands = {bundle.facts[i]} /\ bundle.calculation.value = bundle.facts[i].value
      <4>1. PICK i \in DOMAIN bundle.facts :
                operands = {bundle.facts[i]} /\ bundle.calculation.value = bundle.facts[i].value
        BY <3>3
      <4>2. bundle.facts[i].evidence \subseteq draft.citations
        BY <2>1, <3>1, <4>1
      <4>3. QED
        BY <2>1, <4>1, <4>2
    <3>4. QED
      BY <3>1, <3>2, <3>3
  <2>5. QED
    BY <2>3, <2>4
<1>4. QED
  BY <1>2, <1>3

LEMMA VerifyAnswers ==
    ASSUME AnswerInv, Verify
    PROVE  AnswerInv'
<1>1. /\ pc = "verify" /\ pc' = "done" /\ plan' = plan /\ bundle' = bundle
      /\ answer'.verified => /\ Verified(bundle, draft)
                             /\ answer'.citations = draft.citations /\ answer'.numbers = draft.numbers
  BY DEF Verify, Abstained, Pending
<1>2. RetrievalInv /\ DraftSound
  BY <1>1 DEF AnswerInv
<1>3. RetrievalInv' /\ FactsOfOverlay'
  BY <1>1, <1>2, AnsweringKeeps DEF FactsOfOverlay
<1>4. CountsExact'
  <2> SUFFICES ASSUME answer'.verified, plan.operation = "count_above"
               PROVE  CountIsExact(bundle.calculation.value)'
    BY <1>1 DEF CountsExact
  <2>1. bundle.answerable
    BY <1>1 DEF Verified
  <2>2. CountIsExact(bundle'.calculation.value)
    BY <1>1, <1>2, <2>1 DEF DraftSound
  <2>3. QED
    BY <1>1, <2>2, SameCount
<1>5. NumbersCited'
  <2> SUFFICES ASSUME answer'.verified, NEW n \in answer'.numbers
               PROVE  (\/ \E i \in DOMAIN bundle.facts :
                             bundle.facts[i].value = n /\ bundle.facts[i].evidence \subseteq answer.citations
                       \/ /\ plan.operation \in Arithmetic /\ bundle.calculation.value = n
                          /\ LET operands == bundle.calculation.operands
                             IN  /\ Cardinality(operands) >= 2
                                 /\ \A f, g \in operands :
                                       /\ f.evidence \subseteq answer.citations
                                       /\ OfCompany(f.filing, plan.company)
                                       /\ f.account = g.account /\ f.scope = g.scope
                                       /\ f # g => DateOf(f) # DateOf(g)
                       \/ plan.operation = "count_above" /\ bundle.calculation.value = n)'
    BY <1>4 DEF NumbersCited
  <2>1. Verified(bundle, draft) /\ n \in draft.numbers /\ answer'.citations = draft.citations
    BY <1>1
  <2>2. QED
    BY <1>1, <1>2, <2>1, VerifyCites DEF OfCompany, FilingOf, DateOf
<1>6. QED
  BY <1>1, <1>3, <1>5 DEF AnswerInv

LEMMA NextAnswers ==
    ASSUME AnswerInv, NextQuestion
    PROVE  AnswerInv'
<1>1. pc' = "idle" /\ ~answer'.verified
  BY DEF NextQuestion, Pending
<1>2. RetrievalInv' /\ FactsOfOverlay'
  BY <1>1, AnsweringKeeps DEF FactsOfOverlay, AnswerInv
<1>3. NumbersCited'
  BY <1>1 DEF NumbersCited, CountsExact
<1>4. QED
  BY <1>1, <1>2, <1>3 DEF AnswerInv

LEMMA StutterAnswers ==
    ASSUME AnswerInv, UNCHANGED agentVars
    PROVE  AnswerInv'
<1>1. /\ plan' = plan /\ pc' = pc /\ refs' = refs /\ facts' = facts /\ cache' = cache
      /\ bundle' = bundle /\ answer' = answer
  BY DEF agentVars, retrievalVars
<1>2. RetrievalInv'
  BY <1>1, SameRetrieval DEF AnswerInv
<1>3. FactsOfOverlay'
  BY <1>1 DEF AnswerInv, FactsOfOverlay, FromOverlay, OfCompany, FilingOf
<1>4. pc = "bundle" => BundleSound'
  BY <1>1, SameCount DEF AnswerInv, BundleSound, BundleFields, Computed
<1>5. pc \in {"generate", "verify"} => DraftSound'
  BY <1>1, SameCount, SameCalculation DEF AnswerInv, DraftSound, Computed
<1>6. CountsExact'
  BY <1>1, SameCount DEF AnswerInv, NumbersCited, CountsExact
<1>7. NumbersCited'
  BY <1>1, <1>6 DEF AnswerInv, NumbersCited, OfCompany, FilingOf, DateOf
<1>8. QED
  BY <1>1, <1>2, <1>3, <1>4, <1>5, <1>7 DEF AnswerInv

\* Of any corpus and overlay that the import accepts, any questions, and whatever the
\* provider writes: a number of a verified answer is a cited fact's, or computed from
\* two or more cited facts of the company, of one account and scope and of different
\* periods; and a count of companies is exact.
THEOREM AnswersCiteTheirNumbers ==
    CorpusSound /\ OverlaySound /\ QuestionsSound /\ AgentSpec => []NumbersCited
<1> SUFFICES ASSUME CorpusSound, OverlaySound, QuestionsSound
             PROVE  AgentSpec => []NumbersCited
  OBVIOUS
<1>1. AgentInit => AnswerInv
  BY AnswerStarts
<1>2. AnswerInv /\ [AgentNext]_agentVars => AnswerInv'
  <2> SUFFICES ASSUME AnswerInv, [AgentNext]_agentVars PROVE AnswerInv'
    OBVIOUS
  <2>1. CASE \E q \in Questions : Ask(q)
    BY <2>1, AskAnswers
  <2>2. CASE Retrieve
    BY <2>2, RetrieveAnswers
  <2>3. CASE AttachCalculation
    BY <2>3, AttachAnswers
  <2>4. CASE Generate
    BY <2>4, GenerateAnswers
  <2>5. CASE Verify
    BY <2>5, VerifyAnswers
  <2>6. CASE NextQuestion
    BY <2>6, NextAnswers
  <2>7. CASE UNCHANGED agentVars
    BY <2>7, StutterAnswers
  <2>8. QED
    BY <2>1, <2>2, <2>3, <2>4, <2>5, <2>6, <2>7 DEF AgentNext
<1>3. AnswerInv => NumbersCited
  BY DEF AnswerInv
<1>4. QED
  BY <1>1, <1>2, <1>3, PTL DEF AgentSpec

-----------------------------------------------------------------------------
(* The tools                                                                *)

\* What is left of a fact is of its kind.
LEMMA LeftKind ==
    ASSUME NEW row \in FactRows, NEW f \in FactRows, LeftOf(row, f)
    PROVE  row.kind = f.kind
<1> DEFINE h == [row EXCEPT !.evidence = f.evidence]
<1>1. h.kind = row.kind
  BY DEF FactRows
<1>2. h = f
  BY DEF LeftOf
<1>3. QED
  BY <1>1, <1>2

-----------------------------------------------------------------------------
(* The searches of the tools                                                *)

SearchTools == {"search_disclosures", "build_summary_context"}

\* Whatever the index and the dense service find, what the hybrid search returns of it
\* is text of the company, filing and days of the request, in a version of its policy.
LEMMA HitsAreText ==
    ASSUME CorpusSound, CacheSound, NEW r, r.policy \in Policies, NEW hits \in HybridHits(r),
           NEW id \in hits, TextAdmitted(id)
    PROVE  id \in DOMAIN Evidence /\ TextOf(id, r)
<1> DEFINE t == SearchOf(r)
<1>1. \/ id \in IndexRows(t)
      \/ \E given : id \in DenseRefs(given, t)
  BY DEF HybridHits
<1>2. /\ t.company = r.company /\ t.policy = r.policy /\ t.asOf = NoDate /\ t.filing = r.filing
      /\ t.filed = NoDate /\ t.since = r.since /\ t.until = r.until
  BY DEF SearchOf
<1> HIDE DEF t
<1>3. /\ id \in DOMAIN Evidence /\ Evidence[id].ok
      /\ \E reader \in {"index", "dense"} : Asked(Evidence[id].filing, t, reader)
  <2>1. CASE id \in IndexRows(t)
    BY <2>1 DEF IndexRows
  <2>2. ASSUME NEW given, id \in DenseRefs(given, t)
        PROVE  /\ id \in DOMAIN Evidence /\ Evidence[id].ok
               /\ Asked(Evidence[id].filing, t, "dense")
    <3>1. id \in DOMAIN Evidence /\ Evidence[id].ok /\ Evidence[id].filing \in DenseFilings(t)
      BY <2>2 DEF DenseRefs, HydrateAs
    <3>2. QED
      BY <3>1, DenseFilingsAsked
  <2>3. QED
    BY <1>1, <2>1, <2>2
<1>4. PICK reader \in {"index", "dense"} : Asked(Evidence[id].filing, t, reader)
  BY <1>3
<1>5. Evidence[id].filing \in DOMAIN Filings
  BY <1>3 DEF CorpusSound
<1>6. /\ OfCompany(Evidence[id].filing, r.company)
      /\ r.filing # AnyFiling => Evidence[id].filing = r.filing
      /\ r.since # NoDate => FilingOf(Evidence[id].filing).filed >= r.since
      /\ r.until # NoDate => FilingOf(Evidence[id].filing).filed <= r.until
      /\ AdmitsAs(reader, Evidence[id].filing, r.policy, NoDate)
  BY <1>2, <1>4 DEF Asked, Filed
<1>7. AdmitsAs("hydrate", Evidence[id].filing, r.policy, NoDate)
  <2>1. FilingOf(Evidence[id].filing).correction \in BOOLEAN
    BY <1>5 DEF CorpusSound, FilingOf
  <2>2. QED
    BY <1>6, <2>1, ReaderHydrates DEF AdmitsAs
<1>8. QED
  BY <1>3, <1>6, <1>7 DEF TextOf

-----------------------------------------------------------------------------
(* The chain of an event                                                    *)

InChain(n) == {p \in EventOf(n) \X EventOf(n) : VersionOf(p[1]).no < VersionOf(p[2]).no}

\* The filings of an event have the numbers of their versions.
LEMMA ChainNumbered ==
    ASSUME CorpusSound, ChainsSound, NEW n \in DOMAIN Filings
    PROVE  LET chain == EventOf(n)
               last == Cardinality(chain)
           IN  \A m \in chain :
                /\ VersionOf(m).no \in 1 .. last /\ (VersionOf(m).current <=> VersionOf(m).no = last)
                /\ VersionOf(m).status = "root" => VersionOf(m).no = 1
                /\ \A k \in chain :
                    /\ VersionOf(k).no = VersionOf(m).no => k = m
                    /\ VersionOf(k).no < VersionOf(m).no => FilingOf(k).filed <= FilingOf(m).filed
                    /\ VersionOf(k).no + 1 = VersionOf(m).no => VersionOf(m).parent = k
<1> DEFINE chain == EventOf(n)
           versions == {VersionOf(m) : m \in DOMAIN Filings}
           listed == OfEvent(versions, VersionOf(n).event)
           version == [m \in chain |-> VersionOf(m)]
<1>1. chain \in SUBSET DOMAIN Filings /\ \A m \in chain : VersionOf(m).event = VersionOf(n).event
  BY DEF EventOf
<1>2. \A m \in DOMAIN Filings : VersionOf(m).filing = m /\ VersionOf(m).from = FilingOf(m).filed
  BY DEF ChainsSound
<1>3. \A m \in chain : VersionOf(m) \in listed
  BY <1>1 DEF OfEvent
<1>4. Cardinality(listed) = Cardinality(chain)
  <2>1. version \in [chain -> listed]
    BY <1>3
  <2>2. \A k, m \in chain : version[k] = version[m] => k = m
    BY <1>1, <1>2
  <2>3. \A v \in listed : \E m \in chain : version[m] = v
    BY DEF OfEvent, EventOf
  <2>4. IsFiniteSet(chain)
    BY <1>1, FS_Subset DEF CorpusSound
  <2> HIDE DEF version, listed, chain
  <2>5. version \in Bijection(chain, listed)
    BY <2>1, <2>2, <2>3, Fun_IsInj DEF Bijection, Surjection
  <2>6. QED
    BY <2>4, <2>5, FS_Bijection DEF ExistsBijection
<1>5. ASSUME NEW m \in chain PROVE Placed(VersionOf(m), listed)
  <2>1. Numbered(versions) /\ VersionOf(m) \in versions
    BY <1>1 DEF ChainsSound
  <2>2. QED
    BY <1>1, <2>1 DEF Numbered
<1> HIDE DEF listed, chain
<1>6. QED
  BY <1>1, <1>2, <1>3, <1>4, <1>5 DEF Placed, chain

\* The versions of an event are listed by their numbers.
LEMMA ChainListed ==
    ASSUME CorpusSound, ChainsSound, NEW n \in DOMAIN Filings
    PROVE  LET chain == EventOf(n)
               list == Sorted(chain, InChain(n))
           IN  /\ Cardinality(chain) \in Nat \ {0}
               /\ list \in [1 .. Cardinality(chain) -> chain]
               /\ \A k \in 1 .. Cardinality(chain) : VersionOf(list[k]).no = k
<1> DEFINE chain == EventOf(n)
           last == Cardinality(chain)
           list == Sorted(chain, InChain(n))
           number == [m \in chain |-> VersionOf(m).no]
<1>1. chain \in SUBSET DOMAIN Filings /\ n \in chain /\ \A m \in chain : EventOf(m) = chain
  BY DEF EventOf
<1>2. IsFiniteSet(chain) /\ last \in Nat
  BY <1>1, FS_Subset, FS_CardinalityType DEF CorpusSound
<1>3. \A m \in chain : /\ VersionOf(m).no \in 1 .. last
                       /\ \A k \in chain : VersionOf(k).no = VersionOf(m).no => k = m
  BY ChainNumbered
<1> HIDE DEF chain
<1>4. last \in Nat \ {0}
  BY <1>1, <1>2, <1>3
<1> HIDE DEF last
<1>5. number \in Surjection(chain, 1 .. last)
  <2>1. number \in [chain -> 1 .. last] /\ \A k, m \in chain : number[k] = number[m] => k = m
    BY <1>3
  <2>2. IsFiniteSet(1 .. last) /\ Cardinality(1 .. last) = last
    <3>1. 1 \in Int /\ last \in Int
      BY <1>2
    <3>2. IsFiniteSet(1 .. last) /\ Cardinality(1 .. last) = IF 1 > last THEN 0 ELSE last - 1 + 1
      BY <3>1, FS_Interval
    <3>3. QED
      BY <1>4, <3>2
  <2> HIDE DEF number
  <2>3. number \in Injection(chain, 1 .. last)
    BY <2>1, Fun_IsInj
  <2>4. QED
    BY <1>2, <2>2, <2>3, FS_Injection DEF last
<1>6. TotalOrder(InChain(n), chain)
  BY <1>3 DEF TotalOrder, InChain, chain
<1>7. \A m \in chain : Rank(chain, InChain(n), m) = VersionOf(m).no - 1
  <2> SUFFICES ASSUME NEW m \in chain PROVE Rank(chain, InChain(n), m) = VersionOf(m).no - 1
    OBVIOUS
  <2> DEFINE before == {k \in chain : <<k, m>> \in InChain(n)}
             below == [k \in before |-> number[k]]
             top == VersionOf(m).no - 1
  <2>1. top \in Nat /\ top + 1 \in 1 .. last
    BY <1>3, <1>4
  <2>2. \A k \in chain : k \in before <=> VersionOf(k).no < VersionOf(m).no
    BY DEF InChain, chain
  <2>3. IsFiniteSet(before)
    BY <1>2, FS_Subset
  <2>4. below \in [before -> 1 .. top]
    <3>1. \A k \in before : VersionOf(k).no \in 1 .. top
      BY <1>3, <2>1, <2>2
    <3>2. QED
      BY <3>1
  <2>5. \A j, k \in before : below[j] = below[k] => j = k
    BY <1>3
  <2>6. \A i \in 1 .. top : \E k \in before : below[k] = i
    <3> SUFFICES ASSUME NEW i \in 1 .. top PROVE \E k \in before : below[k] = i
      OBVIOUS
    <3>1. i \in 1 .. last /\ i < VersionOf(m).no
      <4>1. last \in Nat /\ VersionOf(m).no \in Nat /\ VersionOf(m).no = top + 1
        BY <1>3, <1>4
      <4> HIDE DEF top
      <4>2. QED
        BY <2>1, <4>1
    <3>2. PICK k \in chain : number[k] = i
      BY <1>5, <3>1 DEF Surjection
    <3>3. k \in before
      BY <2>2, <3>1, <3>2
    <3>4. QED
      BY <3>2, <3>3
  <2> HIDE DEF below, before, top
  <2>7. below \in Injection(before, 1 .. top) /\ below \in Surjection(before, 1 .. top)
    BY <2>4, <2>5, <2>6, Fun_IsInj DEF Surjection
  <2>8. Cardinality(1 .. top) = Cardinality(before)
    BY <2>3, <2>7, FS_Surjection
  <2>9. Cardinality(1 .. top) = top
    <3>1. 1 \in Int /\ top \in Int
      BY <2>1
    <3>2. Cardinality(1 .. top) = IF 1 > top THEN 0 ELSE top - 1 + 1
      BY <3>1, FS_Interval
    <3>3. QED
      BY <2>1, <3>2
  <2>10. QED
    BY <2>8, <2>9 DEF Rank, before, top
<1>8. ASSUME NEW k \in 1 .. last PROVE list[k] \in chain /\ VersionOf(list[k]).no = k
  <2> DEFINE taken == CHOOSE x \in chain : Rank(chain, InChain(n), x) = k - 1
  <2>1. taken \in chain /\ Rank(chain, InChain(n), taken) = k - 1
    BY <1>2, <1>6, PlacesTaken DEF last
  <2>2. list[k] = taken
    BY DEF Sorted, Rank, last
  <2> HIDE DEF taken, list
  <2>3. VersionOf(taken).no - 1 = k - 1 /\ VersionOf(taken).no \in Nat
    BY <1>3, <1>7, <2>1
  <2>4. QED
    BY <2>1, <2>2, <2>3
<1>9. list \in [1 .. last -> chain]
  <2>1. list \in [1 .. last -> chain]
    BY <1>2, <1>6, SortedLists DEF last
  <2>2. QED
    BY <2>1
<1>10. QED
  BY <1>4, <1>8, <1>9 DEF last, chain

\* What one set has one member of is that member.
LEMMA OnlyMember ==
    ASSUME NEW S, IsFiniteSet(S), Only(S) # 0
    PROVE  S = {Only(S)}
<1>1. Cardinality(S) = 1
  BY DEF Only
<1>2. PICK x : S = {x}
  BY <1>1, FS_Singleton
<1>3. Only(S) = x
  BY <1>1, <1>2 DEF Only
<1>4. QED
  BY <1>2, <1>3

\* A lineage that the checker calls sufficient is the whole chain of the filing, from
\* its original, each version after its parent, to the one in force.
LEMMA LineagesSufficient ==
    ASSUME CorpusSound, ChainsSound, GetCorrectionLineage
    PROVE  ToolEvidenceSufficient'
<1> DEFINE versions == IF request.filing \in DOMAIN Filings THEN EventOf(request.filing) ELSE {}
           roots == {n \in versions : VersionOf(n).status = "root"}
           currents == {n \in versions : VersionOf(n).current}
           pairs == {p \in versions \X versions : VersionOf(p[1]).no < VersionOf(p[2]).no}
           list == Sorted(versions, InChain(request.filing))
           d == response'.data
           b == response'.bundle
<1> SUFFICES ASSUME response'.status = "sufficient"
             PROVE  b.ids # {} /\ Unbroken(d, request)
  BY DEF ToolEvidenceSufficient, GetCorrectionLineage
<1>1. /\ request.tool = "get_correction_lineage"
      /\ response'.status = Sufficiency(request, b, d)
      /\ d.original = Only(roots) /\ d.current = Only(currents)
      /\ d.versions = Sorted(versions, pairs)
      /\ d.confidence = Confidence(versions)
  BY DEF GetCorrectionLineage, Reply, NoData, Ordered
<1> HIDE DEF versions, d, b
<1>2. /\ d.confidence = "high" /\ d.original # 0 /\ d.current # 0 /\ b.ids # {}
  BY <1>1 DEF Sufficiency
<1>3. versions # {} /\ \A n \in versions : Safe(VersionOf(n))
  BY <1>1, <1>2 DEF Confidence
<1>4. request.filing \in DOMAIN Filings /\ versions = EventOf(request.filing)
  BY <1>3 DEF versions
<1>5. d.versions = list
  BY <1>1, <1>4 DEF InChain
<1> DEFINE last == Cardinality(versions)
<1>6. /\ last \in Nat \ {0} /\ list \in [1 .. last -> versions]
      /\ \A k \in 1 .. last : VersionOf(list[k]).no = k
  BY <1>4, ChainListed
<1>7. \A m \in versions : m \in DOMAIN Filings /\ EventOf(m) = versions
  BY <1>4 DEF EventOf
<1>8. IsFiniteSet(roots) /\ IsFiniteSet(currents)
  <2>1. roots \in SUBSET DOMAIN Filings /\ currents \in SUBSET DOMAIN Filings
    BY <1>7
  <2>2. QED
    BY <2>1, FS_Subset DEF CorpusSound
<1> HIDE DEF roots, currents
<1>9. d.original \in roots /\ d.current \in currents
  BY <1>1, <1>2, <1>8, OnlyMember
<1> USE DEF roots, currents
<1> HIDE DEF list
<1>10. \A m \in versions :
        /\ VersionOf(m).no \in 1 .. last /\ (VersionOf(m).current <=> VersionOf(m).no = last)
        /\ VersionOf(m).status = "root" => VersionOf(m).no = 1
        /\ \A k \in versions :
            /\ VersionOf(k).no = VersionOf(m).no => k = m
            /\ VersionOf(k).no < VersionOf(m).no => FilingOf(k).filed <= FilingOf(m).filed
            /\ VersionOf(k).no + 1 = VersionOf(m).no => VersionOf(m).parent = k
  BY <1>4, ChainNumbered
<1> HIDE DEF last
<1>11. list # <<>> /\ list[1] = d.original /\ Len(list) = last /\ list[last] = d.current
  <2>1. Len(list) = last /\ list # <<>>
    BY <1>6
  <2>2. /\ d.original \in versions /\ VersionOf(d.original).no = 1
        /\ d.current \in versions /\ VersionOf(d.current).no = last
    BY <1>9, <1>10
  <2>3. 1 \in 1 .. last /\ last \in 1 .. last
    BY <1>6
  <2>4. /\ list[1] \in versions /\ VersionOf(list[1]).no = 1
        /\ list[last] \in versions /\ VersionOf(list[last]).no = last
    BY <1>6, <2>3
  <2>5. QED
    BY <1>10, <2>1, <2>2, <2>4
<1>12. Effective(VersionOf(d.current), NoDate)
  BY <1>3, <1>9 DEF Effective
<1>13. {list[i] : i \in 1 .. last} = versions
  <2>1. ASSUME NEW m \in versions PROVE \E i \in 1 .. last : list[i] = m
    <3>1. VersionOf(m).no \in 1 .. last
      BY <1>10
    <3>2. /\ list[VersionOf(m).no] \in versions
          /\ VersionOf(list[VersionOf(m).no]).no = VersionOf(m).no
      BY <1>6, <3>1
    <3>3. list[VersionOf(m).no] = m
      BY <1>10, <3>2
    <3>4. QED
      BY <3>1, <3>3
  <2>2. QED
    BY <1>6, <2>1
<1>14. ASSUME NEW i \in 1 .. last, NEW j \in 1 .. last
       PROVE  /\ i < j => FilingOf(list[i]).filed <= FilingOf(list[j]).filed
              /\ i + 1 = j => VersionOf(list[j]).parent = list[i]
  <2>1. /\ list[i] \in versions /\ VersionOf(list[i]).no = i
        /\ list[j] \in versions /\ VersionOf(list[j]).no = j
    BY <1>6
  <2>2. QED
    BY <1>10, <2>1
<1>15. DOMAIN list = 1 .. last
  BY <1>6
<1>16. QED
  BY <1>2, <1>4, <1>5, <1>11, <1>12, <1>13, <1>14, <1>15 DEF Unbroken

-----------------------------------------------------------------------------
(* The newest filings of a trend                                            *)

Ahead(r, n) ==
    {m \in Counted(r) : \/ FilingOf(m).filed > FilingOf(n).filed
                        \/ FilingOf(m).filed = FilingOf(n).filed /\ m < n}

\* What is shown for filings is of these filings.
LEMMA FragmentsOfFilings ==
    ASSUME NEW filings
    PROVE  FilingsOf(FirstFragments(filings)) \subseteq filings
<1> DEFINE own(n) == {id \in DOMAIN Evidence : Evidence[id].filing = n /\ ~Evidence[id].cell}
           first(n) == CHOOSE id \in own(n) : TRUE
<1>1. ASSUME NEW n, own(n) # {} PROVE Evidence[first(n)].filing = n
  <2>1. first(n) \in own(n)
    BY <1>1
  <2> HIDE DEF first
  <2>2. QED
    BY <2>1
<1>2. FirstFragments(filings) = {first(n) : n \in {m \in filings : own(m) # {}}}
  BY DEF FirstFragments
<1> HIDE DEF first, own
<1>3. QED
  BY <1>1, <1>2 DEF FilingsOf

\* Of two filings of which only one is shown, the other is no newer.
LEMMA NewestFirst ==
    ASSUME CorpusSound, FilingsSound, NEW r, r.limit \in Nat,
           NEW n \in Counted(r), n \notin Representatives(r), NEW m \in Representatives(r)
    PROVE  FilingOf(n).filed <= FilingOf(m).filed
<1>1. /\ \A k \in Counted(r) : k \in DOMAIN Filings /\ FilingOf(k).filed \in Nat
      /\ Counted(r) \in SUBSET DOMAIN Filings /\ m \in Counted(r)
  BY DEF Counted, Available, FilingsSound, Representatives
<1>2. IsFiniteSet(Ahead(r, n)) /\ IsFiniteSet(Ahead(r, m))
  BY <1>1, FS_Subset DEF CorpusSound, Ahead
<1>3. Cardinality(Ahead(r, m)) < r.limit /\ ~(Cardinality(Ahead(r, n)) < r.limit)
  BY DEF Representatives, Ahead
<1>4. SUFFICES ASSUME FilingOf(n).filed > FilingOf(m).filed PROVE FALSE
  BY <1>1
<1>5. Ahead(r, n) \subseteq Ahead(r, m)
  BY <1>1, <1>4 DEF Ahead
<1>6. /\ Cardinality(Ahead(r, n)) <= Cardinality(Ahead(r, m))
      /\ Cardinality(Ahead(r, n)) \in Nat /\ Cardinality(Ahead(r, m)) \in Nat
  BY <1>2, <1>5, FS_Subset, FS_CardinalityType
<1>7. QED
  BY <1>3, <1>6

\* A trend that the checker calls sufficient shows the newest filings of the days asked
\* for.
LEMMA TrendsSufficient ==
    ASSUME CorpusSound, FilingsSound, request.limit \in Nat, AnalyzeDisclosureTrend
    PROVE  ToolEvidenceSufficient'
<1> DEFINE shown == Representatives(request)
           b == response'.bundle
<1> SUFFICES ASSUME response'.status = "sufficient"
             PROVE  b.ids # {} /\ NewestShown(request, b)
  BY DEF ToolEvidenceSufficient, AnalyzeDisclosureTrend
<1>1. /\ request.tool = "analyze_disclosure_trend"
      /\ response'.status = Sufficiency(request, b, response'.data)
      /\ b.ids = FirstFragments(shown) /\ b.filings = shown
  BY DEF AnalyzeDisclosureTrend, Reply, Evidenced
<1> HIDE DEF b
<1>2. b.ids # {}
  BY <1>1 DEF Sufficiency
<1>3. FilingsOf(b.ids) \subseteq Counted(request)
  <2>1. shown \subseteq Counted(request)
    BY DEF Representatives
  <2>2. QED
    BY <1>1, <2>1, FragmentsOfFilings
<1>4. QED
  BY <1>1, <1>2, <1>3, NewestFirst DEF NewestShown

-----------------------------------------------------------------------------
(* The cell of a statement                                                  *)

\* What a function makes of a finite set is finite.
LEMMA ImageFinite ==
    ASSUME NEW S, IsFiniteSet(S), NEW f, f = [x \in S |-> f[x]]
    PROVE  IsFiniteSet({f[x] : x \in S})
<1>1. f \in Surjection(S, {f[x] : x \in S})
  BY DEF Surjection
<1>2. QED
  BY <1>1, FS_Surjection

TablesOf(r) == UNION {FilingOf(n).tables : n \in Report(r)}

CellsOf(t) == {[table |-> t, row |-> w, column |-> c] : w \in DOMAIN t.rows, c \in DOMAIN t.columns}

\* A cell is one of a table of the report, under a header that fits.
LEMMA CellRead ==
    ASSUME NEW r, NEW x \in StatementCells(r)
    PROVE  \E n \in Report(r) : \E t \in FilingOf(n).tables :
                /\ x \in CellsOf(t) /\ x.table = t /\ x.column \in DOMAIN t.columns
                /\ ColumnFits(t, x.column, r)
<1>1. x \in UNION {CellsOf(t) : t \in TablesOf(r)} /\ ColumnFits(x.table, x.column, r)
  BY DEF StatementCells, CellsOf, TablesOf
<1>2. PICK n \in Report(r) : \E t \in FilingOf(n).tables : x \in CellsOf(t)
  BY <1>1 DEF TablesOf
<1>3. PICK t \in FilingOf(n).tables : x \in CellsOf(t)
  BY <1>2
<1>4. x.table = t /\ x.column \in DOMAIN t.columns
  BY <1>3 DEF CellsOf
<1>5. QED
  BY <1>1, <1>3, <1>4

\* The cells of a report are finitely many.
LEMMA CellsFinite ==
    ASSUME CorpusSound, FilingsSound, NEW r
    PROVE  IsFiniteSet(StatementCells(r))
<1>1. /\ Report(r) \in SUBSET DOMAIN Filings
      /\ \A n \in Report(r) : IsFiniteSet(FilingOf(n).tables)
      /\ \A t \in TablesOf(r) : IsFiniteSet(DOMAIN t.rows) /\ IsFiniteSet(DOMAIN t.columns)
  BY DEF Report, Available, FilingsSound, TablesOf
<1>2. IsFiniteSet(TablesOf(r))
  <2> DEFINE tables == [n \in Report(r) |-> FilingOf(n).tables]
  <2>1. IsFiniteSet(Report(r))
    BY <1>1, FS_Subset DEF CorpusSound
  <2>2. IsFiniteSet({tables[n] : n \in Report(r)})
    BY <2>1, ImageFinite
  <2>3. IsFiniteSet(UNION {tables[n] : n \in Report(r)})
    BY <1>1, <2>2, FS_UNION
  <2>4. TablesOf(r) = UNION {tables[n] : n \in Report(r)}
    BY DEF TablesOf
  <2>5. QED
    BY <2>3, <2>4
<1>3. ASSUME NEW t \in TablesOf(r) PROVE IsFiniteSet(CellsOf(t))
  <2> DEFINE places == (DOMAIN t.rows) \X (DOMAIN t.columns)
             cell == [p \in places |-> [table |-> t, row |-> p[1], column |-> p[2]]]
  <2>1. IsFiniteSet(places)
    BY <1>1, FS_Product
  <2>2. /\ cell = [p \in places |-> cell[p]]
        /\ \A w \in DOMAIN t.rows, c \in DOMAIN t.columns :
                <<w, c>> \in places /\ cell[<<w, c>>] = [table |-> t, row |-> w, column |-> c]
    OBVIOUS
  <2> HIDE DEF cell, places
  <2>3. IsFiniteSet({cell[p] : p \in places})
    BY <2>1, <2>2, ImageFinite
  <2>4. ASSUME NEW x \in CellsOf(t) PROVE x \in {cell[p] : p \in places}
    <3>1. PICK w \in DOMAIN t.rows, c \in DOMAIN t.columns :
                x = [table |-> t, row |-> w, column |-> c]
      BY DEF CellsOf
    <3>2. QED
      BY <2>2, <3>1
  <2>5. CellsOf(t) \subseteq {cell[p] : p \in places}
    BY <2>4
  <2>6. QED
    BY <2>3, <2>5, FS_Subset
<1> DEFINE cells == [t \in TablesOf(r) |-> CellsOf(t)]
           all == {cells[t] : t \in TablesOf(r)}
<1>4. IsFiniteSet(all)
  BY <1>2, ImageFinite
<1>5. IsFiniteSet(UNION all)
  BY <1>3, <1>4, FS_UNION
<1>6. StatementCells(r) \subseteq UNION all
  <2>1. ASSUME NEW x \in StatementCells(r) PROVE x \in UNION all
    <3>1. PICK t \in TablesOf(r) : x \in CellsOf(t)
      BY CellRead DEF TablesOf
    <3>2. QED
      BY <3>1
  <2>2. QED
    BY <2>1
<1>7. QED
  BY <1>5, <1>6, FS_Subset

\* Cells that are unanimous say the same.
LEMMA UnanimousAgree ==
    ASSUME NEW cells, IsFiniteSet(cells), Unanimous(cells), NEW x \in cells, NEW y \in cells
    PROVE  /\ y.table.rows[y.row].values[y.column] = x.table.rows[x.row].values[x.column]
           /\ y.table.scale = x.table.scale
<1> DEFINE said == [c \in cells |-> <<c.table.rows[c.row].values[c.column], c.table.scale>>]
           all == {said[c] : c \in cells}
<1>1. IsFiniteSet(all)
  BY ImageFinite
<1>2. Cardinality(all) = 1
  BY DEF Unanimous
<1>3. said[x] \in all /\ said[y] \in all
  OBVIOUS
<1> HIDE DEF all
<1>4. said[x] = said[y]
  <2> HIDE DEF said
  <2>1. QED
    BY <1>1, <1>2, <1>3, FS_Singleton
<1>5. QED
  BY <1>4

\* A cell is read from a statement of the newest report in force.
LEMMA CellOfReport ==
    ASSUME FilingsSound, NEW r, NEW x \in StatementCells(r)
    PROVE  \E n \in Report(r) : ReadFrom(x, r, n)
<1>1. PICK n \in Report(r) : \E t \in FilingOf(n).tables :
            x.table = t /\ ColumnFits(t, x.column, r)
  BY CellRead
<1>2. /\ x.table \in FilingOf(n).tables /\ ColumnFits(x.table, x.column, r)
      /\ x.table.statement \in {"IS", "CIS"} /\ x.table.rows[x.row].labels = 1
      /\ x.table.rows[x.row].values[x.column] # {}
  BY <1>1 DEF StatementCells
<1>3. /\ n \in DOMAIN Filings /\ OfCompany(n, r.company) /\ FilingOf(n).year = r.year
      /\ FilingOf(n).kind = r.kind /\ Effective(VersionOf(n), NoDate)
  BY DEF Report, Available
<1>4. ASSUME NEW m \in Available(r), FilingOf(m).year = r.year, FilingOf(m).kind = r.kind,
             Effective(VersionOf(m), NoDate)
      PROVE  FilingOf(m).filed <= FilingOf(n).filed
  <2>1. FilingOf(m).filed < FilingOf(n).filed \/ FilingOf(m).filed = FilingOf(n).filed
    BY <1>4 DEF Report
  <2>2. FilingOf(m).filed \in Nat /\ FilingOf(n).filed \in Nat
    BY <1>3 DEF FilingsSound, Available
  <2>3. QED
    BY <2>1, <2>2
<1>5. QED
  BY <1>2, <1>3, <1>4 DEF ReadFrom

\* The number that is read from a statement is of the scope asked for, and no statement
\* of its rank says otherwise.
LEMMA MetricUncontested ==
    ASSUME CorpusSound, FilingsSound, NEW r, NEW x \in StatementMetric(r)
    PROVE  x \in StatementCells(r) /\ Uncontested(x, r)
<1> DEFINE all == StatementCells(r)
           scope == IF r.scope # None THEN r.scope
                    ELSE IF \E y \in all : y.table.scope = "consolidated" THEN "consolidated"
                         ELSE "separate"
           scoped == {y \in all : y.table.scope = scope}
           preferred == {y \in scoped : \A z \in scoped :
                            StatementPriority(y.table) <= StatementPriority(z.table)}
<1>1. preferred # {} /\ Unanimous(preferred) /\ x = CHOOSE y \in preferred : TRUE
  BY DEF StatementMetric
<1>2. x \in preferred
  BY <1>1
<1>3. IsFiniteSet(preferred)
  <2>1. preferred \in SUBSET all
    OBVIOUS
  <2>2. QED
    BY <2>1, CellsFinite, FS_Subset
<1>4. IF r.scope # None THEN scope = r.scope
      ELSE (\E y \in all : y.table.scope = "consolidated") => scope = "consolidated"
  OBVIOUS
<1> HIDE DEF scope
<1>5. x \in all /\ x.table.scope = scope
  BY <1>2
<1>6. ASSUME NEW y \in all, y.table.scope = x.table.scope, y.table.statement = x.table.statement
      PROVE  y \in preferred
  <2>1. StatementPriority(y.table) = StatementPriority(x.table)
    BY <1>6 DEF StatementPriority
  <2>2. QED
    BY <1>2, <1>5, <1>6, <2>1
<1>7. ASSUME NEW y \in all, y.table.scope = x.table.scope, y.table.statement = "IS"
      PROVE  x.table.statement = "IS"
  <2>1. StatementPriority(x.table) <= StatementPriority(y.table)
    BY <1>2, <1>5, <1>7
  <2>2. QED
    BY <1>7, <2>1 DEF StatementPriority
<1> HIDE DEF preferred
<1>8. \A y \in {z \in all : z.table.scope = x.table.scope} :
        y.table.statement = x.table.statement =>
            /\ y.table.rows[y.row].values[y.column] = x.table.rows[x.row].values[x.column]
            /\ y.table.scale = x.table.scale
  BY <1>1, <1>2, <1>3, <1>6, UnanimousAgree
<1>9. Uncontested(x, r)
  BY <1>4, <1>5, <1>7, <1>8 DEF Uncontested
<1>10. QED
  BY <1>5, <1>9

\* A metric that the checker calls sufficient is read from the report, uncontested.
LEMMA StatementsSufficient ==
    ASSUME CorpusSound, FilingsSound, SummariseStatement
    PROVE  ToolEvidenceSufficient'
<1> DEFINE b == response'.bundle
           d == response'.data
<1> SUFFICES ASSUME response'.status = "sufficient"
             PROVE  b.ids # {} /\ \A x \in d.cell :
                        Uncontested(x, request) /\ \E n \in b.filings : ReadFrom(x, request, n)
  BY DEF ToolEvidenceSufficient, SummariseStatement
<1>1. /\ request.tool = "build_summary_context" /\ FromStatement(request)
      /\ response'.status = Sufficiency(request, b, d)
      /\ d.cell = StatementMetric(request)
      /\ d.cell # {} => b.filings = Report(request)
  BY DEF SummariseStatement, Reply, NoData, Evidenced
<1> HIDE DEF b, d
<1>2. b.ids # {}
  BY <1>1 DEF Sufficiency, Citable
<1>3. ASSUME NEW x \in d.cell
      PROVE  Uncontested(x, request) /\ \E n \in b.filings : ReadFrom(x, request, n)
  <2>1. x \in StatementCells(request) /\ Uncontested(x, request)
    BY <1>1, MetricUncontested
  <2>2. \E n \in Report(request) : ReadFrom(x, request, n)
    BY <2>1, CellOfReport
  <2>3. QED
    BY <1>1, <2>1, <2>2
<1>4. QED
  BY <1>2, <1>3

-----------------------------------------------------------------------------
(* The facts of a request                                                   *)

\* The lookup a request makes asks for its version and its number of periods, of one
\* company, and for no event.
LEMMA FactPlanned ==
    ASSUME NEW r, r.company # None, StructuredAccount(r)
    PROVE  LET p == FactPlan(r)
           IN  /\ p.policy = r.policy /\ p.asOf = NoDate /\ p.latest = r.limit
               /\ p.operation \notin CorpusWide /\ p.domain # "event"
<1> DEFINE q == [company |-> r.company, asOf |-> NoDate, years |-> {}, date |-> NoDate,
                 more |-> <<>>, account |-> r.account, words |-> r.words, threshold |-> 0, top |-> 1]
<1>1. /\ q.company # None /\ q.threshold = NoTime /\ q.asOf = NoDate
      /\ q.account.support = "structured" /\ q.account.status = "resolved" /\ Structured(q)
  BY DEF StructuredAccount, Structured, NoTime
<1>2. /\ FactPlan(r).policy = r.policy /\ FactPlan(r).asOf = NoDate /\ FactPlan(r).latest = r.limit
      /\ FactPlan(r).operation = Operation(q) /\ FactPlan(r).domain = Domain(q)
  BY DEF FactPlan, PlanOf
<1> HIDE DEF q
<1>3. Operation(q) \notin CorpusWide
  BY <1>1 DEF Operation, CorpusWide
<1>4. Domain(q) # "event"
  BY <1>1 DEF Domain
<1>5. QED
  BY <1>2, <1>3, <1>4

\* A fact that matches a request and that the lookup left of the overlay answers it.
LEMMA FactAnswers ==
    ASSUME CorpusSound, InstantsSound, NEW r, r.until \in Nat, NEW f \in FactRows,
           NEW g \in FinancialRows, LeftOf(f, g), FactMatches(f, r), NEW b,
           f.evidence \subseteq b.items,
           \A id \in f.evidence : /\ Evidence[id].ok
                                  /\ AdmitsAs("hydrate", Evidence[id].filing, r.policy, NoDate)
    PROVE  FactOf(f, r, b)
<1>1. g \in FactRows
  BY DEF CorpusSound
<1>2. /\ f.id = g.id /\ f.filing = g.filing /\ f.end = g.end /\ f.kind = g.kind
      /\ f.evidence \subseteq g.evidence
  BY <1>1, LeftSays, LeftKind
<1>3. \A id \in f.evidence : Evidence[id].filing = f.filing
  BY <1>2 DEF CorpusSound
<1>4. f.kind = "instant" => f.end = NoDate
  BY <1>2 DEF InstantsSound
<1>5. /\ OfCompany(f.filing, r.company) /\ f.account = r.account.id
      /\ r.scope # None => f.scope = r.scope
      /\ (f.kind = "instant" /\ r.until # NoDate) => f.instant <= r.until
      /\ (f.kind # "instant" /\ r.until # NoDate) => f.end = r.until
  BY DEF FactMatches
<1>6. /\ r.until # NoDate => DateOf(f) <= r.until
      /\ (r.until # NoDate /\ f.kind = "duration") => DateOf(f) = r.until
  BY <1>4, <1>5 DEF DateOf
<1>7. QED
  BY <1>2, <1>3, <1>5, <1>6 DEF FactOf

\* The facts that match a request, in their order.
LEMMA MatchingFacts ==
    ASSUME NEW list \in Seq(FactRows), NEW r
    PROVE  LET out == Kept(list, LAMBDA f : FactMatches(f, r))
           IN  \A i \in DOMAIN out : \E k \in DOMAIN list : out[i] = list[k] /\ FactMatches(list[k], r)
<1> DEFINE P == {k \in DOMAIN list : FactMatches(list[k], r)}
           places == Sorted(P, Ascending(P))
           out == Kept(list, LAMBDA f : FactMatches(f, r))
<1>1. out = [i \in DOMAIN places |-> list[places[i]]]
  BY DEF Kept, Ordered, Ascending
<1>2. P \in SUBSET DOMAIN list /\ \A k \in P : FactMatches(list[k], r)
  OBVIOUS
<1> HIDE DEF P
<1>3. P \in SUBSET Nat /\ IsFiniteSet(P)
  BY <1>2, IndicesFinite
<1>4. places \in [1 .. Cardinality(P) -> P]
  BY <1>3, PlacesOrdered
<1> HIDE DEF places, out
<1>5. QED
  BY <1>1, <1>2, <1>4 DEF out

\* Facts that the checker calls sufficient are facts of the request.
LEMMA FactsSufficient ==
    ASSUME CorpusSound, InstantsSound, RetrievalInv, FactsOfOverlay, GetFinancialFacts,
           request.company # None, StructuredAccount(request), request.until \in Nat,
           plan = FactPlan(request)
    PROVE  ToolEvidenceSufficient'
<1> DEFINE matching == Kept(bundle.facts, LAMBDA f : FactMatches(f, request))
           b == response'.bundle
           d == response'.data
<1> SUFFICES ASSUME response'.status = "sufficient"
             PROVE  b.ids # {} /\ \A i \in DOMAIN d.facts : FactOf(d.facts[i], request, b)
  BY DEF ToolEvidenceSufficient, GetFinancialFacts
<1>1. /\ pc = "bundle" /\ request.tool = "get_financial_facts"
      /\ response'.status = Sufficiency(request, b, d)
      /\ d.facts = matching
      /\ {matching[i] : i \in DOMAIN matching} # {} =>
            b.items = {id \in bundle.evidence \cap EvidenceOf(matching) : TextAdmitted(id)}
  BY DEF GetFinancialFacts, Reply, NoData, Evidenced
<1> HIDE DEF b, d
<1>2. b.ids # {}
  BY <1>1 DEF Sufficiency, Citable
<1>3. /\ plan.policy = request.policy /\ plan.asOf = NoDate
      /\ plan.operation \notin CorpusWide /\ plan.domain # "event"
  BY FactPlanned
<1>4. FromOverlay(bundle.facts) /\ bundle.facts \in Seq(FactRows)
  BY <1>1, <1>3 DEF FactsOfOverlay
<1>5. /\ \A k \in DOMAIN bundle.facts : bundle.facts[k].evidence \subseteq bundle.evidence
      /\ \A id \in bundle.evidence : /\ Evidence[id].ok /\ ~Evidence[id].injected
                                     /\ Admits("hydrate", Evidence[id].filing)
  BY <1>1, <1>3 DEF RetrievalInv, EvidenceAdmissible, FactsShown
<1> HIDE DEF matching
<1>6. ASSUME NEW i \in DOMAIN matching
      PROVE  FactOf(matching[i], request, b)
  <2>1. PICK k \in DOMAIN bundle.facts :
            matching[i] = bundle.facts[k] /\ FactMatches(bundle.facts[k], request)
    BY <1>4, MatchingFacts DEF matching
  <2>2. bundle.facts[k] \in FactRows
    BY <1>4
  <2>3. PICK g \in FinancialRows : LeftOf(bundle.facts[k], g)
    BY <1>4 DEF FromOverlay
  <2>4. \A id \in matching[i].evidence :
            /\ Evidence[id].ok /\ id \in bundle.evidence /\ TextAdmitted(id)
            /\ AdmitsAs("hydrate", Evidence[id].filing, request.policy, NoDate)
    BY <1>3, <1>5, <2>1 DEF Admits, TextAdmitted
  <2>5. matching[i].evidence \subseteq b.items
    <3>1. matching[i].evidence \subseteq EvidenceOf(matching)
      BY DEF EvidenceOf
    <3>2. b.items = {id \in bundle.evidence \cap EvidenceOf(matching) : TextAdmitted(id)}
      BY <1>1
    <3>3. QED
      BY <2>4, <3>1, <3>2
  <2>6. QED
    BY <2>1, <2>2, <2>3, <2>4, <2>5, FactAnswers
<1>7. QED
  BY <1>1, <1>2, <1>6

-----------------------------------------------------------------------------
(* Every reply of the tools                                                 *)

\* A search that the checker calls sufficient returns text of the request.
LEMMA SearchesSufficient ==
    ASSUME CorpusSound, CacheSound, request.policy \in Policies, SearchDisclosures \/ SummariseSearch
    PROVE  ToolEvidenceSufficient'
<1> DEFINE b == response'.bundle
<1> SUFFICES ASSUME response'.status = "sufficient"
             PROVE  b.ids # {} /\ \A id \in b.items : TextOf(id, request)
  BY DEF ToolEvidenceSufficient, SearchDisclosures, SummariseSearch
<1>1. request.tool \in SearchTools
  BY DEF SearchDisclosures, SummariseSearch, SearchTools
<1> PICK hits \in HybridHits(request) : Reply(Retrieved(request, {id \in hits : TextAdmitted(id)}), NoData)
  BY DEF SearchDisclosures, SummariseSearch
<1> DEFINE items == {id \in hits : TextAdmitted(id)}
<1>2. /\ response'.status = Sufficiency(request, b, response'.data)
      /\ b = Retrieved(request, items)
  BY DEF Reply
<1>3. b.items = items
  <2> HIDE DEF items
  <2>1. Retrieved(request, items).items = items
    BY DEF Retrieved, Evidenced
  <2>2. QED
    BY <1>2, <2>1
<1> HIDE DEF b
<1>4. b.ids # {}
  BY <1>1, <1>2 DEF Sufficiency, Citable, SearchTools
<1>5. \A id \in b.items : TextOf(id, request)
  BY <1>3, HitsAreText
<1>6. QED
  BY <1>4, <1>5

AtFacts == pc \in {"search", "texts", "titles", "cut", "bundle"}

\* Until there is a reply, the call in hand is a request, and the search of its facts
\* is the lookup it makes.
ToolInv ==
    /\ RetrievalInv /\ FactsOfOverlay /\ ToolEvidenceSufficient
    /\ pc # "replied" => response.status # "sufficient"
    /\ AtFacts \/ pc = "tool" => request \in Requests
    /\ AtFacts => /\ request.tool = "get_financial_facts" /\ StructuredAccount(request)
                  /\ plan = FactPlan(request)

LEMMA ToolsStart ==
    ASSUME ToolInit
    PROVE  ToolInv
  BY DEF ToolInit, ToolInv, RetrievalInv, CacheSound, Searching, EvidenceAdmissible, FactsShown,
         FactsOfOverlay, ToolEvidenceSufficient, AtFacts, NoResponse

\* A reply leaves no search behind.
LEMMA RepliesKeep ==
    ASSUME CacheSound', pc' = "replied", ToolEvidenceSufficient'
    PROVE  ToolInv'
  BY DEF ToolInv, RetrievalInv, Searching, EvidenceAdmissible, FactsShown, FactsOfOverlay, AtFacts

LEMMA DispatchKeeps ==
    ASSUME RequestsSound, ToolInv, NEW r \in Requests, Dispatch(r)
    PROVE  ToolInv'
<1>1. request' = r /\ cache' = cache /\ CacheSound' /\ pc = "idle" /\ response.status # "sufficient"
  BY SameCache DEF Dispatch, ToolInv, RetrievalInv
<1>2. response'.status # "sufficient"
  BY <1>1 DEF Dispatch, NoResponse
<1>3. ToolEvidenceSufficient'
  BY <1>2 DEF ToolEvidenceSufficient
<1>4. CASE pc' = "replied"
  BY <1>1, <1>3, <1>4, RepliesKeep
<1>5. CASE pc' = "tool"
  BY <1>1, <1>2, <1>3, <1>5
     DEF ToolInv, RetrievalInv, Searching, EvidenceAdmissible, FactsShown, FactsOfOverlay, AtFacts
<1>6. CASE pc' = "search"
  <2>1. r.tool = "get_financial_facts" /\ StructuredAccount(r) /\ plan' = FactPlan(r)
    BY <1>6 DEF Dispatch
  <2>2. r.company # None /\ r.policy \in Policies /\ r.limit \in Nat
    BY <2>1 DEF RequestsSound
  <2>3. plan'.policy \in Policies /\ plan'.latest \in Int
    BY <2>1, <2>2, FactPlanned
  <2>4. RetrievalInv' /\ FactsOfOverlay'
    BY <1>1, <1>6, <2>3 DEF RetrievalInv, Searching, EvidenceAdmissible, FactsShown, FactsOfOverlay
  <2>5. QED
    BY <1>1, <1>2, <1>3, <1>6, <2>1, <2>4 DEF ToolInv, AtFacts
<1>7. QED
  BY <1>4, <1>5, <1>6 DEF Dispatch

LEMMA SearchStructuredKeeps ==
    ASSUME CorpusSound, ToolInv, SearchStructured
    PROVE  ToolInv'
<1>1. Search /\ request' = request /\ response' = response
  BY DEF SearchStructured
<1>2. /\ plan' = plan /\ pc \in {"search", "texts", "titles", "cut"}
      /\ pc' \in {"texts", "titles", "cut", "bundle"}
  BY <1>1 DEF Search, IdentityLost, Refuse, SearchFacts, SearchIndexed, SearchCorpus, AddTitles, Cut,
              SearchCorpusFinancial, Nothing, Return
<1>3. RetrievalInv' /\ FactsOfOverlay'
  BY <1>1, SearchKeeps, SearchKeepsFactsOfOverlay DEF ToolInv
<1>4. response'.status # "sufficient" /\ ToolEvidenceSufficient'
  BY <1>1, <1>2 DEF ToolInv, ToolEvidenceSufficient
<1>5. QED
  BY <1>1, <1>2, <1>3, <1>4 DEF ToolInv, AtFacts

\* The tools that do not look facts up.
LEMMA HandlersKeep ==
    ASSUME CorpusSound, ToolsSound, ToolInv,
           \/ SearchDisclosures \/ AnalyzeDisclosureTrend \/ GetCorrectionLineage
           \/ SummariseStatement \/ SummariseSearch \/ HandlerFails
    PROVE  ToolInv'
<1>1. /\ pc = "tool" /\ pc' = "replied" /\ request' = request
      /\ cache' = cache \/ cache' = Remembered(SearchOf(request))
  BY DEF SearchDisclosures, AnalyzeDisclosureTrend, GetCorrectionLineage, SummariseStatement,
         SummariseSearch, HandlerFails, Reply
<1>2. request \in Requests /\ CacheSound
  BY <1>1 DEF ToolInv, RetrievalInv
<1>3. request.policy \in Policies /\ request.limit \in Nat
  BY <1>2 DEF ToolsSound, RequestsSound
<1>4. CacheSound'
  BY <1>1, <1>2, SameCache, CacheExtended
<1>5. CASE SearchDisclosures \/ SummariseSearch
  BY <1>1, <1>2, <1>3, <1>4, <1>5, SearchesSufficient, RepliesKeep
<1>6. CASE AnalyzeDisclosureTrend
  BY <1>1, <1>3, <1>4, <1>6, TrendsSufficient, RepliesKeep DEF ToolsSound
<1>7. CASE GetCorrectionLineage
  BY <1>1, <1>4, <1>7, LineagesSufficient, RepliesKeep DEF ToolsSound
<1>8. CASE SummariseStatement
  BY <1>1, <1>4, <1>8, StatementsSufficient, RepliesKeep DEF ToolsSound
<1>9. CASE HandlerFails
  <2>1. ToolEvidenceSufficient'
    BY <1>9 DEF HandlerFails, NoResponse, ToolEvidenceSufficient
  <2>2. QED
    BY <1>1, <1>4, <2>1, RepliesKeep
<1>10. QED
  BY <1>5, <1>6, <1>7, <1>8, <1>9

LEMMA GetFinancialFactsKeeps ==
    ASSUME CorpusSound, ToolsSound, ToolInv, GetFinancialFacts
    PROVE  ToolInv'
<1>1. pc = "bundle" /\ pc' = "replied" /\ cache' = cache /\ CacheSound'
  BY SameCache DEF GetFinancialFacts, Reply, ToolInv, RetrievalInv
<1>2. /\ request \in Requests /\ request.tool = "get_financial_facts" /\ StructuredAccount(request)
      /\ plan = FactPlan(request) /\ RetrievalInv /\ FactsOfOverlay
  BY <1>1 DEF ToolInv, AtFacts
<1>3. request.company # None /\ request.until \in Nat
  BY <1>2 DEF ToolsSound, RequestsSound
<1>4. ToolEvidenceSufficient'
  BY <1>2, <1>3, FactsSufficient DEF ToolsSound
<1>5. QED
  BY <1>1, <1>4, RepliesKeep

LEMMA ToolStutterKeeps ==
    ASSUME ToolInv, UNCHANGED toolVars
    PROVE  ToolInv'
<1>1. /\ plan' = plan /\ pc' = pc /\ refs' = refs /\ facts' = facts /\ cache' = cache
      /\ bundle' = bundle /\ request' = request /\ response' = response
  BY DEF toolVars, retrievalVars
<1>2. RetrievalInv'
  BY <1>1, SameRetrieval DEF ToolInv
<1>3. FactsOfOverlay'
  BY <1>1 DEF ToolInv, FactsOfOverlay, FromOverlay, OfCompany, FilingOf
<1>4. ToolEvidenceSufficient'
  BY <1>1 DEF ToolInv, ToolEvidenceSufficient
<1>5. QED
  BY <1>1, <1>2, <1>3, <1>4 DEF ToolInv, AtFacts

\* A response that the checker calls sufficient is an answer to the request and to
\* nothing else, whatever the index, the dense service and the lookup found: text, of
\* the company, days and version asked for; facts, of its account, scope and period; a
\* lineage, whole and in the order of filing; a trend of its newest filings; or a number
\* of the account, read from the newest report and said by no statement otherwise.  It
\* is assumed that requests pass the schema of their tool and that the versions are
\* those of build_lineage, which are numbered as VersionsAreSound proves; nothing is
\* assumed of the headers of a statement.
THEOREM ToolAnswersAreSufficient ==
    CorpusSound /\ ToolsSound /\ ToolSpec => []ToolEvidenceSufficient
<1> SUFFICES ASSUME CorpusSound, ToolsSound
             PROVE  ToolSpec => []ToolEvidenceSufficient
  OBVIOUS
<1>1. ToolInit => ToolInv
  BY ToolsStart
<1>2. ToolInv /\ [ToolNext]_toolVars => ToolInv'
  <2> SUFFICES ASSUME ToolInv, [ToolNext]_toolVars PROVE ToolInv'
    OBVIOUS
  <2>1. CASE \E r \in Requests : Dispatch(r)
    BY <2>1, DispatchKeeps DEF ToolsSound
  <2>2. CASE SearchStructured
    BY <2>2, SearchStructuredKeeps
  <2>3. CASE GetFinancialFacts
    BY <2>3, GetFinancialFactsKeeps
  <2>4. CASE \/ SearchDisclosures \/ AnalyzeDisclosureTrend \/ GetCorrectionLineage
             \/ SummariseStatement \/ SummariseSearch \/ HandlerFails
    BY <2>4, HandlersKeep
  <2>5. CASE UNCHANGED toolVars
    BY <2>5, ToolStutterKeeps
  <2>6. QED
    BY <2>1, <2>2, <2>3, <2>4, <2>5 DEF ToolNext
<1>3. ToolInv => ToolEvidenceSufficient
  BY DEF ToolInv
<1>4. QED
  BY <1>1, <1>2, <1>3, PTL DEF ToolSpec
=============================================================================
